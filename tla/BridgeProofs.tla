---------------------------- MODULE BridgeProofs ----------------------------
(***************************************************************************)
(* What holds of a session's bridge for every number of requests, of       *)
(* attempts and of failures.                                               *)
(***************************************************************************)
EXTENDS Bridge, TLAPS

-----------------------------------------------------------------------------
(* Types.                                                                  *)

FlagsOK ==
  /\ closed \in BOOLEAN /\ respawning \in BOOLEAN
  /\ currentIp \in BOOLEAN /\ wantBrowser \in BOOLEAN
CountsOK ==
  /\ childGen \in Nat /\ child \in Nat /\ attempt \in 0..MaxAttempts /\ faults \in Nat
  /\ attach \in AttachSteps /\ respawn \in RespawnSteps

LEMMA SessionParts == SessionOK <=> FlagsOK /\ CountsOK
BY DEF SessionOK, FlagsOK, CountsOK

LEMMA FlagsStep ==
  ASSUME TypeOK, [Next]_vars
  PROVE  FlagsOK'
<1>0. FlagsOK /\ CountsOK
  BY SessionParts DEF TypeOK
<1> USE DEF FlagsOK, session, swapper
<1>1. ASSUME NEW r \in Requests, SendPlain(r) \/ SendBrowsing(r) \/ SendReset(r)
      PROVE  FlagsOK'
  BY <1>0, <1>1 DEF SendPlain, SendBrowsing, SendReset
<1>2. ASSUME NEW r \in Requests, ChildReplies(r) \/ SendFails(r) PROVE FlagsOK'
  BY <1>0, <1>2 DEF ChildReplies, SendFails, EnterRespawn
<1>3. ASSUME NEW r \in Requests, Reset(r) PROVE FlagsOK'
  BY <1>0, <1>3 DEF Reset, ResetGoes, ResetDropped, ResetRecreated,
      EnterRespawn
<1>4. ASSUME NEW g \in Generations, ChildDies(g) \/ ChildGone(g) PROVE FlagsOK'
  BY <1>0, <1>4 DEF ChildDies, ChildGone, EnterRespawn
<1>5. CASE Wedge \/ CloseSession
  BY <1>0, <1>5 DEF Wedge, CloseSession, EnterRespawn
<1>6. CASE AttachProvisioned \/ AttachSwap \/ AttachCalledOff \/ AttachEnds
  BY <1>0, <1>6 DEF AttachProvisioned, AttachSwap, AttachCalledOff,
      AttachEnds
<1>7. CASE AttachStarts
  BY <1>0, <1>7 DEF AttachStarts, AttachThrows, EnterRespawn
<1>8. CASE AttachReplayed
  BY <1>0, <1>8 DEF AttachReplayed, AttachThrows, AttachInstalls, Install,
      EnterRespawn
<1>9. CASE RespawnClosed \/ RespawnProvisioned \/ RespawnStarts \/ RespawnReplayed
  BY <1>0, <1>9 DEF RespawnClosed, RespawnProvisioned, RespawnStarts,
      RespawnReplayed
<1>10. CASE RespawnAttempt \/ RespawnOver
  BY <1>0, <1>10 DEF RespawnAttempt, RespawnOver, AttemptsLeft
<1>11. CASE RespawnReplayFails \/ RespawnRetries \/ RespawnEnds
  BY <1>0, <1>11 DEF RespawnReplayFails, RespawnRetries, RespawnEnds,
      LeaveRespawn
<1>12. CASE UNCHANGED vars
  BY <1>0, <1>12 DEF vars
<1> QED BY <1>1, <1>2, <1>3, <1>4, <1>5, <1>6, <1>7, <1>8, <1>9, <1>10, <1>11, <1>12
        DEF Next, Attach, Respawn

LEMMA CountsStep ==
  ASSUME TypeOK, [Next]_vars
  PROVE  CountsOK'
<1>0. FlagsOK /\ CountsOK
  BY SessionParts DEF TypeOK
<1> USE BridgeAssumption DEF CountsOK, session, swapper, AttachSteps, RespawnSteps, Fault
<1>1. ASSUME NEW r \in Requests, SendPlain(r) \/ SendBrowsing(r) \/ SendReset(r)
      PROVE  CountsOK'
  BY <1>0, <1>1 DEF SendPlain, SendBrowsing, SendReset
<1>2. ASSUME NEW r \in Requests, ChildReplies(r) \/ SendFails(r) PROVE CountsOK'
  BY <1>0, <1>2 DEF ChildReplies, SendFails, EnterRespawn
<1>3. ASSUME NEW r \in Requests, Reset(r) PROVE CountsOK'
  BY <1>0, <1>3 DEF Reset, ResetGoes, ResetDropped, ResetRecreated,
      EnterRespawn
<1>4. ASSUME NEW g \in Generations, ChildDies(g) \/ ChildGone(g) PROVE CountsOK'
  BY <1>0, <1>4 DEF ChildDies, ChildGone, EnterRespawn
<1>5. CASE Wedge \/ CloseSession
  BY <1>0, <1>5 DEF Wedge, CloseSession, EnterRespawn
<1>6. CASE AttachProvisioned \/ AttachSwap \/ AttachCalledOff \/ AttachEnds
  BY <1>0, <1>6 DEF AttachProvisioned, AttachSwap, AttachCalledOff,
      AttachEnds
<1>7. CASE AttachStarts
  BY <1>0, <1>7 DEF AttachStarts, AttachThrows, EnterRespawn
<1>8. CASE AttachReplayed
  BY <1>0, <1>8 DEF AttachReplayed, AttachThrows, AttachInstalls, Install,
      EnterRespawn
<1>9. CASE RespawnClosed \/ RespawnProvisioned \/ RespawnStarts \/ RespawnReplayed
  BY <1>0, <1>9 DEF RespawnClosed, RespawnProvisioned, RespawnStarts,
      RespawnReplayed
<1>10. CASE RespawnAttempt \/ RespawnOver
  BY <1>0, <1>10 DEF RespawnAttempt, RespawnOver, AttemptsLeft
<1>11. CASE RespawnReplayFails \/ RespawnRetries \/ RespawnEnds
  BY <1>0, <1>11 DEF RespawnReplayFails, RespawnRetries, RespawnEnds,
      LeaveRespawn
<1>12. CASE UNCHANGED vars
  BY <1>0, <1>12 DEF vars
<1> QED BY <1>1, <1>2, <1>3, <1>4, <1>5, <1>6, <1>7, <1>8, <1>9, <1>10, <1>11, <1>12
        DEF Next, Attach, Respawn

\* An answer counts up what was answered, and settles it.
LEMMA AnswerTypes ==
  ASSUME RequestsOK, NEW R, Answer(R)
  PROVE  req' \in [Requests -> RequestSteps] /\ replies' \in [Requests -> Nat]
BY DEF RequestsOK, RequestSteps, Answer

LEMMA HandOverTypes ==
  ASSUME RequestsOK, SessionOK, NEW R, HandOver(R)
  PROVE  req' \in [Requests -> RequestSteps] /\ replies' \in [Requests -> Nat]
         /\ sent' \in [Requests -> Nat]
BY DEF RequestsOK, SessionOK, RequestSteps, HandOver

\* What waits for a reset is a reset.
ResetsWait == \A r \in Requests : req[r] \in {"wait", "recreate", "respawn"} => r \in Resets

LEMMA RequestsStep ==
  ASSUME TypeOK, ResetsWait, [Next]_vars
  PROVE  RequestsOK'
<1>0. SessionOK /\ RequestsOK
  BY DEF TypeOK
<1> USE DEF session, swapper, client, procs
<1>1. ASSUME NEW r \in Requests, SendPlain(r) PROVE RequestsOK'
  BY <1>0, <1>1, AnswerTypes, HandOverTypes DEF SendPlain, Forward, RequestsOK
<1>2. ASSUME NEW r \in Requests, SendBrowsing(r) PROVE RequestsOK'
  <2>1. CASE Forward({r})
    BY <1>0, <1>2, <2>1, AnswerTypes, HandOverTypes DEF SendBrowsing, Forward, RequestsOK
  <2>2. CASE ~Forward({r})
    BY <1>0, <1>2, <2>2 DEF SendBrowsing, RequestsOK, RequestSteps
  <2> QED BY <2>1, <2>2
<1>3. ASSUME NEW r \in Requests, SendReset(r) PROVE RequestsOK'
  BY <1>0, <1>3 DEF SendReset, RequestsOK, RequestSteps
<1>4. ASSUME NEW r \in Requests, ChildReplies(r) PROVE RequestsOK'
  BY <1>0, <1>4, AnswerTypes DEF ChildReplies, RequestsOK
<1>5. ASSUME NEW r \in Requests, SendFails(r) PROVE RequestsOK'
  BY <1>0, <1>5, AnswerTypes DEF SendFails, FailAllInflight, RequestsOK
<1>6. ASSUME NEW r \in Requests, ResetGoes(r) \/ ResetDropped(r) PROVE RequestsOK'
  <2>1. CASE Answer({r})
    BY <1>0, <1>6, <2>1, AnswerTypes DEF ResetGoes, ResetDropped, RequestsOK
  <2>2. CASE ~Answer({r})
    BY <1>0, <1>6, <2>2 DEF ResetGoes, ResetDropped, RequestsOK, RequestSteps
  <2> QED BY <2>1, <2>2
<1>7. ASSUME NEW r \in Requests, ResetRecreated(r) PROVE RequestsOK'
  <2>1. removed' \subseteq Resets /\ resetOk' \subseteq Resets
    BY <1>0, <1>7 DEF ResetsWait, ResetRecreated, Reported, RequestsOK
  <2>2. req' \in [Requests -> RequestSteps] /\ replies' \in [Requests -> Nat]
    <3>1. CASE CanRespawn
      BY <1>0, <1>7, <3>1 DEF ResetRecreated, RequestsOK, RequestSteps
    <3>2. CASE ~CanRespawn
      BY <1>0, <1>7, <3>2, AnswerTypes DEF ResetRecreated
    <3> QED BY <3>1, <3>2
  <2> QED BY <1>0, <1>7, <2>1, <2>2 DEF ResetRecreated, RequestsOK
<1>8. ASSUME NEW g \in Generations, ChildDies(g) \/ ChildGone(g) PROVE RequestsOK'
  BY <1>0, <1>8, AnswerTypes DEF ChildDies, ChildGone, FailAllInflight, RequestsOK
<1>9. CASE Wedge \/ CloseSession \/ UNCHANGED vars
  BY <1>0, <1>9, AnswerTypes DEF Wedge, CloseSession, FailAllInflight, vars, RequestsOK
<1>10. CASE AttachProvisioned \/ AttachSwap \/ AttachCalledOff
  BY <1>0, <1>10, AnswerTypes
  DEF AttachProvisioned, AttachSwap, AttachCalledOff, FailAllInflight, RequestsOK
<1>11. CASE AttachStarts \/ AttachReplayed
  BY <1>0, <1>11, AnswerTypes
  DEF AttachStarts, AttachReplayed, AttachThrows, FailAllInflight, RequestsOK
<1>12. CASE AttachEnds
  BY <1>0, <1>12, AnswerTypes, HandOverTypes DEF AttachEnds, Forward, RequestsOK
<1>13. CASE \/ RespawnClosed \/ RespawnProvisioned \/ RespawnStarts \/ RespawnReplayed
            \/ RespawnAttempt \/ RespawnReplayFails \/ RespawnRetries
  BY <1>0, <1>13
  DEF RespawnClosed, RespawnProvisioned, RespawnStarts, RespawnReplayed, RespawnAttempt,
      RespawnReplayFails, RespawnRetries, RequestsOK
<1>14. CASE RespawnOver
  BY <1>0, <1>14 DEF RespawnOver, RequestsOK, RequestSteps
<1>15. CASE RespawnEnds
  BY <1>0, <1>15, AnswerTypes DEF RespawnEnds, LeaveRespawn, Reported, Owners, RequestsOK
<1> QED BY <1>1, <1>2, <1>3, <1>4, <1>5, <1>6, <1>7, <1>8, <1>9, <1>10, <1>11, <1>12, <1>13,
           <1>14, <1>15
        DEF Next, Attach, Respawn, Reset

LEMMA ProcsStep ==
  ASSUME TypeOK, [Next]_vars
  PROVE  ProcsOK'
<1> USE DEF TypeOK, SessionOK, ProcsOK, session, swapper, client, procs, Generations
<1>1. ASSUME NEW r \in Requests, SendPlain(r) PROVE ProcsOK'
  BY <1>1 DEF SendPlain, Forward, HandOver, Answer
<1>2. ASSUME NEW r \in Requests, SendBrowsing(r) PROVE ProcsOK'
  BY <1>2 DEF SendBrowsing, Forward, HandOver, Answer
<1>3. ASSUME NEW r \in Requests, SendReset(r) PROVE ProcsOK'
  BY <1>3 DEF SendReset
<1>4. ASSUME NEW r \in Requests, ChildReplies(r) PROVE ProcsOK'
  BY <1>4 DEF ChildReplies, Heard, Answer
<1>5. ASSUME NEW r \in Requests, SendFails(r) PROVE ProcsOK'
  BY <1>5 DEF SendFails, Heard, CanRespawn, FailAllInflight, Answer, Inflight, EnterRespawn
<1>6. ASSUME NEW r \in Requests, ResetGoes(r) \/ ResetDropped(r) PROVE ProcsOK'
  BY <1>6 DEF ResetGoes, ResetDropped, Answer
<1>7. ASSUME NEW r \in Requests, ResetRecreated(r) PROVE ProcsOK'
  BY <1>7 DEF ResetRecreated, CanRespawn, EnterRespawn, Inflight, Answer, Reported
<1>8. ASSUME NEW g \in Generations, ChildDies(g) PROVE ProcsOK'
  BY <1>8 DEF ChildDies
<1>9. ASSUME NEW g \in Generations, ChildGone(g) PROVE ProcsOK'
  BY <1>9 DEF ChildGone, Heard, CanRespawn, FailAllInflight, Answer, Inflight, EnterRespawn
<1>10. CASE Wedge
  BY <1>10 DEF Wedge, CanRespawn, FailAllInflight, Answer, Inflight, EnterRespawn
<1>11. CASE CloseSession
  BY <1>11 DEF CloseSession, CloseProcs
<1>12. CASE AttachProvisioned
  BY <1>12 DEF AttachProvisioned, Answer, Waiters
<1>13. CASE AttachSwap
  BY <1>13 DEF AttachSwap, CanRespawn, FailAllInflight, Answer, Inflight
<1>14. CASE AttachCalledOff
  BY <1>14 DEF AttachCalledOff
<1>15. CASE AttachStarts
  BY <1>15 DEF AttachStarts, AttachThrows, EnterRespawn, FailAllInflight, Answer, Inflight
<1>16. CASE AttachReplayed
  BY <1>16 DEF AttachReplayed, AttachInstalls, Install, AttachThrows,
      EnterRespawn, Answer, Inflight
<1>17. CASE AttachEnds
  BY <1>17 DEF AttachEnds, CloseProcs, Forward, HandOver, Answer, Waiters
<1>18. CASE RespawnClosed
  BY <1>18 DEF RespawnClosed, CloseProcs
<1>19. CASE RespawnAttempt
  BY <1>19 DEF RespawnAttempt
<1>20. CASE RespawnOver
  BY <1>20 DEF RespawnOver, CloseProcs, Owners
<1>21. CASE RespawnProvisioned
  BY <1>21 DEF RespawnProvisioned
<1>22. CASE RespawnStarts
  BY <1>22 DEF RespawnStarts
<1>23. CASE RespawnReplayed
  BY <1>23 DEF RespawnReplayed
<1>24. CASE RespawnReplayFails \/ RespawnRetries
  BY <1>24 DEF RespawnReplayFails, RespawnRetries, CloseProcs
<1>25. CASE RespawnEnds
  BY <1>25 DEF RespawnEnds, LeaveRespawn, Answer, Owners, Reported
<1>26. CASE UNCHANGED vars
  BY <1>26 DEF vars
<1> QED BY <1>1, <1>2, <1>3, <1>4, <1>5, <1>6, <1>7, <1>8, <1>9, <1>10, <1>11, <1>12, <1>13,
           <1>14, <1>15, <1>16, <1>17, <1>18, <1>19, <1>20, <1>21, <1>22, <1>23, <1>24, <1>25, <1>26
        DEF Next, Attach, Respawn, Reset

-----------------------------------------------------------------------------
(* Who replaces the child.                                                 *)

\* The child is being replaced by attachBrowser or by respawnChild, never by both.
OwnInv ==
  /\ respawning <=> attach \in {"start", "replay"} \/ respawn # "none"
  /\ attach \in {"start", "replay"} => respawn = "none"

LEMMA OwnStep ==
  ASSUME TypeOK, OwnInv, [Next]_vars
  PROVE  OwnInv'
<1> USE DEF OwnInv, session, swapper, client, procs
<1>1. ASSUME NEW r \in Requests, SendPlain(r) PROVE OwnInv'
  BY <1>1 DEF SendPlain
<1>2. ASSUME NEW r \in Requests, SendBrowsing(r) PROVE OwnInv'
  BY <1>2 DEF SendBrowsing
<1>3. ASSUME NEW r \in Requests, SendReset(r) PROVE OwnInv'
  BY <1>3 DEF SendReset
<1>4. ASSUME NEW r \in Requests, ChildReplies(r) PROVE OwnInv'
  BY <1>4 DEF ChildReplies
<1>5. ASSUME NEW r \in Requests, SendFails(r) PROVE OwnInv'
  BY <1>5 DEF SendFails, CanRespawn, EnterRespawn
<1>6. ASSUME NEW r \in Requests, ResetGoes(r) \/ ResetDropped(r) PROVE OwnInv'
  BY <1>6 DEF ResetGoes, ResetDropped
<1>7. ASSUME NEW r \in Requests, ResetRecreated(r) PROVE OwnInv'
  BY <1>7 DEF ResetRecreated, CanRespawn, EnterRespawn
<1>8. ASSUME NEW g \in Generations, ChildDies(g) PROVE OwnInv'
  BY <1>8 DEF ChildDies
<1>9. ASSUME NEW g \in Generations, ChildGone(g) PROVE OwnInv'
  BY <1>9 DEF ChildGone, CanRespawn, EnterRespawn
<1>10. CASE Wedge
  BY <1>10 DEF Wedge, CanRespawn, EnterRespawn
<1>11. CASE CloseSession
  BY <1>11 DEF CloseSession
<1>12. CASE AttachProvisioned
  BY <1>12 DEF AttachProvisioned
<1>13. CASE AttachSwap
  BY <1>13 DEF AttachSwap, CanRespawn
<1>14. CASE AttachCalledOff
  BY <1>14 DEF AttachCalledOff
<1>15. CASE AttachStarts
  BY <1>15 DEF AttachStarts, AttachThrows, EnterRespawn
<1>16. CASE AttachReplayed
  BY <1>16 DEF AttachReplayed, AttachInstalls, Install, AttachThrows,
      EnterRespawn
<1>17. CASE AttachEnds
  BY <1>17 DEF AttachEnds
<1>18. CASE RespawnClosed
  BY <1>18 DEF RespawnClosed
<1>19. CASE RespawnAttempt
  BY <1>19 DEF RespawnAttempt
<1>20. CASE RespawnOver
  BY <1>20 DEF RespawnOver
<1>21. CASE RespawnProvisioned
  BY <1>21 DEF RespawnProvisioned
<1>22. CASE RespawnStarts
  BY <1>22 DEF RespawnStarts
<1>23. CASE RespawnReplayed
  BY <1>23 DEF RespawnReplayed
<1>24. CASE RespawnReplayFails \/ RespawnRetries
  BY <1>24 DEF RespawnReplayFails, RespawnRetries
<1>25. CASE RespawnEnds
  BY <1>25 DEF RespawnEnds, LeaveRespawn
<1>26. CASE UNCHANGED vars
  BY <1>26 DEF vars
<1> QED BY <1>1, <1>2, <1>3, <1>4, <1>5, <1>6, <1>7, <1>8, <1>9, <1>10, <1>11, <1>12, <1>13,
           <1>14, <1>15, <1>16, <1>17, <1>18, <1>19, <1>20, <1>21, <1>22, <1>23, <1>24, <1>25, <1>26
        DEF Next, Attach, Respawn, Reset

\* The installed child is the newest generation unless it is being replaced.
GenInv ==
  /\ child \in 1..childGen /\ alive \subseteq 1..childGen
  /\ attach \in {"start", "replay"} => child < childGen
  /\ respawn \in {"provision", "start", "replay", "failed"} => child < childGen
  /\ respawn = "probe" => child = childGen
  /\ ~closed /\ ~respawning => child = childGen

LEMMA GenStep ==
  ASSUME TypeOK, OwnInv, GenInv, [Next]_vars
  PROVE  GenInv'
<1> USE DEF TypeOK, SessionOK, ProcsOK, CloseProcs, OwnInv, GenInv, session, swapper, client, procs
<1>1. ASSUME NEW r \in Requests, SendPlain(r) PROVE GenInv'
  BY <1>1 DEF SendPlain
<1>2. ASSUME NEW r \in Requests, SendBrowsing(r) PROVE GenInv'
  BY <1>2 DEF SendBrowsing
<1>3. ASSUME NEW r \in Requests, SendReset(r) PROVE GenInv'
  BY <1>3 DEF SendReset
<1>4. ASSUME NEW r \in Requests, ChildReplies(r) PROVE GenInv'
  BY <1>4 DEF ChildReplies
<1>5. ASSUME NEW r \in Requests, SendFails(r) PROVE GenInv'
  BY <1>5 DEF SendFails, CanRespawn, EnterRespawn
<1>6. ASSUME NEW r \in Requests, ResetGoes(r) \/ ResetDropped(r) PROVE GenInv'
  BY <1>6 DEF ResetGoes, ResetDropped
<1>7. ASSUME NEW r \in Requests, ResetRecreated(r) PROVE GenInv'
  BY <1>7 DEF ResetRecreated, CanRespawn, EnterRespawn
<1>8. ASSUME NEW g \in Generations, ChildDies(g) PROVE GenInv'
  BY <1>8 DEF ChildDies
<1>9. ASSUME NEW g \in Generations, ChildGone(g) PROVE GenInv'
  BY <1>9 DEF ChildGone, CanRespawn, EnterRespawn
<1>10. CASE Wedge
  BY <1>10 DEF Wedge, CanRespawn, EnterRespawn
<1>11. CASE CloseSession
  BY <1>11 DEF CloseSession
<1>12. CASE AttachProvisioned
  BY <1>12 DEF AttachProvisioned
<1>13. CASE AttachSwap
  BY <1>13 DEF AttachSwap, CanRespawn
<1>14. CASE AttachCalledOff
  BY <1>14 DEF AttachCalledOff
<1>15. CASE AttachStarts
  <2>1. UNCHANGED <<closed, childGen, child>> /\ attach = "start" /\ respawn = "none"
        /\ alive' \subseteq alive \cup {childGen}
    BY <1>15 DEF AttachStarts, AttachThrows
  <2>2. \/ attach' = "replay" /\ UNCHANGED <<respawn, respawning>>
        \/ attach' = "failed" /\ respawn' \in {"none", "closing"} /\ (~respawning' => closed)
    BY <1>15 DEF AttachStarts, AttachThrows, EnterRespawn
  <2>3. alive' \subseteq 1..childGen'
    BY <2>1
  <2>4. child' < childGen' /\ child' \in 1..childGen'
    BY <2>1
  <2>5. ~closed' => respawning'
    BY <2>1, <2>2
  <2> QED BY <2>1, <2>2, <2>3, <2>4, <2>5
<1>16. CASE AttachReplayed
  <2>1. UNCHANGED <<closed, childGen, alive>> /\ attach = "replay" /\ respawn = "none"
    BY <1>16 DEF AttachReplayed
  <2>2. \/ attach' = "done" /\ respawning' = FALSE /\ respawn' = respawn
           /\ child' = IF closed THEN child ELSE childGen
        \/ attach' = "failed" /\ child' = child /\ respawn' \in {"none", "closing"}
           /\ (respawning' = FALSE => closed)
    BY <1>16, <2>1 DEF AttachReplayed, AttachInstalls, Install, AttachThrows, EnterRespawn
  <2> QED BY <2>1, <2>2
<1>17. CASE AttachEnds
  BY <1>17 DEF AttachEnds
<1>18. CASE RespawnClosed
  BY <1>18 DEF RespawnClosed
<1>19. CASE RespawnAttempt
  BY <1>19 DEF RespawnAttempt
<1>20. CASE RespawnOver
  BY <1>20 DEF RespawnOver
<1>21. CASE RespawnProvisioned
  BY <1>21 DEF RespawnProvisioned
<1>22. CASE RespawnStarts
  <2>1. respawn = "start" /\ alive' \subseteq alive \cup {childGen}
        /\ respawn' \in {"replay", "failed"} /\ UNCHANGED session
    BY <1>22 DEF RespawnStarts
  <2> QED BY <2>1
<1>23. CASE RespawnReplayed
  BY <1>23 DEF RespawnReplayed
<1>24. CASE RespawnReplayFails \/ RespawnRetries
  BY <1>24 DEF RespawnReplayFails, RespawnRetries
<1>25. CASE RespawnEnds
  BY <1>25 DEF RespawnEnds, LeaveRespawn
<1>26. CASE UNCHANGED vars
  BY <1>26 DEF vars
<1> QED BY <1>1, <1>2, <1>3, <1>4, <1>5, <1>6, <1>7, <1>8, <1>9, <1>10, <1>11, <1>12, <1>13,
           <1>14, <1>15, <1>16, <1>17, <1>18, <1>19, <1>20, <1>21, <1>22, <1>23, <1>24, <1>25, <1>26
        DEF Next, Attach, Respawn, Reset

-----------------------------------------------------------------------------
(* Requests.                                                               *)

LEMMA ResetsStep ==
  ASSUME TypeOK, ResetsWait, [Next]_vars
  PROVE  ResetsWait'
<1>0. Plain \cap Resets = {} /\ Browsing \cap Resets = {}
  BY BridgeAssumption
<1> USE DEF TypeOK, RequestsOK, ResetsWait, client
<1>1. ASSUME NEW r \in Requests, SendPlain(r) PROVE ResetsWait'
  BY <1>0, <1>1 DEF SendPlain, Forward, HandOver, Answer
<1>2. ASSUME NEW r \in Requests, SendBrowsing(r) PROVE ResetsWait'
  BY <1>0, <1>2 DEF SendBrowsing, Forward, HandOver, Answer
<1>3. ASSUME NEW r \in Requests, SendReset(r) PROVE ResetsWait'
  BY <1>0, <1>3 DEF SendReset
<1>4. ASSUME NEW r \in Requests, ChildReplies(r) PROVE ResetsWait'
  BY <1>0, <1>4 DEF ChildReplies, Answer
<1>5. ASSUME NEW r \in Requests, SendFails(r) PROVE ResetsWait'
  BY <1>0, <1>5 DEF SendFails, FailAllInflight, Answer, Inflight
<1>6. ASSUME NEW r \in Requests, ResetGoes(r) \/ ResetDropped(r) PROVE ResetsWait'
  BY <1>0, <1>6 DEF ResetGoes, ResetDropped, Answer
<1>7. ASSUME NEW r \in Requests, ResetRecreated(r) PROVE ResetsWait'
  BY <1>0, <1>7 DEF ResetRecreated, Inflight, Answer
<1>8. ASSUME NEW g \in Generations, ChildDies(g) PROVE ResetsWait'
  BY <1>0, <1>8 DEF ChildDies
<1>9. ASSUME NEW g \in Generations, ChildGone(g) PROVE ResetsWait'
  BY <1>0, <1>9 DEF ChildGone, FailAllInflight, Answer, Inflight
<1>10. CASE Wedge
  BY <1>0, <1>10 DEF Wedge, FailAllInflight, Answer, Inflight
<1>11. CASE CloseSession
  BY <1>0, <1>11 DEF CloseSession
<1>12. CASE AttachProvisioned
  BY <1>0, <1>12 DEF AttachProvisioned, Answer, Waiters
<1>13. CASE AttachSwap
  BY <1>0, <1>13 DEF AttachSwap, FailAllInflight, Answer, Inflight
<1>14. CASE AttachCalledOff
  BY <1>0, <1>14 DEF AttachCalledOff
<1>15. CASE AttachStarts
  BY <1>0, <1>15 DEF AttachStarts, AttachThrows, FailAllInflight, Answer, Inflight
<1>16. CASE AttachReplayed
  BY <1>0, <1>16 DEF AttachReplayed, AttachThrows, EnterRespawn, FailAllInflight, Answer,
      Inflight
<1>17. CASE AttachEnds
  BY <1>0, <1>17 DEF AttachEnds, Forward, HandOver, Answer, Waiters
<1>18. CASE RespawnClosed
  BY <1>0, <1>18 DEF RespawnClosed
<1>19. CASE RespawnAttempt
  BY <1>0, <1>19 DEF RespawnAttempt
<1>20. CASE RespawnOver
  BY <1>0, <1>20 DEF RespawnOver, Owners
<1>21. CASE RespawnProvisioned
  BY <1>0, <1>21 DEF RespawnProvisioned
<1>22. CASE RespawnStarts
  BY <1>0, <1>22 DEF RespawnStarts
<1>23. CASE RespawnReplayed
  BY <1>0, <1>23 DEF RespawnReplayed
<1>24. CASE RespawnReplayFails \/ RespawnRetries
  BY <1>0, <1>24 DEF RespawnReplayFails, RespawnRetries
<1>25. CASE RespawnEnds
  BY <1>0, <1>25 DEF RespawnEnds, LeaveRespawn, Answer, Owners
<1>26. CASE UNCHANGED vars
  BY <1>0, <1>26 DEF vars
<1> QED BY <1>1, <1>2, <1>3, <1>4, <1>5, <1>6, <1>7, <1>8, <1>9, <1>10, <1>11, <1>12, <1>13,
           <1>14, <1>15, <1>16, <1>17, <1>18, <1>19, <1>20, <1>21, <1>22, <1>23, <1>24, <1>25, <1>26
        DEF Next, Attach, Respawn, Reset

\* A request is with a child or waits, has no reply while it does, and none is
\* with a child that is being replaced.
ReqAt(r) ==
  /\ sent[r] \in 0..child
  /\ req[r] \notin {"inflight", "answered"} => sent[r] = 0
  /\ req[r] # "answered" => replies[r] = 0
  /\ sent[r] # 0 => replies[r] <= 1
  /\ req[r] = "inflight" => ~respawning /\ sent[r] = child /\ child = childGen
ReqInv == \A r \in Requests : ReqAt(r)

LEMMA ReqStep ==
  ASSUME TypeOK, OwnInv, GenInv, ReqInv, [Next]_vars
  PROVE  ReqInv'
<1> USE DEF TypeOK, SessionOK, RequestsOK, OwnInv, GenInv, ReqInv, ReqAt, session, swapper, client, procs
<1>1. ASSUME NEW r \in Requests, SendPlain(r) PROVE ReqInv'
  BY <1>1 DEF SendPlain, Forward, HandOver, Answer
<1>2. ASSUME NEW r \in Requests, SendBrowsing(r) PROVE ReqInv'
  BY <1>2 DEF SendBrowsing, Forward, HandOver, Answer
<1>3. ASSUME NEW r \in Requests, SendReset(r) PROVE ReqInv'
  BY <1>3 DEF SendReset
<1>4. ASSUME NEW r \in Requests, ChildReplies(r) PROVE ReqInv'
  <2>1. sent[r] # 0 /\ sent' = [sent EXCEPT ![r] = 0]
    BY <1>4 DEF ChildReplies
  <2>2. req[r] \in {"inflight", "answered"}
    BY <2>1
  <2>3. ASSUME NEW q \in Requests, q # r PROVE ReqAt(q)'
    BY <1>4, <2>1, <2>3 DEF ChildReplies, Answer
  <2>4. ReqAt(r)'
    BY <1>4, <2>1, <2>2 DEF ChildReplies, Heard, Answer
  <2> QED BY <2>3, <2>4
<1>5. ASSUME NEW r \in Requests, SendFails(r) PROVE ReqInv'
  BY <1>5 DEF SendFails, Heard, CanRespawn, FailAllInflight, Answer, Inflight, EnterRespawn
<1>6. ASSUME NEW r \in Requests, ResetGoes(r) \/ ResetDropped(r) PROVE ReqInv'
  BY <1>6 DEF ResetGoes, ResetDropped, Answer
<1>7. ASSUME NEW r \in Requests, ResetRecreated(r) PROVE ReqInv'
  BY <1>7 DEF ResetRecreated, CanRespawn, EnterRespawn, Inflight, Answer, Reported
<1>8. ASSUME NEW g \in Generations, ChildDies(g) PROVE ReqInv'
  BY <1>8 DEF ChildDies
<1>9. ASSUME NEW g \in Generations, ChildGone(g) PROVE ReqInv'
  BY <1>9 DEF ChildGone, Heard, CanRespawn, FailAllInflight, Answer, Inflight, EnterRespawn
<1>10. CASE Wedge
  BY <1>10 DEF Wedge, CanRespawn, FailAllInflight, Answer, Inflight, EnterRespawn
<1>11. CASE CloseSession
  BY <1>11 DEF CloseSession
<1>12. CASE AttachProvisioned
  BY <1>12 DEF AttachProvisioned, Answer, Waiters
<1>13. CASE AttachSwap
  BY <1>13 DEF AttachSwap, CanRespawn, FailAllInflight, Answer, Inflight
<1>14. CASE AttachCalledOff
  BY <1>14 DEF AttachCalledOff
<1>15. CASE AttachStarts
  BY <1>15 DEF AttachStarts, AttachThrows, EnterRespawn, FailAllInflight, Answer, Inflight
<1>16. CASE AttachReplayed
  BY <1>16 DEF AttachReplayed, AttachInstalls, Install, AttachThrows,
      EnterRespawn, FailAllInflight, Answer, Inflight
<1>17. CASE AttachEnds
  BY <1>17 DEF AttachEnds, Forward, HandOver, Answer, Waiters
<1>18. CASE RespawnClosed
  BY <1>18 DEF RespawnClosed
<1>19. CASE RespawnAttempt
  BY <1>19 DEF RespawnAttempt
<1>20. CASE RespawnOver
  BY <1>20 DEF RespawnOver, Owners
<1>21. CASE RespawnProvisioned
  BY <1>21 DEF RespawnProvisioned
<1>22. CASE RespawnStarts
  BY <1>22 DEF RespawnStarts
<1>23. CASE RespawnReplayed
  BY <1>23 DEF RespawnReplayed
<1>24. CASE RespawnReplayFails \/ RespawnRetries
  BY <1>24 DEF RespawnReplayFails, RespawnRetries
<1>25. CASE RespawnEnds
  BY <1>25 DEF RespawnEnds, LeaveRespawn, Answer, Owners, Reported
<1>26. CASE UNCHANGED vars
  BY <1>26 DEF vars
<1> QED BY <1>1, <1>2, <1>3, <1>4, <1>5, <1>6, <1>7, <1>8, <1>9, <1>10, <1>11, <1>12, <1>13,
           <1>14, <1>15, <1>16, <1>17, <1>18, <1>19, <1>20, <1>21, <1>22, <1>23, <1>24, <1>25, <1>26
        DEF Next, Attach, Respawn, Reset

-----------------------------------------------------------------------------
(* Processes.                                                              *)

\* The child of an attempt that is not installed yet.
Spawned == IF respawn \in {"replay", "failed"} THEN {childGen} ELSE {}

\* Every process is the installed child, on the list of attachBrowser's finally,
\* or of the attempt under way; and what an attempt replaces has been closed.
AliveInv ==
  /\ attach \in {"none", "provision", "swapWait"} => discard = {}
  /\ attach \in {"start", "replay"} => child \in discard
  /\ alive \subseteq {child} \cup discard \cup Spawned
  /\ respawn \in {"attempt", "provision", "start", "replay", "failed"} => child \notin alive

LEMMA AliveStep ==
  ASSUME TypeOK, OwnInv, GenInv, AliveInv, [Next]_vars
  PROVE  AliveInv'
<1> USE DEF TypeOK, SessionOK, OwnInv, GenInv, AliveInv, Spawned, session, swapper, client, procs
<1>1. ASSUME NEW r \in Requests, SendPlain(r) PROVE AliveInv'
  BY <1>1 DEF SendPlain
<1>2. ASSUME NEW r \in Requests, SendBrowsing(r) PROVE AliveInv'
  BY <1>2 DEF SendBrowsing
<1>3. ASSUME NEW r \in Requests, SendReset(r) PROVE AliveInv'
  BY <1>3 DEF SendReset
<1>4. ASSUME NEW r \in Requests, ChildReplies(r) PROVE AliveInv'
  BY <1>4 DEF ChildReplies
<1>5. ASSUME NEW r \in Requests, SendFails(r) PROVE AliveInv'
  BY <1>5 DEF SendFails, CanRespawn, EnterRespawn
<1>6. ASSUME NEW r \in Requests, ResetGoes(r) \/ ResetDropped(r) PROVE AliveInv'
  BY <1>6 DEF ResetGoes, ResetDropped
<1>7. ASSUME NEW r \in Requests, ResetRecreated(r) PROVE AliveInv'
  BY <1>7 DEF ResetRecreated, CanRespawn, EnterRespawn
<1>8. ASSUME NEW g \in Generations, ChildDies(g) PROVE AliveInv'
  BY <1>8 DEF ChildDies
<1>9. ASSUME NEW g \in Generations, ChildGone(g) PROVE AliveInv'
  BY <1>9 DEF ChildGone, CanRespawn, EnterRespawn
<1>10. CASE Wedge
  BY <1>10 DEF Wedge, CanRespawn, EnterRespawn
<1>11. CASE CloseSession
  BY <1>11 DEF CloseSession, CloseProcs
<1>12. CASE AttachProvisioned
  BY <1>12 DEF AttachProvisioned
<1>13. CASE AttachSwap
  BY <1>13 DEF AttachSwap, CanRespawn
<1>14. CASE AttachCalledOff
  BY <1>14 DEF AttachCalledOff
<1>15. CASE AttachStarts
  BY <1>15 DEF AttachStarts, AttachThrows, EnterRespawn
<1>16. CASE AttachReplayed
  BY <1>16 DEF AttachReplayed, AttachInstalls, Install, AttachThrows,
      EnterRespawn, FailAllInflight
<1>17. CASE AttachEnds
  BY <1>17 DEF AttachEnds, CloseProcs
<1>18. CASE RespawnClosed
  BY <1>18 DEF RespawnClosed, CloseProcs
<1>19. CASE RespawnAttempt
  BY <1>19 DEF RespawnAttempt
<1>20. CASE RespawnOver
  BY <1>20 DEF RespawnOver, CloseProcs
<1>21. CASE RespawnProvisioned
  BY <1>21 DEF RespawnProvisioned
<1>22. CASE RespawnStarts
  <2>1. CASE respawn' = "replay" /\ alive' = alive \cup {childGen}
    BY <1>22, <2>1 DEF RespawnStarts
  <2>2. CASE respawn' = "failed" /\ alive' = alive
    BY <1>22, <2>2 DEF RespawnStarts
  <2> QED BY <1>22, <2>1, <2>2 DEF RespawnStarts
<1>23. CASE RespawnReplayed
  BY <1>23 DEF RespawnReplayed
<1>24. CASE RespawnReplayFails \/ RespawnRetries
  BY <1>24 DEF RespawnReplayFails, RespawnRetries, CloseProcs
<1>25. CASE RespawnEnds
  BY <1>25 DEF RespawnEnds, LeaveRespawn
<1>26. CASE UNCHANGED vars
  BY <1>26 DEF vars
<1> QED BY <1>1, <1>2, <1>3, <1>4, <1>5, <1>6, <1>7, <1>8, <1>9, <1>10, <1>11, <1>12, <1>13,
           <1>14, <1>15, <1>16, <1>17, <1>18, <1>19, <1>20, <1>21, <1>22, <1>23, <1>24, <1>25, <1>26
        DEF Next, Attach, Respawn, Reset

\* A request answered for a lost child is still with it only until it is closed.
PendInv ==
  \A r \in Requests :
    sent[r] = childGen /\ req[r] # "inflight" /\ ~closed => respawn \in {"closing", "attempt"}

LEMMA PendStep ==
  ASSUME TypeOK, OwnInv, GenInv, ReqInv, PendInv, [Next]_vars
  PROVE  PendInv'
<1> USE DEF TypeOK, SessionOK, RequestsOK, OwnInv, GenInv, ReqInv, ReqAt, PendInv, session, swapper, client, procs
<1>1. ASSUME NEW r \in Requests, SendPlain(r) PROVE PendInv'
  BY <1>1 DEF SendPlain, Forward, HandOver, Answer
<1>2. ASSUME NEW r \in Requests, SendBrowsing(r) PROVE PendInv'
  BY <1>2 DEF SendBrowsing, Forward, HandOver, Answer
<1>3. ASSUME NEW r \in Requests, SendReset(r) PROVE PendInv'
  BY <1>3 DEF SendReset
<1>4. ASSUME NEW r \in Requests, ChildReplies(r) PROVE PendInv'
  BY <1>4 DEF ChildReplies, Heard, Answer
<1>5. ASSUME NEW r \in Requests, SendFails(r) PROVE PendInv'
  BY <1>5 DEF SendFails, Heard, CanRespawn, FailAllInflight, Answer, Inflight, EnterRespawn
<1>6. ASSUME NEW r \in Requests, ResetGoes(r) \/ ResetDropped(r) PROVE PendInv'
  BY <1>6 DEF ResetGoes, ResetDropped, Answer
<1>7. ASSUME NEW r \in Requests, ResetRecreated(r) PROVE PendInv'
  BY <1>7 DEF ResetRecreated, CanRespawn, EnterRespawn, Inflight, Answer, Reported
<1>8. ASSUME NEW g \in Generations, ChildDies(g) PROVE PendInv'
  BY <1>8 DEF ChildDies
<1>9. ASSUME NEW g \in Generations, ChildGone(g) PROVE PendInv'
  BY <1>9 DEF ChildGone, Heard, CanRespawn, FailAllInflight, Answer, Inflight, EnterRespawn
<1>10. CASE Wedge
  BY <1>10 DEF Wedge, CanRespawn, FailAllInflight, Answer, Inflight, EnterRespawn
<1>11. CASE CloseSession
  BY <1>11 DEF CloseSession
<1>12. CASE AttachProvisioned
  BY <1>12 DEF AttachProvisioned, Answer, Waiters
<1>13. CASE AttachSwap
  BY <1>13 DEF AttachSwap, CanRespawn, FailAllInflight, Answer, Inflight
<1>14. CASE AttachCalledOff
  BY <1>14 DEF AttachCalledOff
<1>15. CASE AttachStarts
  BY <1>15 DEF AttachStarts, AttachThrows, EnterRespawn, FailAllInflight, Answer, Inflight
<1>16. CASE AttachReplayed
  BY <1>16 DEF AttachReplayed, AttachInstalls, Install, AttachThrows,
      EnterRespawn, FailAllInflight, Answer, Inflight
<1>17. CASE AttachEnds
  BY <1>17 DEF AttachEnds, Forward, HandOver, Answer, Waiters
<1>18. CASE RespawnClosed
  BY <1>18 DEF RespawnClosed
<1>19. CASE RespawnAttempt
  BY <1>19 DEF RespawnAttempt
<1>20. CASE RespawnOver
  BY <1>20 DEF RespawnOver, Owners
<1>21. CASE RespawnProvisioned
  BY <1>21 DEF RespawnProvisioned
<1>22. CASE RespawnStarts
  BY <1>22 DEF RespawnStarts
<1>23. CASE RespawnReplayed
  BY <1>23 DEF RespawnReplayed
<1>24. CASE RespawnReplayFails \/ RespawnRetries
  BY <1>24 DEF RespawnReplayFails, RespawnRetries
<1>25. CASE RespawnEnds
  BY <1>25 DEF RespawnEnds, LeaveRespawn, Answer, Owners, Reported
<1>26. CASE UNCHANGED vars
  BY <1>26 DEF vars
<1> QED BY <1>1, <1>2, <1>3, <1>4, <1>5, <1>6, <1>7, <1>8, <1>9, <1>10, <1>11, <1>12, <1>13,
           <1>14, <1>15, <1>16, <1>17, <1>18, <1>19, <1>20, <1>21, <1>22, <1>23, <1>24, <1>25, <1>26
        DEF Next, Attach, Respawn, Reset

-----------------------------------------------------------------------------

IInv == TypeOK /\ ResetsWait /\ OwnInv /\ GenInv /\ ReqInv /\ PendInv /\ AliveInv

LEMMA Initially == Init => IInv
<1> SUFFICES ASSUME Init PROVE IInv
  OBVIOUS
<1> USE DEF Init
<1>1. SessionOK /\ ProcsOK
  <2>1. 0 \in 0..MaxAttempts
    BY BridgeAssumption
  <2>2. FlagsOK
    BY DEF FlagsOK
  <2>3. CountsOK
    BY <2>1 DEF CountsOK, AttachSteps, RespawnSteps
  <2> QED BY <2>2, <2>3, SessionParts DEF ProcsOK
<1>2. RequestsOK /\ ResetsWait
  BY DEF RequestsOK, RequestSteps, ResetsWait
<1>3. OwnInv /\ GenInv /\ AliveInv
  BY DEF OwnInv, GenInv, AliveInv, Spawned
<1>4. ReqInv /\ PendInv
  BY DEF ReqInv, ReqAt, PendInv
<1> QED BY <1>1, <1>2, <1>3, <1>4 DEF IInv, TypeOK

LEMMA Inductive == Spec => []IInv
<1>1. IInv /\ [Next]_vars => IInv'
  <2> SUFFICES ASSUME IInv, [Next]_vars PROVE IInv'
    OBVIOUS
  <2>1. SessionOK'
    BY FlagsStep, CountsStep, SessionParts, PTL DEF IInv
  <2>2. RequestsOK' /\ ProcsOK'
    BY RequestsStep, ProcsStep DEF IInv
  <2>3. ResetsWait' /\ OwnInv' /\ GenInv'
    BY ResetsStep, OwnStep, GenStep DEF IInv
  <2>4. ReqInv' /\ PendInv' /\ AliveInv'
    BY ReqStep, PendStep, AliveStep DEF IInv
  <2> QED BY <2>1, <2>2, <2>3, <2>4 DEF IInv, TypeOK
<1> QED BY <1>1, Initially, PTL DEF Spec

(* Every step of attachBrowser, respawnChild, handleReset and of a request *)
(* (bridge.ts) is one the awaits cut, for every number of attempts.        *)
THEOREM BridgeTypes == Spec => []TypeOK
<1>1. IInv => TypeOK
  BY DEF IInv
<1> QED BY <1>1, Inductive, PTL

(* While attachBrowser holds a child that is not installed yet no          *)
(* respawnChild runs (bridge.ts), whatever died, was wedged or was reset.  *)
THEOREM OneSwapAtATime == Spec => []SwapAlone
<1>1. IInv => SwapAlone
  BY DEF IInv, OwnInv, SwapAlone
<1> QED BY <1>1, Inductive, PTL

(* Between replacements the installed child is the generation the pump     *)
(* hears, and every request in flight is with it (bridge.ts forwardToChild,*)
(* the pump's generation check).                                           *)
THEOREM CurrentChildServes == Spec => []CurrentServes
<1>1. IInv => CurrentServes
  BY DEF IInv, GenInv, ReqInv, ReqAt, CurrentServes, Inflight
<1> QED BY <1>1, Inductive, PTL

(* A closed session leaves one process at most, the child installed last   *)
(* (bridge.ts: attachBrowser's finally, respawnChild's closes).            *)
THEOREM NoStrays == Spec => []NoStrayChild
<1>1. IInv => NoStrayChild
  BY DEF IInv, AliveInv, Spawned, NoStrayChild
<1> QED BY <1>1, Inductive, PTL

\* What was answered is answered again by a child only.
LEMMA AnsweredOnce ==
  ASSUME TypeOK, ReqInv, NEW q \in Requests, req[q] = "answered", ~ChildReplies(q), [Next]_vars
  PROVE  replies'[q] = replies[q]
<1> USE DEF TypeOK, RequestsOK, client
<1>1. ASSUME NEW r \in Requests, SendPlain(r) PROVE replies'[q] = replies[q]
  BY <1>1 DEF SendPlain, Forward, HandOver, Answer
<1>2. ASSUME NEW r \in Requests, SendBrowsing(r) PROVE replies'[q] = replies[q]
  BY <1>2 DEF SendBrowsing, Forward, HandOver, Answer
<1>3. ASSUME NEW r \in Requests, SendReset(r) PROVE replies'[q] = replies[q]
  BY <1>3 DEF SendReset
<1>4. ASSUME NEW r \in Requests, ChildReplies(r) PROVE replies'[q] = replies[q]
  BY <1>4 DEF ChildReplies, Answer
<1>5. ASSUME NEW r \in Requests, SendFails(r) PROVE replies'[q] = replies[q]
  BY <1>5 DEF SendFails, FailAllInflight, Answer, Inflight
<1>6. ASSUME NEW r \in Requests, ResetGoes(r) \/ ResetDropped(r) PROVE replies'[q] = replies[q]
  BY <1>6 DEF ResetGoes, ResetDropped, Answer
<1>7. ASSUME NEW r \in Requests, ResetRecreated(r) PROVE replies'[q] = replies[q]
  BY <1>7 DEF ResetRecreated, Inflight, Answer
<1>8. ASSUME NEW g \in Generations, ChildDies(g) PROVE replies'[q] = replies[q]
  BY <1>8 DEF ChildDies
<1>9. ASSUME NEW g \in Generations, ChildGone(g) PROVE replies'[q] = replies[q]
  BY <1>9 DEF ChildGone, FailAllInflight, Answer, Inflight
<1>10. CASE Wedge
  BY <1>10 DEF Wedge, FailAllInflight, Answer, Inflight
<1>11. CASE CloseSession
  BY <1>11 DEF CloseSession
<1>12. CASE AttachProvisioned
  BY <1>12 DEF AttachProvisioned, Answer, Waiters
<1>13. CASE AttachSwap
  BY <1>13 DEF AttachSwap, FailAllInflight, Answer, Inflight
<1>14. CASE AttachCalledOff
  BY <1>14 DEF AttachCalledOff
<1>15. CASE AttachStarts
  BY <1>15 DEF AttachStarts, AttachThrows, FailAllInflight, Answer, Inflight
<1>16. CASE AttachReplayed
  BY <1>16 DEF AttachReplayed, AttachThrows, EnterRespawn, FailAllInflight, Answer, Inflight
<1>17. CASE AttachEnds
  BY <1>17 DEF AttachEnds, Forward, HandOver, Answer, Waiters
<1>18. CASE RespawnClosed
  BY <1>18 DEF RespawnClosed
<1>19. CASE RespawnAttempt
  BY <1>19 DEF RespawnAttempt
<1>20. CASE RespawnOver
  BY <1>20 DEF RespawnOver, Owners
<1>21. CASE RespawnProvisioned
  BY <1>21 DEF RespawnProvisioned
<1>22. CASE RespawnStarts
  BY <1>22 DEF RespawnStarts
<1>23. CASE RespawnReplayed
  BY <1>23 DEF RespawnReplayed
<1>24. CASE RespawnReplayFails \/ RespawnRetries
  BY <1>24 DEF RespawnReplayFails, RespawnRetries
<1>25. CASE RespawnEnds
  BY <1>25 DEF RespawnEnds, LeaveRespawn, Answer, Owners
<1>26. CASE UNCHANGED vars
  BY <1>26 DEF vars
<1> QED BY <1>1, <1>2, <1>3, <1>4, <1>5, <1>6, <1>7, <1>8, <1>9, <1>10, <1>11, <1>12, <1>13,
           <1>14, <1>15, <1>16, <1>17, <1>18, <1>19, <1>20, <1>21, <1>22, <1>23, <1>24, <1>25, <1>26
        DEF Next, Attach, Respawn, Reset

(* No request gets two replies, but the one that was answered with an      *)
(* error for a lost child which the gateway still listens to until it has  *)
(* closed it (bridge.ts respawnChild), and that one gets no third.         *)
THEOREM NoSecondReply == Spec => SecondReplyOnlyWhileClosing
<1>1. ASSUME IInv, [Next]_vars, NEW r \in Requests, replies[r] > 0, replies'[r] > replies[r]
      PROVE  respawn = "closing" /\ replies'[r] = 2
  <2>1. req[r] = "answered"
    BY <1>1 DEF IInv, ReqInv, ReqAt
  <2>2. ChildReplies(r)
    BY <1>1, <2>1, AnsweredOnce DEF IInv, TypeOK, RequestsOK
  <2>3. sent[r] = childGen /\ sent[r] \in alive /\ ~closed /\ replies'[r] = replies[r] + 1
    BY <1>1, <2>2 DEF ChildReplies, Heard, Answer, IInv, TypeOK, RequestsOK
  <2>4. sent[r] = child /\ sent[r] # 0
    BY <1>1, <2>3 DEF IInv, GenInv, ReqInv, ReqAt, TypeOK, SessionOK
  <2>5. replies[r] = 1
    BY <1>1, <2>4 DEF IInv, ReqInv, ReqAt, TypeOK, RequestsOK
  <2>6. respawn = "closing"
    BY <1>1, <2>1, <2>3, <2>4 DEF IInv, PendInv, AliveInv
  <2> QED BY <2>3, <2>5, <2>6
<1>2. IInv /\ [Next]_vars =>
        [\A r \in Requests : replies[r] > 0 /\ replies'[r] > replies[r] =>
            respawn = "closing" /\ replies'[r] = 2]_vars
  BY <1>1
<1> QED BY <1>2, Inductive, PTL DEF Spec, SecondReplyOnlyWhileClosing

-----------------------------------------------------------------------------
(* chikin_reset.                                                           *)

\* The respawn a reset waits for is given the browser that was made for it:
\* its address is asked for after the removal, and nothing removes it again.
OwnerAt(r) ==
  /\ req[r] \in {"recreate", "respawn"} => currentIp
  /\ req[r] = "respawn" =>
       /\ respawn # "none" /\ r \in removed
       /\ respawn # "closing" => wantBrowser
       /\ respawn = "start" => "respawn" \in fresh
       /\ respawn = "replay" => childGen \in bound
       /\ respawn = "probe" => child \in bound
OwnerInv == \A r \in Resets : OwnerAt(r)

\* A reset has got past its wait, and no other has until it is answered.
Resetting(r) == req[r] \in {"recreate", "respawn"}
ResetsTakeTurns == \A r, q \in Resets : Resetting(r) /\ Resetting(q) => r = q

LEMMA OwnerStep ==
  ASSUME TypeOK, ResetsWait, OwnInv, OwnerInv, "remove" \notin Faults, ResetsTakeTurns, [Next]_vars
  PROVE  OwnerInv'
<1>0. Resets \subseteq Requests /\ Plain \cap Resets = {} /\ Browsing \cap Resets = {}
  BY BridgeAssumption DEF Requests
<1> USE DEF TypeOK, SessionOK, RequestsOK, ProcsOK, OwnInv, OwnerInv, OwnerAt, session, swapper, client, procs
<1>1. ASSUME NEW r \in Requests, SendPlain(r) PROVE OwnerInv'
  BY <1>0, <1>1 DEF SendPlain, Forward, HandOver, Answer
<1>2. ASSUME NEW r \in Requests, SendBrowsing(r) PROVE OwnerInv'
  BY <1>0, <1>2 DEF SendBrowsing, Forward, HandOver, Answer
<1>3. ASSUME NEW r \in Requests, SendReset(r) PROVE OwnerInv'
  BY <1>0, <1>3 DEF SendReset
<1>4. ASSUME NEW r \in Requests, ChildReplies(r) PROVE OwnerInv'
  BY <1>0, <1>4 DEF ChildReplies, Answer
<1>5. ASSUME NEW r \in Requests, SendFails(r) PROVE OwnerInv'
  BY <1>0, <1>5 DEF SendFails, CanRespawn, FailAllInflight, Answer, Inflight, EnterRespawn
<1>6. ASSUME NEW r \in Requests, ResetGoes(r) \/ ResetDropped(r) PROVE OwnerInv'
  BY <1>0, <1>6 DEF ResetGoes, ResetDropped, Answer
<1>7. ASSUME NEW r \in Requests, ResetRecreated(r) PROVE OwnerInv'
  <2>1. r \in Resets
    BY <1>0, <1>7 DEF ResetRecreated, ResetsWait
  <2>2. currentIp' /\ r \in removed'
    BY <2>1, <1>7 DEF ResetRecreated, Fault
  <2>3. ASSUME NEW q \in Resets, q # r PROVE req'[q] \notin {"recreate", "respawn"}
    <3>1. req[q] \notin {"recreate", "respawn"}
      BY <1>7, <2>1, <2>3 DEF ResetRecreated, ResetsTakeTurns, Resetting
    <3> QED BY <1>0, <1>7, <2>3, <3>1 DEF ResetRecreated, Answer
  <2>4. CASE CanRespawn
    <3>1. respawn' = "closing"
      BY <1>7, <2>4 DEF ResetRecreated, EnterRespawn
    <3> QED BY <2>1, <2>2, <2>3, <3>1
  <2>5. CASE ~CanRespawn
    <3>1. req'[r] = "answered"
      BY <1>7, <2>5 DEF ResetRecreated, Answer
    <3> QED BY <2>1, <2>3, <3>1
  <2> QED BY <2>4, <2>5
<1>8. ASSUME NEW g \in Generations, ChildDies(g) PROVE OwnerInv'
  BY <1>0, <1>8 DEF ChildDies
<1>9. ASSUME NEW g \in Generations, ChildGone(g) PROVE OwnerInv'
  BY <1>0, <1>9 DEF ChildGone, CanRespawn, FailAllInflight, Answer, Inflight, EnterRespawn
<1>10. CASE Wedge
  BY <1>0, <1>10 DEF Wedge, CanRespawn, FailAllInflight, Answer, Inflight, EnterRespawn
<1>11. CASE CloseSession
  BY <1>0, <1>11 DEF CloseSession
<1>12. CASE AttachProvisioned
  BY <1>0, <1>12 DEF AttachProvisioned, Answer, Waiters
<1>13. CASE AttachSwap
  BY <1>0, <1>13 DEF AttachSwap, CanRespawn, FailAllInflight, Answer, Inflight
<1>14. CASE AttachCalledOff
  BY <1>0, <1>14 DEF AttachCalledOff
<1>15. CASE AttachStarts
  <2>1. respawn = "none" /\ currentIp' = currentIp
    BY <1>15 DEF AttachStarts
  <2>2. \A q \in Resets : req'[q] \in {req[q], "answered"}
    BY <1>0, <1>15 DEF AttachStarts, AttachThrows, FailAllInflight, Answer
  <2> QED BY <2>1, <2>2
<1>16. CASE AttachReplayed
  BY <1>0, <1>16 DEF AttachReplayed, AttachInstalls, Install, AttachThrows,
      EnterRespawn, FailAllInflight, Answer, Inflight
<1>17. CASE AttachEnds
  BY <1>0, <1>17 DEF AttachEnds, Forward, HandOver, Answer, Waiters
<1>18. CASE RespawnClosed
  BY <1>0, <1>18 DEF RespawnClosed
<1>19. CASE RespawnAttempt
  BY <1>0, <1>19 DEF RespawnAttempt
<1>20. CASE RespawnOver
  BY <1>0, <1>20 DEF RespawnOver, Owners
<1>21. CASE RespawnProvisioned
  BY <1>0, <1>21 DEF RespawnProvisioned
<1>22. CASE RespawnStarts
  BY <1>0, <1>22 DEF RespawnStarts
<1>23. CASE RespawnReplayed
  BY <1>0, <1>23 DEF RespawnReplayed
<1>24. CASE RespawnReplayFails \/ RespawnRetries
  BY <1>0, <1>24 DEF RespawnReplayFails, RespawnRetries
<1>25. CASE RespawnEnds
  BY <1>0, <1>25 DEF RespawnEnds, LeaveRespawn, Answer, Owners, Reported
<1>26. CASE UNCHANGED vars
  BY <1>0, <1>26 DEF vars
<1> QED BY <1>1, <1>2, <1>3, <1>4, <1>5, <1>6, <1>7, <1>8, <1>9, <1>10, <1>11, <1>12, <1>13,
           <1>14, <1>15, <1>16, <1>17, <1>18, <1>19, <1>20, <1>21, <1>22, <1>23, <1>24, <1>25, <1>26
        DEF Next, Attach, Respawn, Reset

(* A reset that reports success did recreate the container, and the child  *)
(* it leaves is connected to it (bridge.ts handleReset): for every number  *)
(* of resets that take turns, of other requests, failures and attempts,    *)
(* while removals succeed (README, section 6, has the rest).               *)
THEOREM ResetsHonest ==
  ASSUME "remove" \notin Faults
  PROVE  Spec /\ []ResetsTakeTurns => ResetHonest
<1>1. Init => OwnerInv
  BY BridgeAssumption DEF Init, OwnerInv, OwnerAt, Requests
<1>2. TypeOK /\ ResetsWait /\ OwnInv /\ OwnerInv /\ ResetsTakeTurns /\ [Next]_vars => OwnerInv'
  BY OwnerStep
<1>3. IInv => TypeOK /\ ResetsWait /\ OwnInv
  BY DEF IInv
<1>4. Spec /\ []ResetsTakeTurns => []OwnerInv
  BY <1>1, <1>2, <1>3, Inductive, PTL DEF Spec
<1>5. ASSUME IInv, OwnerInv, [Next]_vars, NEW r \in resetOk' \ resetOk
      PROVE  r \in removed' /\ child' \in bound'
  <2>1. RespawnEnds
    <3> USE DEF session, swapper, client, procs
    <3>1. ASSUME NEW q \in Requests, SendPlain(q) \/ SendBrowsing(q) \/ SendReset(q)
          PROVE  FALSE
      BY <1>5, <3>1 DEF SendPlain, SendBrowsing, SendReset
    <3>2. ASSUME NEW q \in Requests, ChildReplies(q) \/ SendFails(q) PROVE FALSE
      BY <1>5, <3>2 DEF ChildReplies, SendFails
    <3>3. ASSUME NEW q \in Requests, Reset(q) PROVE FALSE
      BY <1>5, <3>3 DEF Reset, ResetGoes, ResetDropped, ResetRecreated, CanRespawn, Reported
    <3>4. ASSUME NEW g \in Generations, ChildDies(g) \/ ChildGone(g) PROVE FALSE
      BY <1>5, <3>4 DEF ChildDies, ChildGone
    <3>5. CASE Wedge \/ CloseSession \/ UNCHANGED vars
      BY <1>5, <3>5 DEF Wedge, CloseSession, vars
    <3>6. CASE Attach
      BY <1>5, <3>6
      DEF Attach, AttachProvisioned, AttachSwap, AttachCalledOff, AttachStarts, AttachReplayed,
          AttachEnds
    <3>7. CASE Respawn
      BY <1>5, <3>7
      DEF Respawn, RespawnClosed, RespawnAttempt, RespawnOver, RespawnProvisioned, RespawnStarts,
          RespawnReplayed, RespawnReplayFails, RespawnRetries
    <3> QED BY <1>5, <3>1, <3>2, <3>3, <3>4, <3>5, <3>6, <3>7 DEF Next
  <2>2. r \in Resets /\ req[r] = "respawn" /\ respawn = "probe"
        /\ UNCHANGED <<child, bound, removed>>
    BY <1>5, <2>1 DEF RespawnEnds, LeaveRespawn, Reported, Owners, procs
  <2> QED BY <1>5, <2>2 DEF OwnerInv, OwnerAt
<1>6. IInv /\ OwnerInv /\ [Next]_vars =>
        [\A r \in resetOk' \ resetOk : r \in removed' /\ child' \in bound']_vars
  BY <1>5
<1> QED BY <1>4, <1>6, Inductive, PTL DEF Spec, ResetHonest
=============================================================================
