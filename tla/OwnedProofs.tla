----------------------------- MODULE OwnedProofs -----------------------------
(***************************************************************************)
(* What holds of handles and of the owned tools for every set of sessions, *)
(* handles, tabs and calls.                                                *)
(***************************************************************************)
EXTENDS Owned, TLAPS

-----------------------------------------------------------------------------
(* Handles.                                                                *)

\* A step of Owned claims a handle, closes a session or leaves both alone.
LEMMA HandleSteps ==
  ASSUME [Next]_vars
  PROVE  \/ \E s \in Sessions, h \in Handles : ClaimHandle(s, h)
         \/ \E s \in Sessions : CloseSession(s)
         \/ UNCHANGED idVars
<1>1. CASE \E c \in Calls, k \in Kinds : Arrive(c, k)
  BY <1>1 DEF Arrive
<1>2. ASSUME NEW c \in Calls, Cancel(c) \/ Handlers(c) PROVE UNCHANGED idVars
  BY <1>2 DEF Cancel, Handlers, Start, ReadDone, ReadFails, Input, ActEnds, ActThrows, Loop
<1>3. CASE Move \/ SwapBegins \/ SwapTurns \/ StartChild \/ Replaced
  BY <1>3 DEF Move, SwapBegins, SwapTurns, StartChild, Replaced
<1>4. ASSUME NEW s \in Sessions, NEW h \in Handles, Identify(s, h) PROVE ClaimHandle(s, h)
  BY <1>4 DEF Identify
<1>5. ASSUME NEW s \in Sessions, Close(s) PROVE CloseSession(s)
  BY <1>5 DEF Close
<1>6. CASE UNCHANGED vars
  BY <1>6 DEF vars
<1> QED BY <1>1, <1>2, <1>3, <1>4, <1>5, <1>6 DEF Next

LEMMA HandleTypes ==
  ASSUME IdTypeOK, [Next]_vars
  PROVE  IdTypeOK'
<1> USE DEF IdTypeOK
<1>1. ASSUME NEW s \in Sessions, NEW h \in Handles, ClaimHandle(s, h) PROVE IdTypeOK'
  BY <1>1 DEF ClaimHandle, Released
<1>2. ASSUME NEW s \in Sessions, CloseSession(s) PROVE IdTypeOK'
  BY <1>2 DEF CloseSession, Freed
<1>3. CASE UNCHANGED idVars
  BY <1>3 DEF idVars
<1> QED BY <1>1, <1>2, <1>3, HandleSteps

\* A claim displaces nobody who lives, and a close frees what its session held.
LEMMA HandlesStep ==
  ASSUME IdTypeOK, HandlesAgree, [Next]_vars
  PROVE  HandlesAgree'
<1> USE NoneIsNoHandle DEF IdTypeOK, HandlesAgree
<1>1. ASSUME NEW s \in Sessions, NEW h \in Handles, ClaimHandle(s, h) PROVE HandlesAgree'
  <2> SUFFICES ASSUME NEW t \in Sessions, ~closed'[t], NEW g \in Handles
               PROVE  byHandle'[g] = t <=> handle'[t] = g
    OBVIOUS
  <2>1. CASE t = s  BY <1>1, <2>1 DEF ClaimHandle, Released
  <2>2. CASE t # s  BY <1>1, <2>2 DEF ClaimHandle, Released, Free
  <2> QED BY <2>1, <2>2
<1>2. ASSUME NEW s \in Sessions, CloseSession(s) PROVE HandlesAgree'
  BY <1>2 DEF CloseSession, Freed
<1>3. CASE UNCHANGED idVars
  BY <1>3 DEF idVars
<1> QED BY <1>1, <1>2, <1>3, HandleSteps

(* A live session's handle leads back to it and no other handle does, for  *)
(* every number of sessions: claims, changes of handle, closes and claims  *)
(* that arrive after the close never make the registry's map and the       *)
(* session's field disagree (registry.ts claimHandle, remove).             *)
THEOREM HandlesKept == Spec => []HandlesAgree
<1>1. Init => IdTypeOK /\ HandlesAgree
  BY NoneIsNoHandle DEF Init, IdInit, IdTypeOK, HandlesAgree
<1>2. IdTypeOK /\ HandlesAgree /\ [Next]_vars => (IdTypeOK /\ HandlesAgree)'
  BY HandleTypes, HandlesStep
<1> QED BY <1>1, <1>2, PTL DEF Spec

-----------------------------------------------------------------------------
(* Types of the owned tools.                                               *)

Kind == {"none", "snapshot", "act", "achieve"}
Stage == {"new", "queued", "reading", "deciding", "acting", "sent", "answered"}
CallRec == [kind : Kind, stage : Stage, gen : 0 .. MaxSwaps + 1, ip : 0 .. MaxLosses + 1,
            page : Tabs \cup {None}, table : Tables, turns : 0 .. MaxSteps,
            stopped : BOOLEAN]

CallOK == call \in [Calls -> CallRec]
ReadRec == [table : Tables, moves : 0 .. MaxMoves]
ReadOK == lastRead \in ReadRec /\ told \in Tables
WorldOK ==
  /\ chain \in Seq(Calls)
  /\ moves \in 0 .. MaxMoves /\ childGen \in 1 .. MaxSwaps + 1
  /\ swap \in {"none", "closing", "provisioning"}
  /\ ip \in 1 .. MaxLosses + 1 /\ era \in 1 .. MaxLosses + 1
  /\ inputs \in [Tabs -> Nat]

LEMMA TypeParts == TypeOK <=> IdTypeOK /\ CallOK /\ ReadOK /\ WorldOK
BY DEF TypeOK, CallOK, ReadOK, WorldOK, ReadRec, CallRec, Kind, Stage

LEMMA NoTableIsTable == NoTable \in Tables
BY DEF Tables

\* A table that is not NoTable is of a page of the browser.
LEMMA TablesAre ==
  ASSUME NEW table \in Tables, table # NoTable
  PROVE  table.tab \in Tabs /\ table.era \in 1 .. MaxLosses + 1 /\ table.at \in Nat
BY DEF Tables

LEMMA FreshIsCall == Fresh \in CallRec /\ Settled \in CallRec
<1>1. NoTable \in Tables  BY NoTableIsTable
<1>2. Fresh \in CallRec
  BY <1>1, OwnedBounds DEF Fresh, CallRec, Kind, Stage
<1>3. Settled \in CallRec
  BY <1>1, <1>2 DEF Settled, CallRec, Stage
<1> QED BY <1>2, <1>3

\* A page that is read as it is now gives a table.
LEMMA ReadIsTable ==
  ASSUME WorldOK, NEW t \in Tabs
  PROVE  Read(t) \in Tables /\ Read(t) # NoTable
BY OwnedBounds DEF WorldOK, Read, Tables, NoTable

LEMMA StampTypes ==
  ASSUME ReadOK, WorldOK, NEW table \in Tables, NEW g
  PROVE  Remember(g, table) \in ReadRec /\ Forget \in ReadRec
BY NoTableIsTable, OwnedBounds DEF ReadOK, ReadRec, WorldOK, Remember, Forget

LEMMA AnswerTypes ==
  ASSUME CallOK, WorldOK, NEW c \in Calls, Runs(c), Answer(c)
  PROVE  CallOK' /\ chain' \in Seq(Calls)
<1>1. CallOK'
  BY FreshIsCall DEF CallOK, Answer
<1>2. chain' \in Seq(Calls)
  BY DEF WorldOK, Runs, Answer
<1> QED BY <1>1, <1>2

LEMMA KeepTypes ==
  ASSUME CallOK, WorldOK, NEW c \in Calls, NEW now \in CallRec, Keep(c, now)
  PROVE  CallOK' /\ chain' \in Seq(Calls)
<1>1. chain' = chain /\ call' = [call EXCEPT ![c] = now]
  BY Zenon DEF Keep
<1> QED BY <1>1 DEF CallOK, WorldOK

\* Where a handler stands it has a call and a table of this kind.
LEMMA StartTypes ==
  ASSUME CallOK, ReadOK, WorldOK, NEW c \in Calls, Start(c)
  PROVE  CallOK' /\ ReadOK' /\ WorldOK'
<1> DEFINE k == call[c]
<1>0. k \in CallRec /\ Runs(c)
  BY DEF CallOK, Start
<1>r. childGen \in 0 .. MaxSwaps + 1 /\ ip \in 0 .. MaxLosses + 1
  BY OwnedBounds DEF WorldOK
<1>w. /\ UNCHANGED <<lastRead, told>> /\ UNCHANGED <<moves, childGen, swap, ip, era, inputs>>
  BY DEF Start, BeginRead, BeginAct, Decline, childVars, browserVars
<1>1. CASE BeginRead(c)
  <2>1. PICK p \in {Ours, None} :
          Keep(c, [k EXCEPT !.stage = "reading", !.gen = childGen, !.ip = ip, !.page = p])
    BY <1>1 DEF BeginRead
  <2>2. p \in Tabs \cup {None}
    BY TablesAre DEF Ours, ReadOK, ReadRec
  <2>3. [k EXCEPT !.stage = "reading", !.gen = childGen, !.ip = ip, !.page = p] \in CallRec
    BY <1>0, <1>r, <2>2 DEF CallRec, Stage
  <2> QED BY <2>1, <2>3, <1>w, KeepTypes DEF ReadOK, WorldOK
<1>2. CASE BeginAct(c)
  <2>1. lastRead.table # NoTable
        /\ Keep(c, [k EXCEPT !.stage = "acting", !.gen = childGen, !.ip = ip,
                             !.page = lastRead.table.tab, !.table = lastRead.table])
    BY <1>2 DEF BeginAct
  <2>2. lastRead.table \in Tables /\ lastRead.table.tab \in Tabs
    BY <2>1, TablesAre DEF ReadOK, ReadRec
  <2>3. [k EXCEPT !.stage = "acting", !.gen = childGen, !.ip = ip,
                  !.page = lastRead.table.tab, !.table = lastRead.table] \in CallRec
    BY <1>0, <1>r, <2>2 DEF CallRec, Stage
  <2> QED BY <2>1, <2>3, <1>w, KeepTypes DEF ReadOK, WorldOK
<1>3. CASE Decline(c)
  BY <1>0, <1>3, <1>w, AnswerTypes DEF Decline, ReadOK, WorldOK
<1> QED BY <1>1, <1>2, <1>3 DEF Start

\* A read that has ended is remembered, told and kept, or nothing is.
LEMMA ReadTypes ==
  ASSUME CallOK, ReadOK, WorldOK, NEW c \in Calls, ReadDone(c) \/ ReadFails(c)
  PROVE  CallOK' /\ ReadOK' /\ WorldOK'
<1> DEFINE k == call[c]
<1>0. k \in CallRec /\ Runs(c) /\ UNCHANGED <<moves, childGen, swap, ip, era, inputs>>
  BY DEF CallOK, ReadDone, ReadFails, childVars, browserVars
<1>1. CASE ReadFails(c)
  BY <1>0, <1>1, AnswerTypes DEF ReadFails, Caught, ReadOK, WorldOK
<1>2. CASE ReadDone(c)
  <2>1. PICK t \in IF k.page # None THEN {k.page} ELSE Tabs :
          \/ /\ lastRead' = Remember(k.gen, Read(t))
             /\ Tell(Read(t))
             /\ Answer(c)
          \/ /\ \/ Answer(c)
                \/ Keep(c, [k EXCEPT !.stage = "deciding", !.page = t, !.table = Read(t)])
             /\ UNCHANGED <<lastRead, told>>
    BY <1>2 DEF ReadDone
  <2>2. t \in Tabs
    BY <1>0, <2>1 DEF CallRec
  <2>3. Read(t) \in Tables
    BY <2>2, ReadIsTable
  <2>4. CASE /\ lastRead' = Remember(k.gen, Read(t))
             /\ Tell(Read(t))
             /\ Answer(c)
    <3>1. ReadOK'
      BY <2>3, <2>4, StampTypes DEF ReadOK, Tell
    <3> QED BY <1>0, <2>4, <3>1, AnswerTypes DEF WorldOK
  <2>5. CASE Answer(c) /\ UNCHANGED <<lastRead, told>>
    BY <1>0, <2>5, AnswerTypes DEF ReadOK, WorldOK
  <2>6. CASE Keep(c, [k EXCEPT !.stage = "deciding", !.page = t, !.table = Read(t)])
             /\ UNCHANGED <<lastRead, told>>
    <3>1. [k EXCEPT !.stage = "deciding", !.page = t, !.table = Read(t)] \in CallRec
      BY <1>0, <2>2, <2>3 DEF CallRec, Stage
    <3> QED BY <1>0, <2>6, <3>1, KeepTypes DEF ReadOK, WorldOK
  <2> QED BY <2>1, <2>4, <2>5, <2>6
<1> QED BY <1>1, <1>2

Running(c) == call[c].stage \in {"reading", "deciding", "acting", "sent"}

\* Only the first of the queue is past its start; a handler that chose a page
\* has one of the browser's, and none but a loop's or an act's gives inputs.
StandsAt(c) ==
  /\ Running(c) => Runs(c)
  /\ call[c].stage \in {"deciding", "acting", "sent"} => call[c].page \in Tabs
  /\ call[c].stage = "deciding" => call[c].kind = "achieve"
  /\ call[c].stage \in {"acting", "sent"} => call[c].kind \in {"act", "achieve"}
StandInv == \A c \in Calls : StandsAt(c)

\* A swap that has begun has a generation left to turn to.
SwapInv == swap = "closing" => childGen <= MaxSwaps

LEMMA ActTypes ==
  ASSUME CallOK, ReadOK, WorldOK, StandInv, NEW c \in Calls,
         Input(c) \/ ActEnds(c) \/ ActThrows(c) \/ Loop(c)
  PROVE  CallOK' /\ ReadOK' /\ WorldOK'
<1> DEFINE k == call[c]
<1>0. k \in CallRec /\ Runs(c) /\ k.page \in Tabs
  BY DEF CallOK, StandInv, StandsAt, Input, ActEnds, ActThrows, Loop
<1>r. Read(k.page) \in Tables /\ Observed(c) \subseteq Tables
  BY <1>0, ReadIsTable, NoTableIsTable DEF Observed
<1>1. CASE Input(c)
  <2>1. Keep(c, [k EXCEPT !.stage = "sent"]) /\ [k EXCEPT !.stage = "sent"] \in CallRec
    BY <1>0, <1>1 DEF Input, CallRec, Stage
  <2>2. inputs' \in [Tabs -> Nat]
    BY <1>0, <1>1 DEF Input, WorldOK
  <2> QED BY <1>1, <2>1, <2>2, KeepTypes DEF Input, childVars, ReadOK, WorldOK
<1>2. CASE ActEnds(c)
  <2>0. UNCHANGED <<moves, childGen, swap, ip, era, inputs>>
    BY <1>2 DEF ActEnds, childVars, browserVars
  <2>1. PICK table \in Observed(c) :
          IF k.kind = "act" THEN ActReplies(c, table)
          ELSE /\ Keep(c, [k EXCEPT !.stage = "deciding", !.table = table])
               /\ UNCHANGED <<lastRead, told>>
    BY <1>2 DEF ActEnds
  <2>2. table \in Tables
    BY <1>r
  <2>3. CASE k.kind = "act"
    <3>1. Answer(c)
      BY <2>1, <2>3 DEF ActReplies
    <3>2. ReadOK'
      BY <2>1, <2>2, <2>3, StampTypes DEF ActReplies, ReadOK, Tell
    <3> QED BY <1>0, <2>0, <3>1, <3>2, AnswerTypes DEF WorldOK
  <2>4. CASE k.kind # "act"
    <3>1. [k EXCEPT !.stage = "deciding", !.table = table] \in CallRec
      BY <1>0, <2>2 DEF CallRec, Stage
    <3> QED BY <2>0, <2>1, <2>4, <3>1, KeepTypes DEF ReadOK, WorldOK
  <2> QED BY <2>3, <2>4
<1>3. CASE ActThrows(c)
  BY <1>0, <1>3, AnswerTypes DEF ActThrows, Caught, childVars, browserVars, ReadOK, WorldOK
<1>4. CASE Loop(c)
  <2>0. UNCHANGED <<moves, childGen, swap, ip, era, inputs>>
    BY <1>4 DEF Loop, childVars, browserVars
  <2>1. CASE LoopReads(c)
    <3>1. [k EXCEPT !.table = Read(k.page)] \in CallRec
      BY <1>0, <1>r DEF CallRec
    <3> QED BY <2>0, <2>1, <3>1, KeepTypes DEF LoopReads, ReadOK, WorldOK
  <2>2. CASE LoopActs(c)
    <3>1. k.turns + 1 \in 0 .. MaxSteps
      BY <1>0, <2>2, OwnedBounds DEF LoopActs, StepsLeft, CallRec
    <3>2. [k EXCEPT !.stage = "acting", !.turns = @ + 1] \in CallRec
      BY <1>0, <3>1 DEF CallRec, Stage
    <3> QED BY <2>0, <2>2, <3>2, KeepTypes DEF LoopActs, ReadOK, WorldOK
  <2>3. CASE LoopEnds(c)
    <3>1. PICK table \in {k.table, NoTable} : AchieveReplies(c, table)
      BY <2>3 DEF LoopEnds
    <3>2. Answer(c) /\ table \in Tables
      BY <1>0, <3>1, NoTableIsTable DEF AchieveReplies, CallRec
    <3>3. ReadOK'
      BY <3>1, <3>2, StampTypes DEF AchieveReplies, ReadOK, Tell
    <3> QED BY <1>0, <2>0, <3>2, <3>3, AnswerTypes DEF WorldOK
  <2> QED BY <1>4, <2>1, <2>2, <2>3 DEF Loop
<1> QED BY <1>1, <1>2, <1>3, <1>4

LEMMA TypesStep ==
  ASSUME TypeOK, StandInv, SwapInv, [Next]_vars
  PROVE  TypeOK'
<1>0. IdTypeOK /\ CallOK /\ ReadOK /\ WorldOK
  BY TypeParts
<1> SUFFICES CallOK' /\ ReadOK' /\ WorldOK'
  BY <1>0, HandleTypes, TypeParts, PTL
<1>1. ASSUME NEW c \in Calls, NEW k \in Kinds, Arrive(c, k)
      PROVE  CallOK' /\ ReadOK' /\ WorldOK'
  <2>0. call[c] \in CallRec /\ k \in Kind
    BY <1>0, OwnedBounds DEF CallOK, Kind
  <2>1. UNCHANGED <<lastRead, told, moves, childGen, swap, ip, era, inputs>>
    BY <1>1 DEF Arrive, childVars, browserVars
  <2>2. CASE Identified(Me)
    <3>1. chain' = Append(chain, c)
          /\ call' = [call EXCEPT ![c] = [call[c] EXCEPT !.kind = k, !.stage = "queued"]]
      BY <1>1, <2>2, <1>0 DEF Arrive, CallOK
    <3>2. [call[c] EXCEPT !.kind = k, !.stage = "queued"] \in CallRec
      BY <2>0 DEF CallRec, Stage
    <3> QED BY <1>0, <2>1, <3>1, <3>2 DEF CallOK, ReadOK, WorldOK
  <2>3. CASE ~Identified(Me)
    <3>1. chain' = chain /\ call' = [call EXCEPT ![c] = Settled]
      BY <1>1, <2>3, Zenon DEF Arrive
    <3> QED BY <1>0, <2>1, <3>1, FreshIsCall DEF CallOK, ReadOK, WorldOK
  <2> QED BY <2>2, <2>3
<1>2. ASSUME NEW c \in Calls, Cancel(c) PROVE CallOK' /\ ReadOK' /\ WorldOK'
  <2>1. UNCHANGED <<chain, lastRead, told, moves, childGen, swap, ip, era, inputs>>
        /\ call' = [call EXCEPT ![c] = [call[c] EXCEPT !.stopped = TRUE]]
    BY <1>2, <1>0 DEF Cancel, childVars, browserVars, CallOK
  <2>2. [call[c] EXCEPT !.stopped = TRUE] \in CallRec
    BY <1>0 DEF CallOK, CallRec
  <2> QED BY <1>0, <2>1, <2>2 DEF CallOK, ReadOK, WorldOK
<1>3. ASSUME NEW c \in Calls, Handlers(c) PROVE CallOK' /\ ReadOK' /\ WorldOK'
  BY <1>0, <1>3, StartTypes, ReadTypes, ActTypes DEF Handlers
<1>4. CASE Move
  BY <1>0, <1>4, OwnedBounds DEF Move, browserVars, CallOK, ReadOK, WorldOK
<1>5. ASSUME NEW s \in Sessions, NEW h \in Handles, Identify(s, h)
      PROVE  CallOK' /\ ReadOK' /\ WorldOK'
  BY <1>0, <1>5 DEF Identify, ownVars, CallOK, ReadOK, WorldOK
<1>6. ASSUME NEW s \in Sessions, Close(s) PROVE CallOK' /\ ReadOK' /\ WorldOK'
  <2>1. UNCHANGED <<chain, lastRead, told, moves, childGen, swap, ip, era, inputs>>
    BY <1>6 DEF Close, childVars, browserVars
  <2>2. ASSUME NEW c \in Calls PROVE [call[c] EXCEPT !.stopped = Active(c)] \in CallRec
    BY <1>0 DEF CallOK, CallRec, Active
  <2>3. CallOK'
    BY <1>0, <1>6, <2>2 DEF Close, CallOK
  <2> QED BY <1>0, <2>1, <2>3 DEF ReadOK, WorldOK
<1>7. CASE SwapBegins
  BY <1>0, <1>7 DEF SwapBegins, browserVars, CallOK, ReadOK, WorldOK
<1>8. CASE SwapTurns
  BY <1>0, <1>8, OwnedBounds DEF SwapInv, SwapTurns, browserVars, CallOK, ReadOK, WorldOK
<1>9. CASE StartChild
  <2>1. Forget \in ReadRec
    BY <1>0, StampTypes, NoTableIsTable
  <2> QED BY <1>0, <1>9, <2>1 DEF StartChild, browserVars, CallOK, ReadOK, WorldOK
<1>10. CASE Replaced
  BY <1>0, <1>10, OwnedBounds DEF Replaced, childVars, CallOK, ReadOK, WorldOK
<1>11. CASE UNCHANGED vars
  BY <1>0, <1>11 DEF vars, ownVars, CallOK, ReadOK, WorldOK
<1> QED BY <1>1, <1>2, <1>3, <1>4, <1>5, <1>6, <1>7, <1>8, <1>9, <1>10, <1>11 DEF Next

\* A handler moves its own call only, and leaves the queue unless it is done.
LEMMA HandlerMoves ==
  ASSUME TypeOK, NEW c \in Calls, Handlers(c)
  PROVE  /\ Runs(c)
         /\ \A d \in Calls : d # c => call'[d] = call[d]
         /\ \/ chain' = chain /\ call'[c].kind = call[c].kind
            \/ call'[c].stage = "answered"
         /\ UNCHANGED <<idVars, moves, childGen, swap, ip, era>>
<1>0. CallOK /\ call[c] \in CallRec
  BY TypeParts DEF CallOK
<1>1. ASSUME Answer(c)
      PROVE  (\A d \in Calls : d # c => call'[d] = call[d]) /\ call'[c].stage = "answered"
  BY <1>0, <1>1 DEF Answer, Settled, Fresh, CallOK
<1>3. CASE Start(c)
  <2>1. CASE BeginRead(c)
    BY <1>0, <1>3, <2>1 DEF Keep, CallOK, Start, BeginRead, CallRec, childVars, browserVars
  <2>2. CASE BeginAct(c)
    BY <1>0, <1>3, <2>2 DEF Keep, CallOK, Start, BeginAct, CallRec, childVars, browserVars
  <2>3. CASE Decline(c)
    BY <1>3, <2>3, <1>1 DEF Start, Decline, childVars, browserVars
  <2> QED BY <1>3, <2>1, <2>2, <2>3 DEF Start
<1>4. CASE ReadDone(c)
  <2>1. CASE Answer(c)  BY <1>4, <2>1, <1>1 DEF ReadDone, childVars, browserVars
  <2>2. CASE ~Answer(c)
    <3>1. PICK t : Keep(c, [call[c] EXCEPT !.stage = "deciding", !.page = t, !.table = Read(t)])
      BY <1>4, <2>2 DEF ReadDone
    <3> QED BY <1>0, <1>4, <3>1 DEF Keep, ReadDone, CallOK, CallRec, childVars, browserVars
  <2> QED BY <2>1, <2>2
<1>5. CASE ReadFails(c) \/ ActThrows(c)
  BY <1>5, <1>1 DEF ReadFails, ActThrows, Caught, childVars, browserVars
<1>6. CASE Input(c)
  BY <1>0, <1>6 DEF Keep, CallOK, Input, CallRec, childVars
<1>7. CASE ActEnds(c)
  <2>1. CASE Answer(c)  BY <1>7, <2>1, <1>1 DEF ActEnds, childVars, browserVars
  <2>2. CASE ~Answer(c)
    <3>1. PICK table : Keep(c, [call[c] EXCEPT !.stage = "deciding", !.table = table])
      BY <1>7, <2>2 DEF ActEnds, ActReplies
    <3> QED BY <1>0, <1>7, <3>1 DEF Keep, ActEnds, CallOK, CallRec, childVars, browserVars
  <2> QED BY <2>1, <2>2
<1>8. CASE Loop(c)
  <2>1. CASE LoopReads(c)
    BY <1>0, <1>8, <2>1 DEF Keep, CallOK, Loop, LoopReads, CallRec, childVars, browserVars
  <2>2. CASE LoopActs(c)
    BY <1>0, <1>8, <2>2 DEF Keep, CallOK, Loop, LoopActs, CallRec, childVars, browserVars
  <2>3. CASE LoopEnds(c)
    BY <1>8, <2>3, <1>1 DEF Loop, LoopEnds, AchieveReplies, childVars, browserVars
  <2> QED BY <1>8, <2>1, <2>2, <2>3 DEF Loop
<1> QED BY <1>3, <1>4, <1>5, <1>6, <1>7, <1>8 DEF Handlers

LEMMA SwapStep ==
  ASSUME TypeOK, SwapInv, [Next]_vars
  PROVE  SwapInv'
<1> USE DEF SwapInv
<1>1. CASE SwapBegins \/ SwapTurns \/ StartChild
  BY <1>1 DEF SwapBegins, SwapTurns, StartChild
<1>2. CASE \E c \in Calls, k \in Kinds : Arrive(c, k)
  BY <1>2 DEF Arrive, childVars
<1>3. ASSUME NEW c \in Calls, Cancel(c) \/ Handlers(c) PROVE UNCHANGED <<swap, childGen>>
  BY <1>3, HandlerMoves DEF Cancel, childVars
<1>4. CASE Move \/ Replaced \/ UNCHANGED vars
  BY <1>4 DEF Move, Replaced, vars, ownVars, childVars
<1>5. CASE \/ \E s \in Sessions, h \in Handles : Identify(s, h)
           \/ \E s \in Sessions : Close(s)
  BY <1>5 DEF Identify, Close, ownVars, childVars
<1> QED BY <1>1, <1>2, <1>3, <1>4, <1>5 DEF Next

LEMMA StandStep ==
  ASSUME TypeOK, StandInv, [Next]_vars
  PROVE  StandInv'
<1>0. CallOK /\ ReadOK /\ WorldOK
  BY TypeParts
<1>1. ASSUME NEW c \in Calls, Handlers(c) PROVE StandInv'
  <2>0. call[c] \in CallRec /\ Runs(c)
    BY <1>0, <1>1, HandlerMoves DEF CallOK
  <2>1. ASSUME NEW d \in Calls, d # c PROVE StandsAt(d)'
    <3>1. call'[d] = call[d] /\ ~Running(d)
      BY <1>1, <2>1, HandlerMoves DEF StandInv, StandsAt, Runs
    <3> QED BY <3>1 DEF StandsAt, Running
  <2>2. CASE call'[c].stage = "answered"
    <3>1. StandsAt(c)'  BY <2>2 DEF StandsAt, Running
    <3> QED BY <2>1, <3>1 DEF StandInv
  <2>3. CASE call'[c].stage # "answered"
    <3>0. chain' = chain /\ call'[c].kind = call[c].kind /\ Runs(c)'
      BY <1>1, <2>0, <2>3, HandlerMoves DEF Runs
    <3> SUFFICES StandsAt(c)'
      BY <2>1 DEF StandInv
    <3>1. ~Answer(c)
      BY <1>0, <2>3 DEF Answer, Settled, Fresh, CallOK
    <3>2. CASE Start(c)
      <4>1. CASE BeginRead(c)
        BY <1>0, <2>0, <3>0, <4>1 DEF BeginRead, Keep, CallOK, CallRec, StandsAt
      <4>2. CASE BeginAct(c)
        BY <1>0, <2>0, <3>0, <4>2, TablesAre
        DEF BeginAct, Keep, CallOK, CallRec, ReadOK, ReadRec, StandsAt
      <4> QED BY <3>1, <3>2, <4>1, <4>2 DEF Start, Decline
    <3>3. CASE ReadDone(c)
      <4>1. PICK t \in IF call[c].page # None THEN {call[c].page} ELSE Tabs :
              /\ call[c].kind = "achieve"
              /\ Keep(c, [call[c] EXCEPT !.stage = "deciding", !.page = t, !.table = Read(t)])
        BY <3>1, <3>3 DEF ReadDone
      <4> QED BY <1>0, <2>0, <3>0, <4>1 DEF Keep, CallOK, CallRec, StandsAt
    <3>4. CASE Input(c)
      BY <1>0, <2>0, <3>0, <3>4 DEF Input, Keep, CallOK, CallRec, StandInv, StandsAt
    <3>5. CASE ActEnds(c)
      <4>1. PICK table \in Observed(c) :
              /\ call[c].kind # "act"
              /\ Keep(c, [call[c] EXCEPT !.stage = "deciding", !.table = table])
        BY <3>1, <3>5 DEF ActEnds, ActReplies
      <4> QED BY <1>0, <2>0, <3>0, <3>5, <4>1 DEF ActEnds, Keep, CallOK, CallRec, StandInv, StandsAt
    <3>6. CASE Loop(c)
      <4>1. CASE LoopReads(c)
        BY <1>0, <2>0, <3>0, <3>6, <4>1
        DEF Loop, LoopReads, Keep, CallOK, CallRec, StandInv, StandsAt
      <4>2. CASE LoopActs(c)
        BY <1>0, <2>0, <3>0, <3>6, <4>2
        DEF Loop, LoopActs, Keep, CallOK, CallRec, StandInv, StandsAt
      <4> QED BY <3>1, <3>6, <4>1, <4>2 DEF Loop, LoopEnds, AchieveReplies
    <3> QED BY <1>1, <3>1, <3>2, <3>3, <3>4, <3>5, <3>6
            DEF Handlers, ReadFails, ActThrows, Caught
  <2> QED BY <2>2, <2>3
<1>2. ASSUME NEW c \in Calls, NEW k \in Kinds, Arrive(c, k) PROVE StandInv'
  <2> SUFFICES ASSUME NEW d \in Calls PROVE StandsAt(d)'
    BY DEF StandInv
  <2>1. CASE d # c
    <3>1. call'[d] = call[d]
      BY <1>0, <1>2, <2>1 DEF Arrive, CallOK
    <3>2. Runs(d) => Runs(d)'
      BY <1>0, <1>2 DEF Arrive, Runs, WorldOK
    <3> QED BY <3>1, <3>2 DEF StandInv, StandsAt, Running
  <2>2. CASE d = c
    <3>1. call'[c].stage \in {"queued", "answered"}
      BY <1>0, <1>2 DEF Arrive, CallOK, CallRec, Settled, Fresh
    <3> QED BY <2>2, <3>1 DEF StandsAt, Running
  <2> QED BY <2>1, <2>2
<1>3. CASE \/ \E c \in Calls : Cancel(c)
           \/ \E s \in Sessions : Close(s)
  <2>1. chain' = chain /\ \A d \in Calls : /\ call'[d].stage = call[d].stage
                                           /\ call'[d].kind = call[d].kind
                                           /\ call'[d].page = call[d].page
    BY <1>0, <1>3 DEF Cancel, Close, CallOK, CallRec
  <2> QED BY <2>1 DEF StandInv, StandsAt, Running, Runs
<1>4. CASE \/ Move \/ Replaced \/ SwapBegins \/ SwapTurns \/ StartChild \/ UNCHANGED vars
           \/ \E s \in Sessions, h \in Handles : Identify(s, h)
  <2>1. UNCHANGED <<chain, call>>
    BY <1>4 DEF Move, Replaced, SwapBegins, SwapTurns, StartChild, Identify, vars, ownVars
  <2> QED BY <2>1 DEF StandInv, StandsAt, Running, Runs
<1> QED BY <1>1, <1>2, <1>3, <1>4 DEF Next

-----------------------------------------------------------------------------
(* The read that row ids refer to.                                         *)

\* What a table says is what its page shows, if that container still exists.
Current(table) == table.era = era => table.at = inputs[table.tab]

EraInv ==
  /\ told.era <= era /\ lastRead.table.era <= era
  /\ \A c \in Calls : call[c].table.era <= era

\* Before and after its acts a loop holds its page as it is now, or nothing.
LoopAt(c) ==
  /\ call[c].kind = "achieve" /\ call[c].stage \in {"deciding", "acting"}
  /\ call[c].table # NoTable
  => call[c].table.tab = call[c].page /\ Current(call[c].table)
LoopInv == \A c \in Calls : LoopAt(c)

\* Under a new child, what began under an earlier one finds the read forgotten.
GenAt(c) ==
  Running(c) /\ call[c].gen # childGen /\ swap # "provisioning" => lastRead.table = NoTable
GenInv == \A c \in Calls : GenAt(c)

\* A call whose inputs may be on the page already.
HasActed(c) ==
  \/ call[c].stage = "sent"
  \/ call[c].kind = "achieve" /\ call[c].stage \in {"deciding", "acting"}

\* The read is the newest table the client has, and of the page as it is now,
\* or as it was before the call that still runs on it.
NewestInv ==
  ~closed[Me] /\ swap # "provisioning" /\ lastRead.table # NoTable =>
    /\ lastRead.table = told
    /\ Current(told) \/ \E c \in Calls : HasActed(c) /\ call[c].page = told.tab

ReadsInv == EraInv /\ LoopInv /\ GenInv /\ NewestInv

\* While a handler steps no other call is past its start.
LEMMA OthersIdle ==
  ASSUME TypeOK, StandInv, NEW c \in Calls, Handlers(c), NEW d \in Calls, d # c
  PROVE  call'[d] = call[d] /\ ~Running(d) /\ ~Running(d)'
<1>1. call'[d] = call[d] /\ ~Runs(d)
  BY HandlerMoves DEF Runs
<1> QED BY <1>1 DEF StandInv, StandsAt, Running

\* So what is said of running calls is said of this one.
LEMMA OneRuns ==
  ASSUME TypeOK, StandInv, NEW c \in Calls, Handlers(c)
  PROVE  /\ LoopAt(c)' => LoopInv'
         /\ GenAt(c)' => GenInv'
         /\ \A d \in Calls : HasActed(d) => d = c
<1>1. ASSUME LoopAt(c)', NEW d \in Calls PROVE LoopAt(d)'
  BY <1>1, OthersIdle DEF LoopAt, Running
<1>2. ASSUME GenAt(c)', NEW d \in Calls PROVE GenAt(d)'
  BY <1>2, OthersIdle DEF GenAt, Running
<1>3. ASSUME NEW d \in Calls, HasActed(d), d # c PROVE FALSE
  BY <1>3, OthersIdle DEF HasActed, Running
<1> QED BY <1>1, <1>2, <1>3 DEF LoopInv, GenInv

LEMMA StartKeeps ==
  ASSUME TypeOK, StandInv, ReadsInv, NEW c \in Calls, Start(c)
  PROVE  ReadsInv'
<1> DEFINE k == call[c]
<1>0. CallOK /\ ReadOK /\ WorldOK /\ k \in CallRec /\ k.stage = "queued" /\ Handlers(c)
  BY TypeParts DEF CallOK, Start, Handlers
<1>1. UNCHANGED <<closed, lastRead, told, era, inputs, swap, childGen>>
  BY DEF Start, BeginRead, BeginAct, Decline, idVars, childVars, browserVars
<1>2. \/ k'.stage = "answered" /\ k'.table = NoTable
      \/ k'.stage = "reading" /\ k'.table = k.table /\ k'.gen = childGen
      \/ k'.stage = "acting" /\ k'.kind = "act" /\ k'.table = lastRead.table /\ k'.gen = childGen
  <2>1. CASE BeginRead(c)  BY <1>0, <2>1 DEF BeginRead, Keep, CallOK, CallRec
  <2>2. CASE BeginAct(c)   BY <1>0, <2>2 DEF BeginAct, Keep, CallOK, CallRec
  <2>3. CASE Decline(c)    BY <1>0, <2>3 DEF Decline, Answer, Settled, Fresh, CallOK
  <2> QED BY <2>1, <2>2, <2>3 DEF Start
<1>3. EraInv'
  <2>1. ASSUME NEW d \in Calls PROVE call'[d].table.era <= era
    <3>1. CASE d # c  BY <1>0, <3>1, HandlerMoves DEF ReadsInv, EraInv
    <3>2. CASE d = c
      BY <1>0, <1>2, <3>2 DEF ReadsInv, EraInv, NoTable, WorldOK
    <3> QED BY <3>1, <3>2
  <2> QED BY <1>1, <2>1 DEF ReadsInv, EraInv
<1>4. LoopInv' /\ GenInv'
  <2>1. LoopAt(c)'  BY <1>2 DEF LoopAt
  <2>2. GenAt(c)'   BY <1>1, <1>2 DEF GenAt, Running
  <2> QED BY <1>0, <2>1, <2>2, OneRuns
<1>5. NewestInv'
  <2>1. ~ \E d \in Calls : HasActed(d)
    BY <1>0, OneRuns DEF HasActed
  <2> QED BY <1>1, <2>1 DEF ReadsInv, NewestInv, Current
<1> QED BY <1>3, <1>4, <1>5 DEF ReadsInv

\* A table of the page as it is now is of this container and current.
LEMMA ReadIsNow ==
  ASSUME WorldOK, NEW t \in Tabs
  PROVE  Read(t).tab = t /\ Read(t).era = era /\ Current(Read(t))
BY DEF Read, Current

\* What a reply leaves, when it carries a table that is good now or none.
LEMMA RepliesKeep ==
  ASSUME TypeOK, StandInv, ReadsInv, NEW c \in Calls, Handlers(c), Answer(c),
         UNCHANGED <<closed, era, inputs, swap, childGen>>,
         \/ /\ lastRead' = lastRead /\ told' = told
            /\ HasActed(c) => lastRead.table.tab # call[c].page \/ lastRead.table = NoTable
         \/ lastRead' = Forget /\ told' = told
         \/ \E table \in Tables :
              /\ lastRead' = Remember(call[c].gen, table) /\ Tell(table)
              /\ table.era <= era /\ Current(table) /\ Running(c)
  PROVE  ReadsInv'
<1>0. CallOK /\ ReadOK /\ WorldOK /\ call[c] \in CallRec
  BY TypeParts DEF CallOK
<1>1. call'[c] = Settled /\ Settled.stage = "answered" /\ Settled.table = NoTable
      /\ NoTable.era = 0 /\ Forget.table = NoTable
  BY <1>0 DEF Answer, CallOK, Settled, Fresh, NoTable, Forget
<1>2. LoopInv' /\ GenInv'
  <2>1. LoopAt(c)' /\ GenAt(c)'  BY <1>1 DEF LoopAt, GenAt, Running
  <2> QED BY <2>1, OneRuns
<1>3. ASSUME NEW d \in Calls PROVE call'[d].table.era <= era
  <2>1. CASE d # c  BY <2>1, HandlerMoves DEF ReadsInv, EraInv
  <2>2. CASE d = c  BY <1>0, <1>1, <2>2 DEF WorldOK
  <2> QED BY <2>1, <2>2
<1>4. CASE /\ lastRead' = lastRead /\ told' = told
           /\ HasActed(c) => lastRead.table.tab # call[c].page \/ lastRead.table = NoTable
  <2>1. EraInv'  BY <1>3, <1>4 DEF ReadsInv, EraInv
  <2>2. NewestInv'
    BY <1>4, OneRuns DEF ReadsInv, NewestInv, Current
  <2> QED BY <1>2, <2>1, <2>2 DEF ReadsInv
<1>5. CASE lastRead' = Forget /\ told' = told
  <2>1. EraInv'  BY <1>0, <1>1, <1>3, <1>5 DEF ReadsInv, EraInv, WorldOK
  <2>2. NewestInv'  BY <1>1, <1>5 DEF NewestInv
  <2> QED BY <1>2, <2>1, <2>2 DEF ReadsInv
<1>6. ASSUME NEW table \in Tables, lastRead' = Remember(call[c].gen, table), Tell(table),
             table.era <= era, Current(table), Running(c)
      PROVE  ReadsInv'
  <2>1. EraInv'  BY <1>3, <1>6 DEF ReadsInv, EraInv, Remember, Tell
  <2>2. CASE call[c].gen = childGen
    <3>1. lastRead'.table = table  BY <1>6, <2>2 DEF Remember
    <3>2. ~closed[Me] => told' = table  BY <1>6 DEF Tell
    <3>3. NewestInv'  BY <1>6, <3>1, <3>2 DEF NewestInv, Current
    <3> QED BY <1>2, <2>1, <3>3 DEF ReadsInv
  <2>3. CASE call[c].gen # childGen
    <3>1. swap # "provisioning" => lastRead'.table = NoTable
      BY <1>6, <2>3 DEF Remember, ReadsInv, GenInv, GenAt
    <3>2. NewestInv'  BY <3>1 DEF NewestInv
    <3> QED BY <1>2, <2>1, <3>2 DEF ReadsInv
  <2> QED BY <2>2, <2>3
<1> QED BY <1>4, <1>5, <1>6

LEMMA ReadKeeps ==
  ASSUME TypeOK, StandInv, ReadsInv, NEW c \in Calls, ReadDone(c) \/ ReadFails(c)
  PROVE  ReadsInv'
<1> DEFINE k == call[c]
<1>0. CallOK /\ ReadOK /\ WorldOK /\ k \in CallRec /\ Handlers(c) /\ ~HasActed(c) /\ Running(c)
  BY TypeParts DEF CallOK, ReadDone, ReadFails, Handlers, HasActed, Running
<1>1. UNCHANGED <<closed, era, inputs, swap, childGen>>
  BY DEF ReadDone, ReadFails, idVars, childVars, browserVars
<1>2. CASE ReadFails(c)
  BY <1>0, <1>1, <1>2, RepliesKeep DEF ReadFails, Caught
<1>3. CASE ReadDone(c)
  <2>1. PICK t \in IF k.page # None THEN {k.page} ELSE Tabs :
          \/ /\ lastRead' = Remember(k.gen, Read(t))
             /\ Tell(Read(t))
             /\ Answer(c)
          \/ /\ \/ Answer(c)
                \/ Keep(c, [k EXCEPT !.stage = "deciding", !.page = t, !.table = Read(t)])
             /\ UNCHANGED <<lastRead, told>>
    BY <1>3 DEF ReadDone
  <2>2. t \in Tabs
    BY <1>0, <2>1 DEF CallRec
  <2>3. Read(t) \in Tables /\ Read(t).tab = t /\ Read(t).era <= era /\ Current(Read(t))
    BY <1>0, <2>2, ReadIsTable, ReadIsNow DEF WorldOK
  <2>4. CASE Answer(c)
    BY <1>0, <1>1, <2>1, <2>3, <2>4, RepliesKeep DEF Keep
  <2>5. CASE Keep(c, [k EXCEPT !.stage = "deciding", !.page = t, !.table = Read(t)])
             /\ UNCHANGED <<lastRead, told>>
    <3>1. k'.stage = "deciding" /\ k'.page = t /\ k'.table = Read(t) /\ k'.gen = k.gen
      BY <1>0, <2>5 DEF Keep, CallOK, CallRec
    <3>2. EraInv'
      <4>1. ASSUME NEW d \in Calls PROVE call'[d].table.era <= era
        <5>1. CASE d # c  BY <1>0, <5>1, HandlerMoves DEF ReadsInv, EraInv
        <5> QED BY <2>3, <3>1, <5>1
      <4> QED BY <1>1, <2>5, <4>1 DEF ReadsInv, EraInv
    <3>3. LoopInv' /\ GenInv'
      <4>1. LoopAt(c)'  BY <1>1, <2>3, <3>1 DEF LoopAt, Current
      <4>2. GenAt(c)'
        BY <1>0, <1>1, <2>5, <3>1 DEF ReadsInv, GenInv, GenAt, Running
      <4> QED BY <1>0, <4>1, <4>2, OneRuns
    <3>4. NewestInv'
      BY <1>0, <1>1, <2>5, OneRuns DEF ReadsInv, NewestInv, Current
    <3> QED BY <3>2, <3>3, <3>4 DEF ReadsInv
  <2> QED BY <2>1, <2>4, <2>5
<1> QED BY <1>2, <1>3

\* What a handler that goes on leaves, when it told and remembered nothing.
LEMMA GoesOnKeeps ==
  ASSUME TypeOK, StandInv, ReadsInv, NEW c \in Calls, Handlers(c), Running(c),
         UNCHANGED <<closed, lastRead, told, era, swap, childGen>>,
         call'[c].gen = call[c].gen, call'[c].page = call[c].page,
         call'[c].table.era <= era, LoopAt(c)',
         HasActed(c) => HasActed(c)',
         \/ inputs' = inputs
         \/ HasActed(c)' /\ \E n : inputs' = [inputs EXCEPT ![call[c].page] = n]
  PROVE  ReadsInv'
<1>0. CallOK /\ ReadOK /\ WorldOK /\ call[c] \in CallRec
  BY TypeParts DEF CallOK
<1>1. EraInv'
  <2>1. ASSUME NEW d \in Calls PROVE call'[d].table.era <= era
    <3>1. CASE d # c  BY <3>1, HandlerMoves DEF ReadsInv, EraInv
    <3> QED BY <3>1
  <2> QED BY <2>1 DEF ReadsInv, EraInv
<1>2. LoopInv' /\ GenInv'
  <2>1. GenAt(c)'  BY DEF ReadsInv, GenInv, GenAt
  <2> QED BY <2>1, OneRuns
<1>3. NewestInv'
  <2> SUFFICES ASSUME ~closed[Me], swap # "provisioning", lastRead.table # NoTable
               PROVE  /\ lastRead.table = told
                      /\ \/ Current(told)'
                         \/ \E d \in Calls : HasActed(d)' /\ call'[d].page = told.tab
    BY DEF NewestInv
  <2>1. lastRead.table = told
        /\ (Current(told) \/ \E d \in Calls : HasActed(d) /\ call[d].page = told.tab)
    BY DEF ReadsInv, NewestInv
  <2>2. told.tab \in Tabs
    BY <1>0, <2>1, TablesAre DEF ReadOK, ReadRec
  <2>3. CASE \E d \in Calls : HasActed(d) /\ call[d].page = told.tab
    BY <2>1, <2>3, OneRuns
  <2>4. CASE Current(told) /\ inputs' = inputs
    BY <2>1, <2>4 DEF Current
  <2>5. CASE Current(told) /\ HasActed(c)'
             /\ \E n : inputs' = [inputs EXCEPT ![call[c].page] = n]
    <3>1. CASE call[c].page = told.tab  BY <2>1, <2>5, <3>1
    <3>2. CASE call[c].page # told.tab
      BY <1>0, <2>1, <2>2, <2>5, <3>2 DEF Current, WorldOK
    <3> QED BY <3>1, <3>2
  <2> QED BY <2>1, <2>3, <2>4, <2>5
<1> QED BY <1>1, <1>2, <1>3 DEF ReadsInv

LEMMA ActKeeps ==
  ASSUME TypeOK, StandInv, ReadsInv, NEW c \in Calls,
         Input(c) \/ ActEnds(c) \/ ActThrows(c)
  PROVE  ReadsInv'
<1> DEFINE k == call[c]
<1>0. CallOK /\ ReadOK /\ WorldOK /\ k \in CallRec /\ Handlers(c) /\ Running(c)
      /\ k.page \in Tabs /\ k.kind \in {"act", "achieve"}
  BY TypeParts DEF CallOK, Input, ActEnds, ActThrows, Handlers, Running, StandInv, StandsAt
<1>1. UNCHANGED <<closed, era, swap, childGen>>
  BY DEF Input, ActEnds, ActThrows, idVars, childVars, browserVars
<1>2. CASE Input(c)
  <2>1. k'.stage = "sent" /\ k'.gen = k.gen /\ k'.page = k.page /\ k'.table = k.table
        /\ inputs' = [inputs EXCEPT ![k.page] = @ + 1]
    BY <1>0, <1>2 DEF Input, Keep, CallOK, CallRec
  <2>2. HasActed(c)' /\ LoopAt(c)'
    BY <2>1 DEF HasActed, LoopAt
  <2>3. k'.table.era <= era
    BY <2>1 DEF ReadsInv, EraInv
  <2>4. UNCHANGED <<lastRead, told>>
    BY <1>2 DEF Input
  <2> QED BY <1>0, <1>1, <2>1, <2>2, <2>3, <2>4, GoesOnKeeps
<1>3. CASE ActThrows(c)
  <2>1. ~HasActed(c)
    BY <1>3 DEF ActThrows, HasActed
  <2> QED BY <1>0, <1>1, <1>3, <2>1, RepliesKeep DEF ActThrows, Caught, browserVars
<1>4. CASE ActEnds(c)
  <2>0. inputs' = inputs
    BY <1>4 DEF ActEnds, browserVars
  <2>1. PICK table \in Observed(c) :
          IF k.kind = "act" THEN ActReplies(c, table)
          ELSE /\ Keep(c, [k EXCEPT !.stage = "deciding", !.table = table])
               /\ UNCHANGED <<lastRead, told>>
    BY <1>4 DEF ActEnds
  <2>2. table \in Tables /\ table.era <= era
        /\ (table # NoTable => table.tab = k.page /\ Current(table))
    BY <1>0, <2>1, NoTableIsTable, ReadIsTable, ReadIsNow DEF Observed, NoTable, WorldOK
  <2>3. CASE k.kind = "act"
    BY <1>0, <1>1, <2>0, <2>1, <2>2, <2>3, RepliesKeep DEF ActReplies
  <2>4. CASE k.kind # "act"
    <3>0. call' = [call EXCEPT ![c] = [k EXCEPT !.stage = "deciding", !.table = table]]
      BY <2>1, <2>4 DEF Keep
    <3>1. k'.stage = "deciding" /\ k'.kind = "achieve" /\ k'.gen = k.gen
          /\ k'.page = k.page /\ k'.table = table
      BY <1>0, <2>4, <3>0 DEF CallOK, CallRec
    <3>2. HasActed(c)' /\ LoopAt(c)'
      BY <1>1, <2>0, <2>2, <3>1 DEF HasActed, LoopAt, Current
    <3> QED BY <1>0, <1>1, <2>0, <2>1, <2>2, <2>4, <3>1, <3>2, GoesOnKeeps
  <2> QED BY <2>3, <2>4
<1> QED BY <1>2, <1>3, <1>4

LEMMA LoopKeeps ==
  ASSUME TypeOK, StandInv, ReadsInv, NEW c \in Calls, Loop(c)
  PROVE  ReadsInv'
<1> DEFINE k == call[c]
<1>0. CallOK /\ ReadOK /\ WorldOK /\ k \in CallRec /\ Handlers(c) /\ Running(c)
      /\ k.page \in Tabs /\ k.kind = "achieve" /\ k.stage = "deciding" /\ HasActed(c)
  BY TypeParts DEF CallOK, Loop, Handlers, Running, HasActed, StandInv, StandsAt
<1>1. UNCHANGED <<closed, era, inputs, swap, childGen>>
  BY DEF Loop, idVars, childVars, browserVars
<1>2. k.table \in Tables /\ k.table.era <= era
      /\ (k.table # NoTable => k.table.tab = k.page /\ Current(k.table))
  BY <1>0 DEF CallRec, ReadsInv, EraInv, LoopInv, LoopAt
<1>3. CASE LoopReads(c)
  <2>1. k'.stage = "deciding" /\ k'.kind = "achieve" /\ k'.gen = k.gen /\ k'.page = k.page
        /\ k'.table = Read(k.page)
    BY <1>0, <1>3 DEF LoopReads, Keep, CallOK, CallRec
  <2>2. HasActed(c)' /\ LoopAt(c)' /\ k'.table.era <= era
    BY <1>0, <1>1, <2>1, ReadIsNow DEF HasActed, LoopAt, Current, WorldOK
  <2> QED BY <1>0, <1>1, <1>3, <2>1, <2>2, GoesOnKeeps DEF LoopReads
<1>4. CASE LoopActs(c)
  <2>1. k'.stage = "acting" /\ k'.kind = "achieve" /\ k'.gen = k.gen /\ k'.page = k.page
        /\ k'.table = k.table
    BY <1>0, <1>4 DEF LoopActs, Keep, CallOK, CallRec
  <2>2. HasActed(c)' /\ LoopAt(c)'
    BY <1>1, <1>2, <2>1 DEF HasActed, LoopAt, Current
  <2> QED BY <1>0, <1>1, <1>2, <1>4, <2>1, <2>2, GoesOnKeeps DEF LoopActs
<1>5. CASE LoopEnds(c)
  <2>1. PICK table \in {k.table, NoTable} : AchieveReplies(c, table)
    BY <1>5 DEF LoopEnds
  <2>2. Answer(c)
    BY <2>1 DEF AchieveReplies
  <2>3. CASE table # NoTable /\ k.gen = childGen
    <3>1. table = k.table
      BY <2>1, <2>3
    <3> QED BY <1>0, <1>1, <1>2, <2>1, <2>2, <2>3, <3>1, RepliesKeep DEF AchieveReplies
  <2>4. CASE ~(table # NoTable /\ k.gen = childGen)
    <3>1. lastRead' = (IF lastRead.table.tab = k.page THEN Forget ELSE lastRead) /\ told' = told
      BY <2>1, <2>4 DEF AchieveReplies
    <3>2. CASE lastRead.table.tab = k.page
      <4>1. lastRead' = Forget /\ told' = told  BY <3>1, <3>2
      <4> QED BY <1>0, <1>1, <2>2, <4>1, RepliesKeep
    <3>3. CASE lastRead.table.tab # k.page
      <4>1. lastRead' = lastRead /\ told' = told  BY <3>1, <3>3
      <4> QED BY <1>0, <1>1, <2>2, <3>3, <4>1, RepliesKeep
    <3> QED BY <3>2, <3>3
  <2> QED BY <2>3, <2>4
<1> QED BY <1>3, <1>4, <1>5 DEF Loop

\* Arrivals, cancels, closes and what the client does elsewhere.
LEMMA OthersKeep ==
  ASSUME TypeOK, StandInv, ReadsInv, UNCHANGED <<lastRead, told, inputs, era, swap, childGen>>,
         ~closed'[Me] => ~closed[Me],
         \A c \in Calls :
           \/ /\ call'[c].stage = call[c].stage /\ call'[c].kind = call[c].kind
              /\ call'[c].gen = call[c].gen /\ call'[c].page = call[c].page
              /\ call'[c].table = call[c].table
           \/ /\ call[c].stage = "new" /\ ~Running(c)'
              /\ call'[c].table \in {NoTable, call[c].table}
  PROVE  ReadsInv'
<1>0. WorldOK /\ NoTable.era = 0
  BY TypeParts DEF NoTable
<1>1. EraInv'  BY <1>0 DEF ReadsInv, EraInv, WorldOK
<1>2. LoopInv'
  BY DEF ReadsInv, LoopInv, LoopAt, Running, Current
<1>3. GenInv'
  BY DEF ReadsInv, GenInv, GenAt, Running
<1>4. NewestInv'
  <2>1. ASSUME NEW c \in Calls, HasActed(c) PROVE HasActed(c)' /\ call'[c].page = call[c].page
    BY <2>1 DEF HasActed
  <2> QED BY <2>1 DEF ReadsInv, NewestInv, Current
<1> QED BY <1>1, <1>2, <1>3, <1>4 DEF ReadsInv

LEMMA ReadsStep ==
  ASSUME TypeOK, StandInv, ReadsInv, [Next]_vars
  PROVE  ReadsInv'
<1>0. CallOK /\ ReadOK /\ WorldOK /\ IdTypeOK
  BY TypeParts
<1>1. ASSUME NEW c \in Calls, Handlers(c) PROVE ReadsInv'
  BY <1>1, StartKeeps, ReadKeeps, ActKeeps, LoopKeeps DEF Handlers
<1>2. ASSUME NEW c \in Calls, NEW k \in Kinds, Arrive(c, k) PROVE ReadsInv'
  <2>1. UNCHANGED <<closed, lastRead, told, inputs, era, swap, childGen>>
    BY <1>2 DEF Arrive, idVars, childVars, browserVars
  <2>2. ASSUME NEW d \in Calls, d # c PROVE call'[d] = call[d]
    BY <1>0, <1>2, <2>2 DEF Arrive, CallOK
  <2>3. call[c].stage = "new" /\ ~Running(c)' /\ call'[c].table \in {NoTable, call[c].table}
    BY <1>0, <1>2 DEF Arrive, CallOK, CallRec, Running, Settled, Fresh
  <2> QED BY <2>1, <2>2, <2>3, OthersKeep
<1>3. ASSUME NEW c \in Calls, Cancel(c) PROVE ReadsInv'
  <2>1. UNCHANGED <<closed, lastRead, told, inputs, era, swap, childGen>>
    BY <1>3 DEF Cancel, idVars, childVars, browserVars
  <2>2. ASSUME NEW d \in Calls
        PROVE  /\ call'[d].stage = call[d].stage /\ call'[d].kind = call[d].kind
               /\ call'[d].gen = call[d].gen /\ call'[d].page = call[d].page
               /\ call'[d].table = call[d].table
    BY <1>0, <1>3 DEF Cancel, CallOK, CallRec
  <2> QED BY <2>1, <2>2, OthersKeep
<1>4. ASSUME NEW s \in Sessions, Close(s) PROVE ReadsInv'
  <2>1. UNCHANGED <<lastRead, told, inputs, era, swap, childGen>>
        /\ (~closed'[Me] => ~closed[Me])
    BY <1>0, <1>4, OwnedBounds DEF Close, CloseSession, childVars, browserVars, IdTypeOK
  <2>2. ASSUME NEW d \in Calls
        PROVE  /\ call'[d].stage = call[d].stage /\ call'[d].kind = call[d].kind
               /\ call'[d].gen = call[d].gen /\ call'[d].page = call[d].page
               /\ call'[d].table = call[d].table
    BY <1>0, <1>4 DEF Close, CallOK, CallRec
  <2> QED BY <2>1, <2>2, OthersKeep
<1>5. CASE \/ Move \/ UNCHANGED vars
           \/ \E s \in Sessions, h \in Handles : Identify(s, h)
  <2>1. UNCHANGED <<closed, call, lastRead, told, inputs, era, swap, childGen>>
    BY <1>5 DEF Move, Identify, ClaimHandle, idVars, browserVars, vars, ownVars
  <2> QED BY <2>1, OthersKeep
<1>6. CASE SwapBegins
  <2>1. UNCHANGED <<closed, call, lastRead, told, inputs, era, childGen>> /\ swap = "none"
    BY <1>6 DEF SwapBegins, idVars, browserVars
  <2> QED BY <2>1 DEF ReadsInv, EraInv, LoopInv, LoopAt, GenInv, GenAt, NewestInv, HasActed,
             Current, Running
<1>7. CASE SwapTurns
  <2>1. UNCHANGED <<closed, call, lastRead, told, inputs, era>> /\ swap = "closing"
        /\ (swap' = "provisioning" \/ (closed[Me] /\ childGen' = childGen))
    BY <1>7 DEF SwapTurns, idVars, browserVars
  <2>2. swap # "provisioning" /\ EraInv /\ LoopInv /\ GenInv /\ NewestInv
    BY <2>1 DEF ReadsInv
  <2>3. EraInv' /\ LoopInv'
    BY <2>1, <2>2 DEF EraInv, LoopInv, LoopAt, Current
  <2>4. GenInv'
    BY <2>1, <2>2 DEF GenInv, GenAt, Running
  <2>5. NewestInv'
    BY <2>1, <2>2 DEF NewestInv
  <2> QED BY <2>3, <2>4, <2>5 DEF ReadsInv
<1>8. CASE StartChild
  <2>1. UNCHANGED <<call, told, inputs, era>> /\ lastRead'.table = NoTable /\ NoTable.era = 0
    BY <1>8 DEF StartChild, browserVars, Forget, NoTable
  <2> QED BY <1>0, <2>1
          DEF ReadsInv, EraInv, LoopInv, LoopAt, GenInv, GenAt, NewestInv, Current, WorldOK
<1>9. CASE Replaced
  <2>1. UNCHANGED <<closed, call, lastRead, told, swap, childGen>> /\ era' = era + 1
    BY <1>9 DEF Replaced, idVars, childVars
  <2>2. ASSUME NEW table \in Tables, table.era <= era
        PROVE  table.era <= era' /\ Current(table)'
    <3>1. table.era \in Nat /\ era \in Nat
      BY <1>0, <2>2, OwnedBounds DEF Tables, NoTable, WorldOK
    <3> QED BY <2>1, <2>2, <3>1 DEF Current
  <2>3. told \in Tables /\ lastRead.table \in Tables
        /\ \A c \in Calls : call[c].table \in Tables
    BY <1>0 DEF ReadOK, ReadRec, CallOK, CallRec
  <2>4. EraInv'     BY <2>1, <2>2, <2>3 DEF ReadsInv, EraInv
  <2>5. LoopInv'    BY <2>1, <2>2, <2>3 DEF ReadsInv, EraInv, LoopInv, LoopAt
  <2>6. GenInv'     BY <2>1 DEF ReadsInv, GenInv, GenAt, Running
  <2>7. NewestInv'  BY <2>1, <2>2, <2>3 DEF ReadsInv, EraInv, NewestInv
  <2> QED BY <2>4, <2>5, <2>6, <2>7 DEF ReadsInv
<1> QED BY <1>1, <1>2, <1>3, <1>4, <1>5, <1>6, <1>7, <1>8, <1>9 DEF Next

-----------------------------------------------------------------------------

IInv == TypeOK /\ SwapInv /\ StandInv /\ ReadsInv

LEMMA Inductive == Spec => []IInv
<1>1. Init => IInv
  <2> SUFFICES ASSUME Init PROVE IInv
    OBVIOUS
  <2>1. IdTypeOK
    BY NoneIsNoHandle DEF Init, IdInit, IdTypeOK
  <2>2. CallOK
    BY FreshIsCall DEF Init, CallOK
  <2>3. ReadOK
    BY NoTableIsTable, OwnedBounds DEF Init, ReadOK, ReadRec
  <2>4. WorldOK
    BY OwnedBounds DEF Init, WorldOK
  <2>5. SwapInv
    BY DEF Init, SwapInv
  <2>6. \A c \in Calls : call[c].stage = "new" /\ call[c].table = NoTable
    BY DEF Init, Fresh
  <2>7. StandInv
    BY <2>6 DEF StandInv, StandsAt, Running
  <2>8. ReadsInv
    BY <2>6 DEF Init, NoTable, ReadsInv, EraInv, LoopInv, LoopAt, GenInv, GenAt, NewestInv, Running
  <2> QED BY <2>1, <2>2, <2>3, <2>4, <2>5, <2>7, <2>8, TypeParts DEF IInv
<1>2. IInv /\ [Next]_vars => IInv'
  BY TypesStep, SwapStep, StandStep, ReadsStep DEF IInv
<1> QED BY <1>1, <1>2, PTL DEF Spec

(* Every local a handler of an owned tool keeps over its awaits, and what  *)
(* the session keeps between them, has its type: no loop of any number     *)
(* takes more than max_steps acts (bridge.ts handleAchieve).               *)
THEOREM OwnedTypes == Spec => []TypeOK
<1>1. IInv => TypeOK
  BY DEF IInv
<1> QED BY <1>1, Inductive, PTL

\* A handler's call goes on to the stage it names, or is answered.
LEMMA GoesTo ==
  ASSUME CallOK, NEW c \in Calls
  PROVE  /\ Answer(c) => call'[c].stage = "answered"
         /\ \A now : Keep(c, now) => call'[c] = now
BY DEF CallOK, Answer, Keep, Settled, Fresh

(* chikin_act begins on the newest table the client was given, and on one  *)
(* read after every input the gateway gave that page since (bridge.ts      *)
(* handleAct, replyAchieve): for every number of calls of the three tools, *)
(* of swaps of the child and of replaced containers, outside a swap.       *)
THEOREM ActsOnNewest == Spec => ActsOnNewestAtRest
<1>1. ASSUME IInv, [Next]_vars, NEW c \in Calls, BeginsAct(c), swap = "none", ~closed[Me]
      PROVE  RestsOnNewest(c)
  <2>0. CallOK /\ call[c] \in CallRec
    BY <1>1, TypeParts DEF IInv, CallOK
  <2>1. Handlers(c)
    <3>1. ASSUME NEW d \in Calls, Handlers(d), d # c PROVE FALSE
      BY <1>1, <3>1, HandlerMoves DEF BeginsAct, IInv
    <3>2. CASE \E d \in Calls, k \in Kinds : Arrive(d, k)
      BY <1>1, <2>0, <3>2 DEF Arrive, CallOK, BeginsAct, Settled, Fresh
    <3>3. CASE (\E d \in Calls : Cancel(d)) \/ \E s \in Sessions : Close(s)
      BY <1>1, <2>0, <3>3 DEF Cancel, Close, CallOK, CallRec, BeginsAct
    <3>4. CASE \/ Move \/ Replaced \/ SwapBegins \/ SwapTurns \/ StartChild \/ UNCHANGED vars
               \/ \E s \in Sessions, h \in Handles : Identify(s, h)
      BY <1>1, <3>4
      DEF Move, Replaced, SwapBegins, SwapTurns, StartChild, Identify, vars, ownVars, BeginsAct
    <3> QED BY <1>1, <3>1, <3>2, <3>3, <3>4 DEF Next
  <2>2. Start(c)
    BY <1>1, <2>1 DEF BeginsAct, Handlers, ReadDone, ReadFails, Input, ActEnds, ActThrows, Loop
  <2>3. BeginAct(c)
    <3>1. CASE BeginRead(c)
      BY <1>1, <2>0, <3>1, GoesTo DEF BeginsAct, BeginRead, CallRec
    <3>2. CASE Decline(c)
      BY <1>1, <2>0, <3>2, GoesTo DEF BeginsAct, Decline
    <3> QED BY <2>2, <3>1, <3>2 DEF Start
  <2>4. lastRead.table # NoTable /\ call'[c].table = lastRead.table
        /\ UNCHANGED <<told, era, inputs>>
    BY <2>0, <2>2, <2>3 DEF Start, BeginAct, Keep, CallOK, CallRec, browserVars
  <2>5. ~ \E d \in Calls : HasActed(d)
    BY <1>1, <2>1, OneRuns DEF IInv, BeginsAct, HasActed
  <2> QED BY <1>1, <2>4, <2>5 DEF IInv, ReadsInv, NewestInv, RestsOnNewest, Current
<1>2. IInv /\ [Next]_vars =>
        [\A c \in Calls : BeginsAct(c) /\ swap = "none" /\ ~closed[Me] => RestsOnNewest(c)]_vars
  BY <1>1
<1> QED BY <1>2, Inductive, PTL DEF Spec, ActsOnNewestAtRest
=============================================================================
