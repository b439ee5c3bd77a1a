------------------------------- MODULE Owned --------------------------------
(***************************************************************************)
(* The tools the gateway answers itself (bridge.ts: chikin_snapshot,       *)
(* chikin_act, chikin_achieve): one queue per session, the read the next   *)
(* ids refer to (lastRead), and how both meet navigations and selections   *)
(* of the client, swaps of the child, a replaced container, a cancelled    *)
(* loop and the end of the session.  A handler is a sequence of steps cut  *)
(* at its awaits; the locals it keeps over them are in its call record.    *)
(*                                                                         *)
(* A page is the number of the gateway's inputs it has had, and a table    *)
(* says of which page it is and at which number.  No page is closed here.  *)
(* What the loop decides and how an act checks its row is in Achieve.      *)
(***************************************************************************)
EXTENDS Integers, Sequences, Identity

CONSTANTS
    Me,          \* the session whose owned calls are followed
    MaxCalls,    \* bound: owned calls, their ids taken in order
    Kinds,       \* which of the three tools the calls are
    Tabs,        \* pages of its browser
    MaxSteps,    \* bound: max_steps of a loop
    MaxMoves,    \* bound: navigations and selections of the client
    MaxSwaps,    \* bound: children swapped
    MaxLosses    \* bound: containers replaced

ASSUME OwnedBounds ==
    /\ Me \in Sessions /\ MaxCalls \in Nat /\ MaxSteps \in Nat /\ MaxMoves \in Nat
    /\ MaxSwaps \in Nat /\ MaxLosses \in Nat
    /\ Kinds \subseteq {"snapshot", "act", "achieve"}

Calls == 1 .. MaxCalls

VARIABLES
    chain,       \* ownedChain: the calls queued, the running one first
    call,        \* per call: its tool, where its handler is, its locals
    lastRead,    \* the read that row ids refer to, with the move it is good for
    moves,       \* navNewest.seq and selectionEpoch, both only ever counted up
    childGen,    \* childGen
    swap,        \* respawnChild: not running, closing the child, provisioning
    ip,          \* currentIp: which container's address the gateway holds
    \* --- outside the gateway ---
    era,         \* the container that exists
    inputs,      \* how many inputs the gateway gave each page
    told         \* the newest table the client was given

ownVars == <<chain, call, lastRead, moves, childGen, swap, ip, era, inputs, told>>
vars == <<idVars, ownVars>>

NoTable == [tab |-> None, era |-> 0, at |-> 0]
Tables == [tab : Tabs, era : 1 .. MaxLosses + 1, at : Nat] \cup {NoTable}

Fresh == [kind |-> "none", stage |-> "new", gen |-> 0, ip |-> 0,
          page |-> None, table |-> NoTable, turns |-> 0, stopped |-> FALSE]
Settled == [Fresh EXCEPT !.stage = "answered"]

Init ==
    /\ IdInit
    /\ chain = <<>>
    /\ call = [c \in Calls |-> Fresh]
    /\ lastRead = [table |-> NoTable, moves |-> 0]
    /\ moves = 0 /\ childGen = 1 /\ swap = "none" /\ ip = 1
    /\ era = 1
    /\ inputs = [t \in Tabs |-> 0]
    /\ told = NoTable

browserVars == <<era, inputs>>
childVars == <<moves, childGen, swap, ip>>

Read(t) == [tab |-> t, era |-> era, at |-> inputs[t]]

\* A read begun under an earlier child is dropped. The stamp is the counters'
\* value now, when the read has ended.
Remember(g, table) ==
    IF g = childGen THEN [table |-> table, moves |-> moves] ELSE lastRead

\* Slip: a read that is no longer good is kept.
KeepRead == lastRead

Forget == [table |-> NoTable, moves |-> 0]

\* replyTable: a closed session sends nothing.
Tell(table) == told' = IF closed[Me] THEN told ELSE table

\* Slip: what a handler throws ends the queue.
ThrowEndsQueue(c) ==
    /\ call' = [call EXCEPT ![c].stage = "threw"]
    /\ UNCHANGED chain

\* The handler returned, or threw and runOwned's catch answered: next in line.
Answer(c) ==
    /\ chain' = Tail(chain)
    /\ call' = [call EXCEPT ![c] = Settled]

\* runOwned's catch: answered like any other, and the queue goes on.
Caught(c) == Answer(c)

Keep(c, now) == call' = [call EXCEPT ![c] = now] /\ UNCHANGED chain

-----------------------------------------------------------------------------
\* The pump.

\* A tools/call of the gateway's own: refused until the session identified,
\* else queued. A loop is known by its id from here on (activeLoops).
Arrive(c, k) ==
    /\ ~closed[Me] /\ call[c].stage = "new"
    /\ \A d \in Calls : d < c => call[d].stage # "new"
    /\ IF Identified(Me)
       THEN /\ chain' = Append(chain, c)
            /\ call' = [call EXCEPT ![c].kind = k, ![c].stage = "queued"]
       ELSE /\ call' = [call EXCEPT ![c] = Settled]
            /\ UNCHANGED chain
    /\ UNCHANGED <<idVars, lastRead, childVars, browserVars, told>>

Active(c) == call[c].kind = "achieve"

\* notifications/cancelled, for a loop that is queued or running.
Cancel(c) ==
    /\ ~closed[Me] /\ Active(c) /\ ~call[c].stopped
    /\ call' = [call EXCEPT ![c].stopped = TRUE]
    /\ UNCHANGED <<idVars, chain, lastRead, childVars, browserVars, told>>

\* The client's navigations (counted at their reply) and selections.
Move ==
    /\ ~closed[Me] /\ swap = "none" /\ moves < MaxMoves
    /\ moves' = moves + 1
    /\ UNCHANGED <<idVars, chain, call, lastRead, childGen, swap, ip, browserVars, told>>

Identify(s, h) == ClaimHandle(s, h) /\ UNCHANGED ownVars

\* The close of a session stops its loops; what is queued runs on.
Close(s) ==
    /\ CloseSession(s)
    /\ call' = IF s = Me THEN [c \in Calls |-> [call[c] EXCEPT !.stopped = Active(c)]]
               ELSE call
    /\ UNCHANGED <<chain, lastRead, childVars, browserVars, told>>

-----------------------------------------------------------------------------
\* Handlers. Only the first of the queue runs.

Runs(c) == chain # <<>> /\ Head(chain) = c

StepsLeft(c) == call[c].turns < MaxSteps

\* The tab last read, while neither the client nor the child moved since.
Ours == IF lastRead.table # NoTable /\ lastRead.moves = moves
        THEN lastRead.table.tab ELSE None

BeginRead(c) ==
    /\ call[c].kind \in {"snapshot", "achieve"} /\ ~call[c].stopped
    /\ \E p \in {Ours, None} :   \* chikin_snapshot may name a url instead
          /\ call[c].kind = "achieve" => p = Ours
          /\ Keep(c, [call[c] EXCEPT !.stage = "reading", !.gen = childGen,
                                     !.ip = ip, !.page = p])
    /\ UNCHANGED <<lastRead, told>>

\* A row of the last read, looked up in what the gateway stored.
BeginAct(c) ==
    /\ call[c].kind = "act" /\ lastRead.table # NoTable
    /\ Keep(c, [call[c] EXCEPT !.stage = "acting", !.gen = childGen, !.ip = ip,
                               !.page = lastRead.table.tab, !.table = lastRead.table])
    /\ UNCHANGED <<lastRead, told>>

\* Bad arguments, no such row, nothing read yet, no decider; or a loop that
\* was cancelled while it waited.
Decline(c) == Answer(c) /\ UNCHANGED <<lastRead, told>>

Start(c) ==
    /\ Runs(c) /\ call[c].stage = "queued"
    /\ BeginRead(c) \/ BeginAct(c) \/ Decline(c)
    /\ UNCHANGED <<idVars, childVars, browserVars>>

\* listPages and the socket answer only at the container's own address.
Reaches(c) == call[c].ip = era

\* takeSnapshot: the page it was given, else the one chosen. The last reply
\* and the code after it are one turn of the event loop.
ReadDone(c) ==
    /\ Runs(c) /\ call[c].stage = "reading" /\ Reaches(c)
    /\ \E t \in IF call[c].page # None THEN {call[c].page} ELSE Tabs :
          \/ /\ call[c].kind = "snapshot"
             /\ lastRead' = Remember(call[c].gen, Read(t))
             /\ Tell(Read(t))
             /\ Answer(c)
          \/ /\ call[c].kind = "achieve"
             /\ IF call[c].stopped THEN Answer(c)
                ELSE Keep(c, [call[c] EXCEPT !.stage = "deciding", !.page = t, !.table = Read(t)])
             /\ UNCHANGED <<lastRead, told>>
    /\ UNCHANGED <<idVars, childVars, browserVars>>

\* No page or too many, a page that moved under the read, a dead socket.
ReadFails(c) ==
    /\ Runs(c) /\ call[c].stage = "reading"
    /\ Caught(c)
    /\ UNCHANGED <<idVars, lastRead, childVars, browserVars, told>>

\* The input reaches the page.
Input(c) ==
    /\ Runs(c) /\ call[c].stage = "acting" /\ Reaches(c) /\ call[c].table.era = era
    /\ inputs' = [inputs EXCEPT ![call[c].page] = @ + 1]
    /\ Keep(c, [call[c] EXCEPT !.stage = "sent"])
    /\ UNCHANGED <<idVars, lastRead, childVars, era, told>>

\* What act() leaves: the page read afterwards, or nothing. The refusals and
\* a page gone end the same way without an input.
Observed(c) == {NoTable} \cup (IF Reaches(c) THEN {Read(call[c].page)} ELSE {})

\* handleAct: a table that could be read is remembered and answered with; one
\* that could not leaves nothing the old ids could stand for.
ActReplies(c, table) ==
    /\ IF table # NoTable
       THEN /\ lastRead' = Remember(call[c].gen, table)
            /\ Tell(table)
       ELSE /\ lastRead' = Forget
            /\ UNCHANGED told
    /\ Answer(c)

\* replyAchieve: likewise, but only what this loop's own page rests on.
AchieveReplies(c, table) ==
    /\ IF table # NoTable /\ call[c].gen = childGen
       THEN /\ lastRead' = Remember(call[c].gen, table)
            /\ Tell(table)
       ELSE /\ lastRead' = IF lastRead.table.tab = call[c].page THEN Forget ELSE lastRead
            /\ UNCHANGED told
    /\ Answer(c)

\* The act is over: refused or gone before any input, or done.
ActEnds(c) ==
    /\ Runs(c) /\ call[c].stage \in {"acting", "sent"}
    /\ \E table \in Observed(c) :
          IF call[c].kind = "act" THEN ActReplies(c, table)
          ELSE /\ Keep(c, [call[c] EXCEPT !.stage = "deciding", !.table = table])
               /\ UNCHANGED <<lastRead, told>>
    /\ UNCHANGED <<idVars, childVars, browserVars>>

\* A failure before the input that is not a page gone: runOwned's catch.
ActThrows(c) ==
    /\ Runs(c) /\ call[c].stage = "acting" /\ call[c].kind = "act"
    /\ Caught(c)
    /\ UNCHANGED <<idVars, lastRead, childVars, browserVars, told>>

\* runLoop's check between steps and before each act.
Interrupted(c) == call[c].stopped \/ closed[Me] \/ call[c].gen # childGen

\* The loop reads again what an act left unread.
LoopReads(c) ==
    /\ call[c].table = NoTable /\ ~Interrupted(c) /\ Reaches(c)
    /\ Keep(c, [call[c] EXCEPT !.table = Read(call[c].page)])
    /\ UNCHANGED <<lastRead, told>>

\* The decision has come back, and the row it names is done.
LoopActs(c) ==
    /\ call[c].table # NoTable /\ ~Interrupted(c) /\ StepsLeft(c)
    /\ Keep(c, [call[c] EXCEPT !.stage = "acting", !.turns = @ + 1])
    /\ UNCHANGED <<lastRead, told>>

\* Any stop: a status of the model's, a budget, an interruption; or an error,
\* which leaves handleAchieve without the table it would answer with.
LoopEnds(c) == \E table \in {call[c].table, NoTable} : AchieveReplies(c, table)

Loop(c) ==
    /\ Runs(c) /\ call[c].stage = "deciding"
    /\ LoopReads(c) \/ LoopActs(c) \/ LoopEnds(c)
    /\ UNCHANGED <<idVars, childVars, browserVars>>

-----------------------------------------------------------------------------
\* The child and the browser.

\* respawnChild: the child is closed first, ...
SwapBegins ==
    /\ ~closed[Me] /\ swap = "none" /\ childGen <= MaxSwaps
    /\ swap' = "closing"
    /\ UNCHANGED <<idVars, chain, call, lastRead, moves, childGen, ip, browserVars, told>>

\* ... then the new generation begins, and the container is provided; ...
SwapTurns ==
    /\ swap = "closing"
    /\ IF closed[Me] THEN swap' = "none" /\ UNCHANGED childGen
       ELSE swap' = "provisioning" /\ childGen' = childGen + 1
    /\ UNCHANGED <<idVars, chain, call, lastRead, moves, ip, browserVars, told>>

\* ... then startChild takes the address and forgets the read.
StartChild ==
    /\ swap = "provisioning"
    /\ swap' = "none"
    /\ ip' = era
    /\ lastRead' = Forget
    /\ UNCHANGED <<idVars, chain, call, moves, childGen, browserVars, told>>

\* The container is replaced: chikin_reset, or it died and was made again.
Replaced ==
    /\ era <= MaxLosses
    /\ era' = era + 1
    /\ inputs' = [t \in Tabs |-> 0]
    /\ UNCHANGED <<idVars, chain, call, lastRead, childVars, told>>

-----------------------------------------------------------------------------

Handlers(c) ==
    Start(c) \/ ReadDone(c) \/ ReadFails(c) \/ Input(c) \/ ActEnds(c) \/ ActThrows(c) \/ Loop(c)

Next ==
    \/ \E c \in Calls, k \in Kinds : Arrive(c, k)
    \/ \E c \in Calls : Cancel(c) \/ Handlers(c)
    \/ Move
    \/ \E s \in Sessions, h \in Handles : Identify(s, h)
    \/ \E s \in Sessions : Close(s)
    \/ SwapBegins \/ SwapTurns \/ StartChild \/ Replaced

Spec == Init /\ [][Next]_vars

\* Every await of a handler has a deadline: 2 s for /json/list, 25 s and 5 s
\* for the reads, 5 s for an input, the decider's own for a decision.
FairSpec == Spec /\ \A c \in Calls : WF_vars(Handlers(c))

-----------------------------------------------------------------------------

(* No loop takes more than max_steps acts, and every handler stands at an  *)
(* await of handleSnapshot, handleAct or handleAchieve (bridge.ts).        *)
TypeOK ==
    /\ IdTypeOK
    /\ chain \in Seq(Calls)
    /\ call \in [Calls ->
          [kind : {"none", "snapshot", "act", "achieve"},
           stage : {"new", "queued", "reading", "deciding", "acting", "sent", "answered"},
           gen : 0 .. MaxSwaps + 1, ip : 0 .. MaxLosses + 1, page : Tabs \cup {None},
           table : Tables, turns : 0 .. MaxSteps, stopped : BOOLEAN]]
    /\ lastRead \in [table : Tables, moves : 0 .. MaxMoves]
    /\ moves \in 0 .. MaxMoves /\ childGen \in 1 .. MaxSwaps + 1
    /\ swap \in {"none", "closing", "provisioning"}
    /\ ip \in 1 .. MaxLosses + 1 /\ era \in 1 .. MaxLosses + 1
    /\ inputs \in [Tabs -> Nat] /\ told \in Tables

BeginsAct(c) == call[c].stage = "queued" /\ call'[c].stage = "acting"

\* The act rests on the newest table the client has, and on one that was read
\* after every input the gateway gave that page.
RestsOnNewest(c) ==
    /\ call'[c].table = told
    /\ told.era = era => told.at = inputs[told.tab]

(* chikin_act executes a row of the most recent table (bridge.ts           *)
(* handleAct), whichever calls, swaps and lost reads came before: ids are  *)
(* renumbered on every read, so a row looked up in an older table is       *)
(* another element.  While a child is being swapped this does not hold     *)
(* (README, section 6), hence the second premise.                          *)
ActsOnNewestAtRest ==
    [][\A c \in Calls : BeginsAct(c) /\ swap = "none" /\ ~closed[Me]
          => RestsOnNewest(c)]_vars

(* Every call queued by runOwned (bridge.ts) is settled, whatever the ones     *)
(* before it in the queue ran into.                                        *)
EveryCallSettles ==
    \A c \in Calls : call[c].stage = "queued" ~> call[c].stage = "answered"

=============================================================================
