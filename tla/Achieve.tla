------------------------------ MODULE Achieve -------------------------------
(***************************************************************************)
(* One chikin_achieve loop on its page: runLoop (loop/achieve.ts), the     *)
(* deciders it asks (loop/decider.ts, loop/jev.ts) and the guarded act     *)
(* each row is done with (snapshot/act.ts).  The module cuts them at their *)
(* awaits; the page may change, be navigated or go away at each of them,   *)
(* and the loop may be told to stop.                                       *)
(*                                                                         *)
(* A page is a document (numbered as it is loaded), the origin it is on    *)
(* and the rows it shows.  Row ids are positions in the rows that were     *)
(* read, renumbered on every read, as the snapshot script does it.         *)
(***************************************************************************)
EXTENDS Integers, Sequences, FiniteSets

CONSTANTS
    Tables,           \* what the page may show: sequences of rows
    Origins,          \* where it may be
    Allowed,          \* allowed_origins
    MayCommit,        \* allow_consequential
    Escalating,       \* Jev backed by a generative model, or that one alone
    MaxSteps,         \* max_steps
    MaxLoads,         \* bound: documents loaded
    DONE, BLOCKED,    \* the answers that are not rows,
    unknown,          \* and one that is no answer
    NoState           \* the page could not be read

ASSUME AchieveAssumption ==
    /\ Allowed \subseteq Origins /\ {MayCommit, Escalating} \subseteq BOOLEAN
    /\ MaxSteps \in Nat \ {0} /\ MaxLoads \in Nat \ {0}
    /\ NoState \notin [load : Nat, origin : Origins, rows : Tables]
    /\ \A T \in Tables : \A i \in DOMAIN T :
          T[i].kind \in {"click", "fill", "select", "scroll", "wait"}

VARIABLES
    pc,        \* the await the loop is at
    step,      \* the step it is on
    state,     \* the read it decides on
    asked,     \* the first decider's pick, while the second is asked
    act,       \* the act on its way
    tally,     \* what the stop rules count
    status,    \* what the loop stopped with
    signal,    \* none; "restart": the browser was; "abort": cancelled, or the session closed
    page,      \* outside: the page,
    gone,      \* closed, or its browser replaced,
    inputs     \* and the inputs it has had since state was read

world == <<page, gone, signal>>
vars == <<pc, step, state, asked, act, tally, status, world, inputs>>

Nothing == [node |-> 0, kind |-> "none", option |-> 0]
NoPick == [choice |-> 0, text |-> FALSE, consequential |-> FALSE]
NoPage == [load |-> 0]

\* The row by its id and by what it was read to be, and why it is refused.
\* The rest is history: the picks a decider of this step called consequential,
\* and the page that passed the act's check.
NoAct == [id |-> 0, row |-> Nothing, why |-> "none",
          flagged |-> {}, checked |-> NoPage]

\* Answers that named no row; executed rows that left the page unchanged; the
\* last refusal, by row and reason, and how often it was the same.
NoTally == [invalid |-> 0, still |-> 0, refused |-> <<0, Nothing>>, why |-> "none", same |-> 0]

Rows == state.rows

\* What is read is the page as it is now, with all that was input in it.
ReadNow == ~gone /\ inputs' = 0

Init ==
    /\ page \in [load : {1}, origin : Origins, rows : Tables]
    /\ gone = FALSE /\ signal = "none"
    /\ pc = "top" /\ step = 1 /\ status = "running"
    /\ inputs = 0 /\ state = page
    /\ asked = NoPick /\ act = NoAct /\ tally = NoTally

-----------------------------------------------------------------------------
\* jev.ts: the rows as an indexed action space.

\* The options of one element are numbered as they come.
Option(rows, i) ==
    IF rows[i].kind # "select" THEN 0
    ELSE Cardinality({j \in 1 .. i : rows[j].kind = "select" /\ rows[j].node = rows[i].node})

\* The head and the index under which a row is offered; scroll and wait are
\* operations of their own.
Target(rows, i) ==
    IF rows[i].kind \in {"scroll", "wait"} THEN <<"control", rows[i].kind, rows[i].option>>
    ELSE <<rows[i].kind, rows[i].node, Option(rows, i)>>

Targets(rows) == {Target(rows, i) : i \in DOMAIN rows}

\* What an answer names: the row put there last.
RowAt(rows, target) ==
    CHOOSE i \in DOMAIN rows : /\ Target(rows, i) = target
                               /\ \A j \in DOMAIN rows : Target(rows, j) = target => j <= i

Verdicts(choices) == [choice : choices, text : {FALSE}, consequential : {FALSE}]

\* JevDecider.decide, once validateChoice has passed both heads: an operation
\* and a target on offer. A fill's text is quoted from the goal or written by
\* the helper, and may be missing; clicks and selects are asked about.
JevPicks(rows) ==
    Verdicts({DONE, BLOCKED}) \cup
    {p \in [choice : {RowAt(rows, t) : t \in Targets(rows)}, text : BOOLEAN, consequential : BOOLEAN] :
        /\ p.text => rows[p.choice].kind = "fill"
        /\ p.consequential => rows[p.choice].kind \in {"click", "select"}}

\* A generative model answers the schema, and that takes any string for an id.
GenerativePicks(rows) ==
    Verdicts({DONE, BLOCKED, unknown}) \cup
    {p \in [choice : DOMAIN rows, text : BOOLEAN, consequential : BOOLEAN] :
        p.text => rows[p.choice].kind = "fill"}

-----------------------------------------------------------------------------
\* runLoop: the stops, and the head of a step. The operators of this section
\* leave act and inputs to their callers.

Stop(s, left) ==
    /\ pc' = "ended" /\ status' = s /\ state' = left
    /\ asked' = NoPick /\ tally' = NoTally
    /\ UNCHANGED <<step, world>>

Goto(next) == pc' = next /\ UNCHANGED <<step, tally, status, world>>

\* On to the next step, with what is known of the page.
Turn(left, t) ==
    /\ pc' = "top" /\ step' = step + 1 /\ state' = left /\ tally' = t
    /\ asked' = NoPick
    /\ UNCHANGED <<status, world>>

Consider(read) ==
    IF read.origin \in Allowed
    THEN Goto("decide") /\ state' = read /\ UNCHANGED asked
    ELSE Stop("blocked", read)

OutOfBudget == step > MaxSteps

\* interrupted(): halted, or the signal aborted.
Interrupted == signal # "none"

\* deadlineMs may be over at any head, and is asked nowhere else.
StepBegins ==
    /\ pc = "top"
    /\ IF Interrupted THEN Stop("cancelled", state)
       ELSE \/ Stop("budget", state)
            \/ /\ ~OutOfBudget
               /\ IF state = NoState THEN Goto("read") /\ UNCHANGED <<state, asked>>
                  ELSE Consider(state)
    /\ UNCHANGED <<act, inputs>>

\* driver.read, after an act that left the page unread.
Reread ==
    /\ pc = "read"
    /\ (ReadNow /\ Consider(page)) \/ (UNCHANGED inputs /\ Stop("error", NoState))
    /\ UNCHANGED act

-----------------------------------------------------------------------------
\* The decision, and what the loop does with it.

\* An answer that names no row is given one more chance.
Unknown ==
    IF tally.invalid = 1 THEN Stop("error", state)
    ELSE Turn(state, [tally EXCEPT !.invalid = 1, !.same = 0])

\* The checks between a pick and its act, in their order.
Unfinished(p) == Rows[p.choice].kind = "fill" /\ ~p.text
Uncommitted(p) == p.consequential /\ ~MayCommit

Begin(p, flagged) ==
    /\ pc' = "connect"
    /\ act' = [NoAct EXCEPT !.id = p.choice, !.row = Rows[p.choice],
                            !.flagged = flagged]
    /\ tally' = [tally EXCEPT !.invalid = 0]
    /\ asked' = NoPick
    /\ UNCHANGED <<step, state, status, world>>

\* Slip: the loop looks at its signal at the head of a step only.
JudgeAnyway(p, flagged) ==
    IF p.choice \in DOMAIN Rows /\ ~Unfinished(p) /\ ~Uncommitted(p) THEN Begin(p, flagged)
    ELSE Stop("blocked", state) /\ UNCHANGED act

Judge(p, flagged) ==
    \/ p.choice = DONE /\ Stop("done", state) /\ UNCHANGED act
    \/ p.choice = BLOCKED /\ Stop("blocked", state) /\ UNCHANGED act
    \/ p.choice = unknown /\ Unknown /\ UNCHANGED act
    \/ /\ p.choice \in DOMAIN Rows
       /\ IF Unfinished(p) THEN Stop("blocked", state) /\ UNCHANGED act
          ELSE IF Uncommitted(p) THEN Stop("needs_confirmation", state) /\ UNCHANGED act
          ELSE IF Interrupted THEN Stop("cancelled", state) /\ UNCHANGED act
          ELSE Begin(p, flagged)

Flags(p) == IF p.consequential THEN {p.choice} ELSE {}

\* A pick of the first decider, when it is sure enough or the only one.
FirstPicks ==
    /\ pc = "decide"
    /\ \E p \in IF Escalating THEN JevPicks(Rows) ELSE GenerativePicks(Rows) :
          \/ Judge(p, Flags(p))
          \/ /\ Escalating
             /\ Goto("escalate") /\ asked' = p
             /\ UNCHANGED <<state, act>>
    /\ UNCHANGED inputs

\* Slip: what the second decider thinks of the first one's pick is all.
SecondWins(d, f) == f

\* EscalatingDecider: a row both picked is consequential if either says so.
Merge(d, f) ==
    [f EXCEPT !.consequential = f.consequential \/ (f.choice = d.choice /\ d.consequential)]

SecondPicks ==
    /\ pc = "escalate"
    /\ \E f \in GenerativePicks(Rows) :
          Judge(Merge(asked, f), Flags(asked) \cup Flags(f))
    /\ UNCHANGED inputs

\* The second one's failure, unless it is an abort, leaves the first one's pick.
SecondFails ==
    /\ pc = "escalate" /\ signal # "abort"
    /\ Judge(asked, Flags(asked))
    /\ UNCHANGED inputs

\* A decider that fails (after its one retry), declines or is aborted. An
\* answer that fails validation is a failure. What is neither is thrown on,
\* and ends the loop with what handleAchieve knows.
DeciderFails ==
    /\ pc \in {"decide", "escalate"}
    /\ \/ Interrupted /\ Stop("cancelled", state)
       \/ ~Interrupted /\ Stop("blocked", state)
       \/ ~Interrupted /\ pc = "decide" /\ Stop("error", state)
       \/ ~Interrupted /\ Stop("error", NoState)
    /\ UNCHANGED <<act, inputs>>

-----------------------------------------------------------------------------
\* act(): connect, check, input, settle, observe.

\* Thrown: nothing was input, and the loop ends.
ActFails == Stop("failed", NoState) /\ UNCHANGED <<act, inputs>>

\* The same, but an input is on its way: done, and perhaps not completed.
Unconfirmed == Stop("unconfirmed", NoState) /\ UNCHANGED act

Refuse(reason) ==
    /\ Goto("refusing") /\ act' = [act EXCEPT !.why = reason]
    /\ UNCHANGED <<state, asked>>

Proceed(next) == Goto(next) /\ UNCHANGED <<state, asked, act>>

\* The input takes effect; what it does to the page is the page's to do.
Lands == ~gone /\ inputs' = inputs + 1
MayLand == Lands \/ UNCHANGED inputs

Connect ==
    /\ pc = "connect"
    /\ \/ ~gone /\ Proceed("check") /\ UNCHANGED inputs
       \/ ActFails

\* Slip: a row is known by its id.
SameId == page.load = state.load /\ act.id \in DOMAIN page.rows

\* isFresh. A click or a select needs the document and the row to be what they
\* were; anything else needs the whole page to be.
IsFresh ==
    IF act.row.kind \in {"click", "select"}
    THEN page.load = state.load /\ \E i \in DOMAIN page.rows : page.rows[i] = act.row
    ELSE page = state

FirstInput == IF act.row.kind \in {"scroll", "wait"} THEN act.row.kind ELSE "target"

\* The guard holds more than the rows do, so a changed page may fail it too.
Check ==
    /\ pc = "check"
    /\ \/ /\ ~gone /\ IsFresh
          /\ Goto(FirstInput)
          /\ act' = [act EXCEPT !.checked = page]
          /\ UNCHANGED <<state, asked, inputs>>
       \/ ~gone /\ page # state /\ Refuse("changed") /\ UNCHANGED inputs
       \/ ActFails

\* Slip: a wait row waits until the page has changed.
WaitForChange ==
    /\ pc = "wait" /\ (gone \/ page # state)
    /\ Proceed("observe") /\ UNCHANGED inputs

Wait ==
    /\ pc = "wait"
    /\ Proceed("observe") /\ UNCHANGED inputs

\* targetJs: the observed node, in the document it was observed in. A select
\* is applied in there, so that losing the answer loses whether it was.
Found == page.load = state.load /\ \E i \in DOMAIN page.rows : page.rows[i].node = act.row.node

\* Slip: a select has sent nothing until its answer is here.
SelectLost ==
    /\ IF act.row.kind = "select" THEN MayLand ELSE UNCHANGED inputs
    /\ Stop("failed", NoState) /\ UNCHANGED act

TargetLost ==
    IF act.row.kind = "select" THEN MayLand /\ Refuse("interrupted") ELSE ActFails

Resolve ==
    /\ pc = "target"
    /\ \/ /\ ~gone /\ Found
          /\ IF act.row.kind = "select" THEN Lands /\ Proceed("observe")
             ELSE UNCHANGED inputs /\ Proceed("press")
       \/ ~gone /\ Refuse("covered") /\ UNCHANGED inputs
       \/ act.row.kind # "select" /\ ~gone /\ Refuse("torn") /\ UNCHANGED inputs
       \/ TargetLost

\* One Input command after the other; none looks at the page again.
Following == CASE pc = "press" -> "release"
               [] pc = "release" /\ act.row.kind = "fill" -> "type"
               [] OTHER -> "observe"

Input ==
    /\ pc \in {"scroll", "press", "release", "type"}
    /\ \/ Lands /\ Proceed(Following)
       \/ MayLand /\ Unconfirmed

Executed(left) ==
    LET unchanged == left # NoState /\ left = state /\ act.row.kind # "wait"
        still == IF unchanged THEN tally.still + 1 ELSE 0
    IN /\ IF still = 3 THEN Stop("stalled", left)
          ELSE Turn(left, [tally EXCEPT !.still = still, !.same = 0])
       /\ act' = NoAct

\* Slip: a page that cannot be read is taken to be as it was.
ObserveOrKeep ==
    /\ pc = "observe"
    /\ (ReadNow /\ Executed(page)) \/ (UNCHANGED inputs /\ Executed(state))

\* What was input stays done, whether or not the page can be read.
Observe ==
    /\ pc = "observe"
    /\ (ReadNow /\ Executed(page)) \/ (UNCHANGED inputs /\ Executed(NoState))

Again == tally.same > 0 /\ tally.refused = <<act.id, act.row>> /\ tally.why = act.why

Refused(left) ==
    LET same == IF Again THEN tally.same + 1 ELSE 1
    IN /\ IF same = 3 THEN Stop("blocked", left)
          ELSE Turn(left, [tally EXCEPT !.refused = <<act.id, act.row>>, !.why = act.why, !.same = same])
       /\ act' = NoAct

ReadRefused ==
    /\ pc = "refusing"
    /\ (ReadNow /\ Refused(page)) \/ (UNCHANGED inputs /\ Refused(NoState))

-----------------------------------------------------------------------------
\* Around the loop.

loopVars == <<pc, step, state, asked, act, tally, status, inputs>>

StopSignal ==
    /\ \/ signal = "none" /\ signal' \in {"restart", "abort"}
       \/ signal = "restart" /\ signal' = "abort"
    /\ UNCHANGED <<loopVars, page, gone>>
PageGoes == ~gone /\ gone' = TRUE /\ UNCHANGED <<loopVars, page, signal>>

\* By itself, by an input, or by the hand of the session's own child.
PageChanges ==
    /\ ~gone
    /\ \E rows \in Tables : page' = [page EXCEPT !.rows = rows]
    /\ UNCHANGED <<loopVars, gone, signal>>

PageLoads ==
    /\ ~gone /\ page.load < MaxLoads
    /\ \E rows \in Tables, o \in Origins :
          page' = [load |-> page.load + 1, origin |-> o, rows |-> rows]
    /\ UNCHANGED <<loopVars, gone, signal>>

Loop == \/ StepBegins \/ Reread \/ FirstPicks \/ SecondPicks \/ SecondFails \/ DeciderFails
        \/ Connect \/ Check \/ Wait \/ Resolve \/ Input \/ Observe \/ ReadRefused

Next == Loop \/ (pc # "ended" /\ (StopSignal \/ PageGoes \/ PageChanges \/ PageLoads))

Spec == Init /\ [][Next]_vars

\* Every await has a deadline: 15 s and 10 s a model call, 5 s a socket and an
\* input, 2 s the settling and a wait, 3 s and 25 s the reads.
FairSpec == Spec /\ WF_vars(Loop)

-----------------------------------------------------------------------------

Pages == [load : 1 .. MaxLoads, origin : Origins, rows : Tables]

(* runLoop is at one of its awaits, holds a read wherever it needs one, and *)
(* ends before a tally reaches its limit (loop/achieve.ts).                 *)
TypeOK ==
    /\ pc \in {"top", "read", "decide", "escalate", "connect", "check", "wait", "scroll",
              "target", "press", "release", "type", "observe", "refusing", "ended"}
    /\ step \in 1 .. MaxSteps + 1
    /\ state \in Pages \cup {NoState}
    /\ pc \notin {"top", "read", "ended"} => state # NoState
    /\ tally.still \in 0 .. 2 /\ tally.same \in 0 .. 2 /\ tally.invalid \in 0 .. 1
    /\ status \in {"running", "done", "blocked", "needs_confirmation", "budget", "stalled",
                   "cancelled", "error", "failed", "unconfirmed"}
    /\ page \in Pages
    /\ gone \in BOOLEAN /\ signal \in {"none", "restart", "abort"} /\ inputs \in Nat

(* Whatever the loop decides on, acts on or returns was read after every   *)
(* input of its own (achieve.ts: an input that landed is never retried,    *)
(* even when the read after it fails): no row of a page is done that the   *)
(* step before may have done already, select lost in mid-answer included.  *)
FreshEyes ==
    pc \in {"top", "decide", "escalate", "connect", "check", "ended"} /\ state # NoState
        => inputs = 0

(* A row reported as refused, or as failed with "Nothing was input for     *)
(* that step", was not input (act.ts): only an interrupted select and an   *)
(* unconfirmed input leave it open.                                        *)
NothingWasInput ==
    (status = "failed" \/ (pc = "refusing" /\ act.why # "interrupted")) => inputs = 0

(* An input is under way only against a page that, when it was checked,    *)
(* was the document that was read and decided on, on an allowed origin and *)
(* with that very row - not with another row that has taken its id.        *)
AimedAtWhatWasRead ==
    pc \in {"scroll", "target", "press", "release", "type"} =>
        /\ act.checked.load = state.load
        /\ act.checked.origin \in Allowed
        /\ \E i \in DOMAIN act.checked.rows : act.checked.rows[i] = act.row

(* No row is begun that a decider which picked it called consequential,    *)
(* unless the caller allowed it (decider.ts EscalatingDecider, achieve.ts):*)
(* handing the step to a second model never launders the first one's flag. *)
ConsequentialAsked ==
    pc = "connect" => MayCommit \/ act.id \notin act.flagged

(* A loop that was told to stop - at a head, in a read, while either       *)
(* decider is out, or when the act on its way is over - begins no further  *)
(* act, ever (achieve.ts interrupted, asked again between the pick and the *)
(* act): the user who cancels sees at most the step he interrupted done.   *)
InAct == pc \in {"connect", "check", "wait", "scroll", "target", "press", "release", "type"}
StopIsFinal == [](Interrupted /\ ~InAct => []~InAct)

(* The loop (runLoop) ends: by itself, by a budget, or because it is told to.        *)
LoopEnds == <>(pc = "ended")

=============================================================================
