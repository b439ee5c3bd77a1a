---------------------------- MODULE AchieveProofs ---------------------------
(***************************************************************************)
(* What holds of a chikin_achieve loop for all pages, origins, deciders'   *)
(* answers and budgets.                                                    *)
(***************************************************************************)
EXTENDS Achieve, TLAPS

-----------------------------------------------------------------------------
(* What an answer leads to.                                                *)

Warned(t) == [t EXCEPT !.invalid = 1, !.same = 0]
Heard(t) == [t EXCEPT !.invalid = 0]
Seen(t, n) == [t EXCEPT !.still = n, !.same = 0]
Turned(t, r, w, n) == [t EXCEPT !.refused = r, !.why = w, !.same = n]

Begun(i, r, f) == [NoAct EXCEPT !.id = i, !.row = r, !.flagged = f]
WithWhy(a, w) == [a EXCEPT !.why = w]
Passed(a, c) == [a EXCEPT !.checked = c]

LEMMA Judged ==
  ASSUME NEW p, NEW flagged, Judge(p, flagged)
  PROVE  /\ UNCHANGED world /\ state' = state
         /\ \/ /\ pc' = "ended" /\ act' = act /\ tally' = NoTally /\ step' = step
               /\ status' \in {"done", "blocked", "needs_confirmation", "cancelled", "error"}
            \/ /\ pc' = "top" /\ act' = act /\ step' = step + 1 /\ status' = status
               /\ tally' = Warned(tally)
            \/ /\ pc' = "connect" /\ step' = step /\ status' = status
               /\ p.choice \in DOMAIN Rows /\ ~Uncommitted(p) /\ ~Interrupted
               /\ act' = Begun(p.choice, Rows[p.choice], flagged) /\ tally' = Heard(tally)
<1>1. CASE p.choice = DONE /\ Stop("done", state) /\ UNCHANGED act
  BY <1>1 DEF Stop
<1>2. CASE p.choice = BLOCKED /\ Stop("blocked", state) /\ UNCHANGED act
  BY <1>2 DEF Stop
<1>3. CASE p.choice = unknown /\ Unknown /\ UNCHANGED act
  BY <1>3 DEF Unknown, Stop, Turn, Warned
<1>4. CASE /\ p.choice \in DOMAIN Rows
           /\ \/ Stop("blocked", state) /\ UNCHANGED act
              \/ Stop("needs_confirmation", state) /\ UNCHANGED act
              \/ Stop("cancelled", state) /\ UNCHANGED act
              \/ ~Uncommitted(p) /\ ~Interrupted /\ Begin(p, flagged)
  BY <1>4 DEF Stop, Begin, Begun, Heard
<1> QED BY <1>1, <1>2, <1>3, <1>4 DEF Judge

\* The deciders' steps: an answer is judged, handed over or missing.
LEMMA Decided ==
  ASSUME FirstPicks \/ SecondPicks \/ SecondFails \/ DeciderFails
  PROVE  /\ pc \in {"decide", "escalate"} /\ inputs' = inputs
         /\ \/ \E p, flagged : Judge(p, flagged)
            \/ /\ pc' = "escalate" /\ UNCHANGED <<step, state, act, tally, status, world>>
            \/ /\ pc' = "ended" /\ act' = act /\ tally' = NoTally /\ step' = step
               /\ status' \in {"blocked", "cancelled", "error"} /\ state' \in {state, NoState}
               /\ UNCHANGED world
<1>1. CASE FirstPicks
  BY <1>1 DEF FirstPicks, Goto
<1>2. CASE SecondPicks \/ SecondFails
  BY <1>2 DEF SecondPicks, SecondFails
<1>3. CASE DeciderFails
  BY <1>3 DEF DeciderFails, Stop
<1> QED BY <1>1, <1>2, <1>3

\* The loop's own head.
LEMMA Headed ==
  ASSUME StepBegins \/ Reread
  PROVE  /\ UNCHANGED <<step, act, world>>
         /\ \/ /\ pc' = "decide" /\ UNCHANGED <<status, tally>>
               /\ state'.origin \in Allowed /\ (pc = "top" => ~OutOfBudget)
               /\ \/ pc = "top" /\ state' = state /\ state # NoState /\ inputs' = inputs
                  \/ pc = "read" /\ state' = page /\ inputs' = 0
            \/ /\ pc = "top" /\ pc' = "read" /\ ~OutOfBudget
               /\ UNCHANGED <<state, status, tally, inputs>>
            \/ /\ pc \in {"top", "read"} /\ pc' = "ended" /\ tally' = NoTally
               /\ status' \in {"blocked", "cancelled", "budget", "error"}
               /\ \/ pc = "top" /\ state' = state /\ inputs' = inputs
                  \/ pc = "read" /\ state' = page /\ inputs' = 0
                  \/ pc = "read" /\ state' = NoState /\ inputs' = inputs
<1>1. CASE StepBegins
  <2>1. CASE Interrupted \/ Stop("budget", state)
    BY <1>1, <2>1 DEF StepBegins, Stop
  <2>2. CASE ~OutOfBudget /\ ~Interrupted /\ state = NoState /\ Goto("read")
    BY <1>1, <2>2 DEF StepBegins, Stop, Goto
  <2>3. CASE ~OutOfBudget /\ ~Interrupted /\ state # NoState /\ Consider(state)
    BY <1>1, <2>3 DEF StepBegins, Stop, Goto, Consider
  <2> QED BY <1>1, <2>1, <2>2, <2>3 DEF StepBegins
<1>2. CASE Reread
  BY <1>2 DEF Reread, ReadNow, Stop, Goto, Consider
<1> QED BY <1>1, <1>2

-----------------------------------------------------------------------------
(* Types.                                                                  *)

HasFields(r, fields) == r = [x \in fields |-> r[x]]
ActFields == {"id", "row", "why", "flagged", "checked"}
TallyFields == {"invalid", "still", "refused", "why", "same"}

ActTyped(a) == HasFields(a, ActFields)
TallyTyped(t) ==
  /\ HasFields(t, TallyFields)
  /\ t.still \in 0 .. 2 /\ t.same \in 0 .. 2 /\ t.invalid \in 0 .. 1

ActOK == ActTyped(act)
TallyOK == TallyTyped(tally)

\* A loop past the head of a step has that step left.
StepOK == step \in 1 .. MaxSteps + 1 /\ (pc \notin {"top", "ended"} => step <= MaxSteps)

LEMMA FreshStarts == ActTyped(NoAct) /\ TallyTyped(NoTally)
BY DEF ActTyped, TallyTyped, HasFields, NoAct, NoTally, ActFields, TallyFields

\* The acts of a step, as they are begun, refused and checked.
LEMMA ActMoves ==
  /\ \A i, r, f : ActTyped(Begun(i, r, f)) /\ Begun(i, r, f).id = i /\ Begun(i, r, f).row = r
                 /\ Begun(i, r, f).flagged = f
  /\ \A a, w : ActTyped(a) => ActTyped(WithWhy(a, w)) /\ WithWhy(a, w).why = w
  /\ \A a, c : ActTyped(a) => /\ ActTyped(Passed(a, c)) /\ Passed(a, c).row = a.row
                              /\ Passed(a, c).checked = c
<1>1. ASSUME NEW i, NEW r, NEW f
      PROVE  /\ ActTyped(Begun(i, r, f)) /\ Begun(i, r, f).id = i /\ Begun(i, r, f).row = r
             /\ Begun(i, r, f).flagged = f
  BY FreshStarts DEF ActTyped, HasFields, ActFields, Begun
<1>2. ASSUME NEW a, ActTyped(a), NEW w
      PROVE  ActTyped(WithWhy(a, w)) /\ WithWhy(a, w).why = w
  BY <1>2 DEF ActTyped, HasFields, ActFields, WithWhy
<1>3. ASSUME NEW a, ActTyped(a), NEW c
      PROVE  ActTyped(Passed(a, c)) /\ Passed(a, c).row = a.row /\ Passed(a, c).checked = c
  BY <1>3 DEF ActTyped, HasFields, ActFields, Passed
<1> QED BY <1>1, <1>2, <1>3

\* What is counted stays within its limits while its next value does.
LEMMA TallyMoves ==
  ASSUME NEW t, TallyTyped(t)
  PROVE  /\ TallyTyped(Warned(t)) /\ TallyTyped(Heard(t))
         /\ \A n \in 0 .. 2 : TallyTyped(Seen(t, n))
         /\ \A r, w : \A n \in 0 .. 2 : TallyTyped(Turned(t, r, w, n))
<1>1. /\ HasFields(Warned(t), TallyFields)
      /\ Warned(t).still = t.still /\ Warned(t).same = 0 /\ Warned(t).invalid = 1
  BY DEF TallyTyped, HasFields, TallyFields, Warned
<1>2. /\ HasFields(Heard(t), TallyFields)
      /\ Heard(t).still = t.still /\ Heard(t).same = t.same /\ Heard(t).invalid = 0
  BY DEF TallyTyped, HasFields, TallyFields, Heard
<1>3. ASSUME NEW n
      PROVE  /\ HasFields(Seen(t, n), TallyFields)
             /\ Seen(t, n).still = n /\ Seen(t, n).same = 0 /\ Seen(t, n).invalid = t.invalid
  BY DEF TallyTyped, HasFields, TallyFields, Seen
<1>4. ASSUME NEW r, NEW w, NEW n
      PROVE  /\ HasFields(Turned(t, r, w, n), TallyFields)
             /\ Turned(t, r, w, n).still = t.still /\ Turned(t, r, w, n).same = n
             /\ Turned(t, r, w, n).invalid = t.invalid
  BY DEF TallyTyped, HasFields, TallyFields, Turned
<1> QED BY <1>1, <1>2, <1>3, <1>4 DEF TallyTyped

\* Rows keep their shape, and a tally that has reached its limit is not kept.
LEMMA TallyStep ==
  ASSUME ActOK, TallyOK, [Next]_vars
  PROVE  ActOK' /\ TallyOK'
<1> USE FreshStarts DEF ActOK, TallyOK
<1>1. CASE StepBegins \/ Reread
  BY <1>1, Headed
<1>2. CASE FirstPicks \/ SecondPicks \/ SecondFails \/ DeciderFails
  <2>1. ASSUME NEW p, NEW flagged, Judge(p, flagged) PROVE ActOK' /\ TallyOK'
    BY <2>1, Judged, TallyMoves, ActMoves
  <2> QED BY <1>2, <2>1, Decided
<1>3. CASE Connect \/ Check
  <2>1. /\ tally' \in {tally, NoTally}
        /\ \/ act' = act \/ act' = Passed(act, page) \/ act' = WithWhy(act, "changed")
    BY <1>3 DEF Connect, Check, Proceed, Goto, ActFails, Stop, Refuse, Passed, WithWhy
  <2> QED BY <2>1, ActMoves
<1>4. CASE Wait \/ Resolve \/ Input
  <2>1. /\ tally' \in {tally, NoTally}
        /\ \/ act' = act \/ \E w : act' = WithWhy(act, w)
    BY <1>4
    DEF Wait, Resolve, Input, Lands, MayLand, Unconfirmed, TargetLost, Proceed, Goto, ActFails,
        Stop, Refuse, WithWhy
  <2> QED BY <2>1, ActMoves
<1>5. CASE Observe
  <2>1. PICK left : Executed(left)
    BY <1>5 DEF Observe
  <2>2. tally.still \in 0 .. 2
    BY DEF TallyTyped
  <2>3. \/ tally' = NoTally \/ \E n \in 0 .. 2 : tally' = Seen(tally, n)
    <3> DEFINE unchanged == left # NoState /\ left = state /\ act.row.kind # "wait"
               still == IF unchanged THEN tally.still + 1 ELSE 0
    <3>1. still = 3 \/ still \in 0 .. 2
      BY <2>2
    <3>2. CASE still = 3
      BY <2>1, <3>2 DEF Executed, Stop
    <3>3. CASE still # 3
      <4>1. Turn(left, Seen(tally, still))
        BY <2>1, <3>3 DEF Executed, Seen
      <4> HIDE DEF still
      <4> QED BY <4>1, <3>1, <3>3 DEF Turn
    <3> QED BY <3>2, <3>3
  <2>4. act' = NoAct
    BY <2>1 DEF Executed
  <2> QED BY <2>3, <2>4, TallyMoves
<1>6. CASE ReadRefused
  <2>1. PICK left : Refused(left)
    BY <1>6 DEF ReadRefused
  <2>2. tally.same \in 0 .. 2
    BY DEF TallyTyped
  <2>3. \/ tally' = NoTally
        \/ \E n \in 0 .. 2 : tally' = Turned(tally, <<act.id, act.row>>, act.why, n)
    <3> DEFINE same == IF Again THEN tally.same + 1 ELSE 1
    <3>1. same = 3 \/ same \in 0 .. 2
      BY <2>2
    <3>2. CASE same = 3
      BY <2>1, <3>2 DEF Refused, Stop
    <3>3. CASE same # 3
      <4>1. Turn(left, Turned(tally, <<act.id, act.row>>, act.why, same))
        BY <2>1, <3>3 DEF Refused, Turned
      <4> HIDE DEF same
      <4> QED BY <4>1, <3>1, <3>3 DEF Turn
    <3> QED BY <3>2, <3>3
  <2>4. act' = NoAct
    BY <2>1 DEF Refused
  <2> QED BY <2>3, <2>4, TallyMoves
<1>7. CASE StopSignal \/ PageGoes \/ PageChanges \/ PageLoads \/ UNCHANGED vars
  BY <1>7 DEF StopSignal, PageGoes, PageChanges, PageLoads, loopVars, vars
<1> QED BY <1>1, <1>2, <1>3, <1>4, <1>5, <1>6, <1>7 DEF Next, Loop

PageOK == page \in Pages /\ state \in Pages \cup {NoState}
FlagsOK == gone \in BOOLEAN /\ signal \in {"none", "restart", "abort"}

LEMMA PageStep ==
  ASSUME PageOK, FlagsOK, [Next]_vars
  PROVE  PageOK' /\ FlagsOK'
<1> USE DEF PageOK, FlagsOK, world
<1>1. CASE StepBegins \/ Reread
  BY <1>1, Headed
<1>2. CASE FirstPicks \/ SecondPicks \/ SecondFails \/ DeciderFails
  <2>1. ASSUME NEW p, NEW flagged, Judge(p, flagged) PROVE PageOK' /\ FlagsOK'
    BY <2>1, Judged
  <2> QED BY <1>2, <2>1, Decided
<1>3. CASE Connect \/ Check
  BY <1>3 DEF Connect, Check, Proceed, Goto, ActFails, Stop, Refuse
<1>4. CASE Wait \/ Resolve \/ Input
  BY <1>4
  DEF Wait, Resolve, Input, Lands, MayLand, Unconfirmed, TargetLost, Proceed, Goto, ActFails,
      Stop, Refuse
<1>5. CASE Observe
  BY <1>5 DEF Observe, Executed, Stop, Turn
<1>6. CASE ReadRefused
  BY <1>6 DEF ReadRefused, Refused, Stop, Turn
<1>7. CASE StopSignal \/ PageGoes \/ UNCHANGED vars
  BY <1>7 DEF StopSignal, PageGoes, loopVars, vars
<1>8. CASE PageChanges
  BY <1>8 DEF PageChanges, loopVars, Pages
<1>9. CASE PageLoads
  <2>1. page.load \in 1 .. MaxLoads /\ page.load < MaxLoads
    BY <1>9 DEF PageLoads, Pages
  <2> QED BY <1>9, <2>1, AchieveAssumption DEF PageLoads, loopVars, Pages
<1> QED BY <1>1, <1>2, <1>3, <1>4, <1>5, <1>6, <1>7, <1>8, <1>9 DEF Next, Loop

LEMMA StepsStep ==
  ASSUME StepOK, [Next]_vars
  PROVE  StepOK'
<1>0. MaxSteps \in Nat \ {0} /\ step \in 1 .. MaxSteps + 1
  BY AchieveAssumption DEF StepOK
<1> USE <1>0 DEF StepOK
<1>1. CASE StepBegins \/ Reread
  BY <1>1, Headed DEF OutOfBudget
<1>2. CASE FirstPicks \/ SecondPicks \/ SecondFails \/ DeciderFails
  <2>1. ASSUME NEW p, NEW flagged, Judge(p, flagged), pc \in {"decide", "escalate"} PROVE StepOK'
    BY <2>1, Judged
  <2> QED BY <1>2, <2>1, Decided
<1>3. CASE Connect \/ Check
  BY <1>3 DEF Connect, Check, Proceed, Goto, ActFails, Stop, Refuse
<1>4. CASE Wait \/ Resolve \/ Input
  BY <1>4
  DEF Wait, Resolve, Input, Lands, MayLand, Unconfirmed, TargetLost, Proceed, Goto, ActFails,
      Stop, Refuse
<1>5. CASE Observe
  BY <1>5 DEF Observe, Executed, Stop, Turn
<1>6. CASE ReadRefused
  BY <1>6 DEF ReadRefused, Refused, Stop, Turn
<1>7. CASE StopSignal \/ PageGoes \/ PageChanges \/ PageLoads \/ UNCHANGED vars
  BY <1>7 DEF StopSignal, PageGoes, PageChanges, PageLoads, loopVars, vars
<1> QED BY <1>1, <1>2, <1>3, <1>4, <1>5, <1>6, <1>7 DEF Next, Loop

-----------------------------------------------------------------------------
(* Where the loop is, and what it has read.                                *)

FlowInv ==
  /\ pc \in {"top", "read", "decide", "escalate", "connect", "check", "wait", "scroll",
            "target", "press", "release", "type", "observe", "refusing", "ended"}
  /\ pc \notin {"top", "read", "ended"} => state # NoState
  /\ status \in {"running", "done", "blocked", "needs_confirmation", "budget", "stalled",
                 "cancelled", "error", "failed", "unconfirmed"}
  /\ inputs \in Nat

\* A page that was read is not the failure to read it.
LEMMA PagesAreRead == NoState \notin Pages
<1>1. Pages \subseteq [load : Nat, origin : Origins, rows : Tables]
  BY AchieveAssumption DEF Pages
<1> QED BY <1>1, AchieveAssumption

LEMMA FlowStep ==
  ASSUME PageOK, FlowInv, [Next]_vars
  PROVE  FlowInv'
<1>0. page # NoState
  BY PagesAreRead DEF PageOK
<1> USE DEF FlowInv
<1>1. CASE StepBegins \/ Reread
  BY <1>0, <1>1, Headed
<1>2. CASE FirstPicks \/ SecondPicks \/ SecondFails \/ DeciderFails
  <2>1. ASSUME NEW p, NEW flagged, Judge(p, flagged), pc \in {"decide", "escalate"},
               inputs' = inputs
        PROVE  FlowInv'
    BY <2>1, Judged
  <2> QED BY <1>2, <2>1, Decided
<1>3. CASE Connect \/ Check
  BY <1>3 DEF Connect, Check, Proceed, Goto, ActFails, Stop, Refuse, FirstInput
<1>4. CASE Wait \/ Resolve
  BY <1>4
  DEF Wait, Resolve, Lands, MayLand, TargetLost, Proceed, Goto, ActFails, Stop, Refuse
<1>5. CASE Input
  BY <1>5 DEF Input, Lands, MayLand, Unconfirmed, Proceed, Goto, Stop, Following
<1>6. CASE Observe
  BY <1>6 DEF Observe, ReadNow, Executed, Stop, Turn
<1>7. CASE ReadRefused
  BY <1>7 DEF ReadRefused, ReadNow, Refused, Stop, Turn
<1>8. CASE StopSignal \/ PageGoes \/ PageChanges \/ PageLoads \/ UNCHANGED vars
  BY <1>8 DEF StopSignal, PageGoes, PageChanges, PageLoads, loopVars, vars
<1> QED BY <1>1, <1>2, <1>3, <1>4, <1>5, <1>6, <1>7, <1>8 DEF Next, Loop

-----------------------------------------------------------------------------
(* Up to its first input an act finds the page as no input has touched it, *)
(* and between two steps what is known is what was read after the last.    *)

CleanInv ==
  /\ pc \in {"top", "ended"} /\ state # NoState => inputs = 0
  /\ pc \in {"decide", "escalate", "connect", "check", "scroll", "wait", "target"} => inputs = 0
  /\ status = "failed" => pc = "ended" /\ inputs = 0
  /\ pc = "refusing" /\ act.why # "interrupted" => inputs = 0

LEMMA CleanStep ==
  ASSUME ActOK, CleanInv, [Next]_vars
  PROVE  CleanInv'
<1> USE DEF CleanInv
<1>1. CASE StepBegins \/ Reread
  BY <1>1, Headed
<1>2. CASE FirstPicks \/ SecondPicks \/ SecondFails \/ DeciderFails
  <2>1. ASSUME NEW p, NEW flagged, Judge(p, flagged), pc \in {"decide", "escalate"},
               inputs' = inputs
        PROVE  CleanInv'
    BY <2>1, Judged
  <2> QED BY <1>2, <2>1, Decided
<1>3. CASE Connect \/ Check
  <2>1. /\ pc \in {"connect", "check"} /\ inputs' = inputs
        /\ \/ pc' \in {"check", "scroll", "wait", "target", "refusing"} /\ status' = status
           \/ pc' = "ended"
    BY <1>3 DEF Connect, Check, Proceed, Goto, ActFails, Stop, Refuse, FirstInput
  <2> QED BY <2>1
<1>4. CASE Wait
  BY <1>4 DEF Wait, Proceed, Goto
<1>5. CASE Resolve
  <2>1. /\ pc = "target"
        /\ \/ pc' \in {"observe", "press"} /\ status' = status
           \/ pc' = "refusing" /\ status' = status /\ inputs' = inputs
           \/ pc' = "refusing" /\ status' = status /\ act' = WithWhy(act, "interrupted")
           \/ pc' = "ended" /\ inputs' = inputs
    BY <1>5 DEF Resolve, TargetLost, Proceed, Goto, ActFails, Stop, Refuse, WithWhy
  <2>2. WithWhy(act, "interrupted").why = "interrupted"
    BY ActMoves DEF ActOK
  <2> QED BY <2>1, <2>2
<1>6. CASE Input
  BY <1>6 DEF Input, Unconfirmed, Proceed, Goto, Stop, Following
<1>7. CASE Observe \/ ReadRefused
  <2>1. PICK left : /\ Executed(left) \/ Refused(left)
                    /\ left = NoState \/ inputs' = 0
                    /\ pc \in {"observe", "refusing"}
    BY <1>7 DEF Observe, ReadRefused, ReadNow
  <2>2. /\ state' = left
        /\ \/ pc' = "ended" /\ status' \in {"stalled", "blocked"}
           \/ pc' = "top" /\ status' = status
    BY <2>1 DEF Executed, Refused, Stop, Turn
  <2> QED BY <2>1, <2>2
<1>8. CASE StopSignal \/ PageGoes \/ PageChanges \/ PageLoads \/ UNCHANGED vars
  BY <1>8 DEF StopSignal, PageGoes, PageChanges, PageLoads, loopVars, vars
<1> QED BY <1>1, <1>2, <1>3, <1>4, <1>5, <1>6, <1>7, <1>8 DEF Next, Loop

-----------------------------------------------------------------------------
(* A read is of a document of its page, and a row under way is a row of it *)
(* until the page that passes its check takes over.                        *)

ReadInv ==
  /\ state # NoState => /\ state.load <= page.load
                        /\ state.load = page.load => state.origin = page.origin
  /\ pc \in {"decide", "escalate", "connect", "check"} => state.origin \in Allowed
  /\ pc \in {"connect", "check"} => /\ act.id \in DOMAIN state.rows
                                    /\ act.row = state.rows[act.id]
  /\ AimedAtWhatWasRead

LEMMA ReadStep ==
  ASSUME ActOK, PageOK, FlowInv, ReadInv, [Next]_vars
  PROVE  ReadInv'
<1>0. /\ page.load \in Nat /\ (state # NoState => state.load \in Nat) /\ page # NoState
  BY PagesAreRead DEF PageOK, Pages
<1> USE DEF ReadInv, AimedAtWhatWasRead
<1>1. CASE StepBegins \/ Reread
  BY <1>0, <1>1, Headed DEF world
<1>2. CASE FirstPicks \/ SecondPicks \/ SecondFails \/ DeciderFails
  <2>1. ASSUME NEW p, NEW flagged, Judge(p, flagged), pc \in {"decide", "escalate"}
        PROVE  ReadInv'
    <3>1. ActOK' /\ (pc' = "connect" => act'.id = p.choice /\ act'.row = Rows[p.choice])
      BY <2>1, Judged, ActMoves DEF ActOK
    <3> QED BY <2>1, <3>1, Judged DEF Rows, world
  <2> QED BY <1>2, <2>1, Decided DEF world
<1>3. CASE Connect
  BY <1>3 DEF Connect, Proceed, Goto, ActFails, Stop, world
<1>4. CASE Check
  <2>1. CASE /\ IsFresh /\ Goto(FirstInput) /\ act' = [act EXCEPT !.checked = page]
             /\ UNCHANGED <<state, asked, inputs>>
    <3>1. /\ act' = Passed(act, page) /\ state' = state /\ page' = page
          /\ pc = "check" /\ pc' \in {"scroll", "wait", "target"}
      BY <1>4, <2>1 DEF Check, Goto, FirstInput, Passed, world
    <3>2. act'.row = act.row /\ act'.checked = page
      BY <3>1, ActMoves DEF ActOK
    <3>3. page.load = state.load /\ page.origin \in Allowed
      BY <2>1, <3>1 DEF IsFresh, FlowInv
    <3>4. \E i \in DOMAIN page.rows : page.rows[i] = act.row
      BY <2>1, <3>1 DEF IsFresh
    <3> QED BY <3>1, <3>2, <3>3, <3>4
  <2>2. CASE Refuse("changed") \/ ActFails
    BY <2>2 DEF Goto, ActFails, Stop, Refuse, world
  <2> QED BY <1>4, <2>1, <2>2 DEF Check
<1>5. CASE Wait \/ Resolve
  BY <1>5 DEF Wait, Resolve, TargetLost, Proceed, Goto, ActFails, Stop, Refuse, world
<1>6. CASE Input
  BY <1>6 DEF Input, Unconfirmed, Proceed, Goto, Stop, Following, world
<1>7. CASE Observe \/ ReadRefused
  <2>1. PICK left \in {page, NoState} : Executed(left) \/ Refused(left)
    BY <1>7 DEF Observe, ReadRefused
  <2>2. state' = left /\ pc' \in {"ended", "top"} /\ page' = page
    BY <2>1 DEF Executed, Refused, Stop, Turn, world
  <2> QED BY <1>0, <2>1, <2>2
<1>8. CASE StopSignal \/ PageGoes \/ UNCHANGED vars
  BY <1>8 DEF StopSignal, PageGoes, loopVars, vars, world
<1>9. CASE PageChanges
  <2>1. page'.load = page.load /\ page'.origin = page.origin
    BY <1>9 DEF PageChanges, PageOK, Pages
  <2> QED BY <1>9, <2>1 DEF PageChanges, loopVars
<1>10. CASE PageLoads
  <2>1. page'.load = page.load + 1
    BY <1>10 DEF PageLoads
  <2> QED BY <1>0, <1>10, <2>1 DEF PageLoads, loopVars
<1> QED BY <1>1, <1>2, <1>3, <1>4, <1>5, <1>6, <1>7, <1>8, <1>9, <1>10 DEF Next, Loop

-----------------------------------------------------------------------------
(* Consequences.                                                           *)

\* A row is begun on the word of every decider that picked it.
LEMMA BegunUnflagged ==
  ASSUME FirstPicks \/ SecondPicks \/ SecondFails, pc' = "connect", ~MayCommit
  PROVE  act'.id \notin act'.flagged
<1>1. SUFFICES ASSUME NEW p, NEW flagged, Judge(p, flagged), pc \in {"decide", "escalate"},
                      ~p.consequential => p.choice \notin flagged
               PROVE  act'.id \notin act'.flagged
  <2>1. CASE FirstPicks
    BY <2>1 DEF FirstPicks, Goto, Flags
  <2>2. CASE SecondFails
    BY <2>2 DEF SecondFails, Flags
  <2>3. CASE SecondPicks
    <3>1. PICK f \in GenerativePicks(Rows) :
            Judge(Merge(asked, f), Flags(asked) \cup Flags(f))
      BY <2>3 DEF SecondPicks
    <3>2. /\ Merge(asked, f).choice = f.choice
          /\ Merge(asked, f).consequential
                = (f.consequential \/ (f.choice = asked.choice /\ asked.consequential))
      BY DEF Merge, GenerativePicks, Verdicts
    <3>3. ~Merge(asked, f).consequential
            => Merge(asked, f).choice \notin Flags(asked) \cup Flags(f)
      BY <3>2 DEF Flags
    <3> QED BY <2>3, <3>1, <3>3 DEF SecondPicks
  <2> QED BY <2>1, <2>2, <2>3
<1>2. ~Uncommitted(p) /\ act' = Begun(p.choice, Rows[p.choice], flagged)
  BY <1>1, Judged
<1>3. act'.id = p.choice /\ act'.flagged = flagged
  BY <1>2, ActMoves
<1> QED BY <1>1, <1>2, <1>3 DEF Uncommitted

LEMMA AskedStep ==
  ASSUME ConsequentialAsked, [Next]_vars
  PROVE  ConsequentialAsked'
<1> USE DEF ConsequentialAsked
<1>1. CASE StepBegins \/ Reread
  BY <1>1, Headed
<1>2. CASE FirstPicks \/ SecondPicks \/ SecondFails
  BY <1>2, BegunUnflagged
<1>3. CASE DeciderFails
  BY <1>3 DEF DeciderFails, Stop
<1>4. CASE Connect \/ Check
  BY <1>4 DEF Connect, Check, Proceed, Goto, ActFails, Stop, Refuse, FirstInput
<1>5. CASE Wait \/ Resolve \/ Input
  BY <1>5
  DEF Wait, Resolve, Input, TargetLost, Unconfirmed, Proceed, Goto, ActFails, Stop, Refuse,
      Following
<1>6. CASE Observe \/ ReadRefused
  BY <1>6 DEF Observe, ReadRefused, Executed, Refused, Stop, Turn
<1>7. CASE StopSignal \/ PageGoes \/ PageChanges \/ PageLoads \/ UNCHANGED vars
  BY <1>7 DEF StopSignal, PageGoes, PageChanges, PageLoads, loopVars, vars
<1> QED BY <1>1, <1>2, <1>3, <1>4, <1>5, <1>6, <1>7 DEF Next, Loop

-----------------------------------------------------------------------------

IInv ==
  /\ ActOK /\ TallyOK /\ StepOK /\ PageOK /\ FlagsOK
  /\ FlowInv /\ CleanInv /\ ReadInv /\ ConsequentialAsked

LEMMA IInvInit == Init => IInv
<1> SUFFICES ASSUME Init PROVE IInv
  OBVIOUS
<1>1. page \in Pages /\ page # NoState /\ page.load = 1
  BY AchieveAssumption, PagesAreRead DEF Init, Pages
<1>2. 1 \in 1 .. MaxSteps + 1 /\ 1 <= MaxSteps
  BY AchieveAssumption
<1>3. ActOK /\ TallyOK
  BY FreshStarts DEF Init, ActOK, TallyOK
<1>4. StepOK /\ PageOK /\ FlagsOK
  BY <1>1, <1>2 DEF Init, StepOK, PageOK, FlagsOK
<1>5. FlowInv /\ CleanInv /\ ConsequentialAsked
  BY <1>1 DEF Init, FlowInv, CleanInv, ConsequentialAsked
<1>6. ReadInv
  BY <1>1 DEF Init, ReadInv, AimedAtWhatWasRead
<1> QED BY <1>3, <1>4, <1>5, <1>6 DEF IInv

LEMMA Invariance == Spec => []IInv
<1>1. IInv /\ [Next]_vars => IInv'
  BY TallyStep, StepsStep, PageStep, FlowStep, CleanStep, ReadStep, AskedStep DEF IInv
<1> QED BY <1>1, IInvInit, PTL DEF Spec

(* runLoop keeps the page's rows and its own tallies in shape, is at one   *)
(* of its awaits, holds a read at every one that needs it, and stops at    *)
(* the third of a tally instead of keeping it (loop/achieve.ts), for every *)
(* max_steps.                                                              *)
THEOREM AchieveTypes == Spec => []TypeOK
<1>1. IInv => TypeOK
  BY DEF IInv, FlowInv, TallyOK, TallyTyped, StepOK, PageOK, FlagsOK, TypeOK
<1> QED BY <1>1, Invariance, PTL

(* What the loop decides on, acts on or returns was read after the last    *)
(* input of its own: after an input that may have landed it never takes an *)
(* older read for the page (achieve.ts: the read after an act).            *)
THEOREM DecidesOnFreshReads == Spec => []FreshEyes
<1>1. IInv => FreshEyes
  BY DEF IInv, CleanInv, FreshEyes
<1> QED BY <1>1, Invariance, PTL

(* "Nothing was input for that step" is true wherever the loop reports it, *)
(* and a refused row was not input, unless it is a select that was         *)
(* interrupted (act.ts).                                                   *)
THEOREM FailuresAreHonest == Spec => []NothingWasInput
<1>1. IInv => NothingWasInput
  BY DEF IInv, CleanInv, NothingWasInput
<1> QED BY <1>1, Invariance, PTL

(* The page that passed the act's check was the document that was read, on *)
(* an allowed origin, and had that very row: isFresh (act.ts) and the      *)
(* origin check at the head of a step (achieve.ts) close the gap between   *)
(* the read and the input, however the page is navigated in between.       *)
THEOREM InputsAreAimed == Spec => []AimedAtWhatWasRead
<1>1. IInv => AimedAtWhatWasRead
  BY DEF IInv, ReadInv
<1> QED BY <1>1, Invariance, PTL

(* Whatever two deciders answer, and whichever of them fails, no row is    *)
(* begun without allow_consequential that one of them picked and called    *)
(* consequential (decider.ts, EscalatingDecider.decide).                   *)
THEOREM ConsequenceIsAskedFor == Spec => []ConsequentialAsked
<1>1. IInv => ConsequentialAsked
  BY DEF IInv
<1> QED BY <1>1, Invariance, PTL

-----------------------------------------------------------------------------
(* The stop.                                                               *)

Halting == Interrupted /\ ~InAct

LEMMA HaltingStep ==
  ASSUME Halting, [Next]_vars
  PROVE  Halting'
<1> USE DEF Halting, Interrupted, InAct, world
<1>1. CASE StepBegins \/ Reread
  BY <1>1, Headed
<1>2. CASE FirstPicks \/ SecondPicks \/ SecondFails \/ DeciderFails
  <2>1. ASSUME NEW p, NEW flagged, Judge(p, flagged) PROVE Halting'
    BY <2>1, Judged
  <2> QED BY <1>2, <2>1, Decided
<1>3. ~Connect /\ ~Check /\ ~Wait /\ ~Resolve /\ ~Input
  BY DEF Connect, Check, Wait, Resolve, Input
<1>4. CASE Observe
  BY <1>4 DEF Observe, Executed, Stop, Turn
<1>5. CASE ReadRefused
  BY <1>5 DEF ReadRefused, Refused, Stop, Turn
<1>6. CASE StopSignal \/ PageGoes \/ PageChanges \/ PageLoads \/ UNCHANGED vars
  BY <1>6 DEF StopSignal, PageGoes, PageChanges, PageLoads, loopVars, vars
<1> QED BY <1>1, <1>2, <1>3, <1>4, <1>5, <1>6 DEF Next, Loop

(* A loop told to stop while no act is under way begins none after that,   *)
(* whatever the deciders it is waiting for answer or fail with: runLoop    *)
(* asks again between the pick and the act (achieve.ts).                   *)
THEOREM StopsForGood == Spec => StopIsFinal
<1>1. Halting /\ [Next]_vars => Halting'
  BY HaltingStep
<1>2. Halting <=> Interrupted /\ ~InAct
  BY DEF Halting
<1> QED BY <1>1, <1>2, PTL DEF Spec, StopIsFinal
=============================================================================
