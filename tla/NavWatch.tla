------------------------------ MODULE NavWatch ------------------------------
(***************************************************************************)
(* The navigation watchdog (gateway/src/bridge.ts): a child that has lost  *)
(* its page goes on reporting one the browser no longer has.  Each         *)
(* navigation's report is compared with two samples of the browser, taken  *)
(* at its reply and after a delay; two strikes replace the child.          *)
(*                                                                         *)
(* The browser has one page, known by its document.  A fetch answers with  *)
(* the page as it is then, or fails (blind).  Navigations are numbered in  *)
(* the order the client asks for them, which the child keeps: the number   *)
(* is also verifyNav's seq.                                                *)
(***************************************************************************)
EXTENDS Naturals, Sequences, FiniteSets

CONSTANTS
  MaxNavs,   \* bound: navigation calls of the client
  Urls,      \* documents (sameDoc is their equality)
  Strikes,   \* NAV_WEDGE_STRIKES
  Faults,    \* what may go wrong: "move", "wedge", "blind", "mute", "exit"
  MaxFaults  \* bound: how often

Navs == 1..MaxNavs

ASSUME NavAssumption ==
  /\ MaxNavs \in Nat /\ IsFiniteSet(Urls) /\ Strikes \in Nat \ {0}
  /\ Faults \subseteq {"move", "wedge", "blind", "mute", "exit"} /\ MaxFaults \in Nat
  /\ {"none", "pending", "blind"} \cap Urls = {}

VARIABLES
  page,     \* what the browser shows
  view,     \* the page the child is bound to
  wedged,   \* it is no longer the browser's
  childGen,
  swap,     \* respawnChild: no | closing | starting
  newest,   \* navNewest: the newest reply and its page
  strikes,  \* navStrikes
  step,     \* per nav: new | sent | told | armed | checked | done
  pipe,     \* replies of the child not yet handled
  gen, reported,      \* per nav: the child and the page verifyNav is bound to
  atReply, now,       \* per nav: its samples: "pending", "blind" or a page
  struck,   \* navs counted as strikes (noteNavStrike)
  strange,  \* those of them counted against another child
  lied,     \* navs reported by a wedged child
  left,     \* navs whose page was gone again before a first sample had it
  crossed,  \* navs whose samples were awaited when a swap began
  faults    \* bound counter

browser == <<page, view, wedged>>
child   == <<childGen, swap, pipe>>
watch   == <<newest, strikes, struck, strange>>
nav     == <<step, gen, reported, atReply, now>>
ghosts  == <<lied, left, crossed>>
vars    == <<browser, child, watch, nav, ghosts, faults>>

\* The strikes stay below NAV_WEDGE_STRIKES between turns (noteNavStrike), no
\* check is bound to a child that is yet to come, and a child that is not wedged
\* shows the browser's own page.
TypeOK ==
  /\ page \in Urls /\ view \in Urls /\ wedged \in BOOLEAN /\ (~wedged => view = page)
  /\ childGen \in Nat \ {0} /\ swap \in {"no", "closing", "starting"}
  /\ newest \in [nav : {0} \cup Navs, selected : Urls \cup {"none"}]
  /\ strikes \in 0..Strikes-1
  /\ step \in [Navs -> {"new", "sent", "told", "armed", "checked", "done"}]
  /\ pipe \in Seq(Navs)
  /\ gen \in [Navs -> 0..childGen] /\ strange \subseteq struck /\ struck \subseteq Navs
  /\ reported \in [Navs -> Urls \cup {"none"}]
  /\ atReply \in [Navs -> Urls \cup {"pending", "blind"}]
  /\ now \in [Navs -> Urls \cup {"pending", "blind"}]
  /\ lied \subseteq Navs /\ left \subseteq Navs /\ crossed \subseteq Navs
  /\ faults \in 0..MaxFaults

Init ==
  /\ page \in Urls /\ view = page /\ wedged = FALSE
  /\ childGen = 1 /\ swap = "no" /\ pipe = <<>>
  /\ newest = [nav |-> 0, selected |-> "none"] /\ strikes = 0
  /\ step = [n \in Navs |-> "new"]
  /\ gen = [n \in Navs |-> 0] /\ struck = {} /\ strange = {}
  /\ reported = [n \in Navs |-> "none"]
  /\ atReply = [n \in Navs |-> "pending"] /\ now = [n \in Navs |-> "pending"]
  /\ lied = {} /\ left = {} /\ crossed = {}
  /\ faults = 0

-----------------------------------------------------------------------------
(* Helpers.                                                                *)

Fault(kind) == kind \in Faults /\ faults < MaxFaults /\ faults' = faults + 1

Goes(n, s) == step' = [step EXCEPT ![n] = s]

Clear(f, N, value) == [n \in Navs |-> IF n \in N THEN value ELSE f[n]]

\* The navs of N are done with: nothing refers to them any more.
Done(N) ==
  /\ step' = Clear(step, N, "done") /\ gen' = Clear(gen, N, 0)
  /\ reported' = Clear(reported, N, "none")
  /\ atReply' = Clear(atReply, N, "pending") /\ now' = Clear(now, N, "pending")

At(s) == { n \in Navs : step[n] = s }

\* The navs that have been reported and have no first sample yet, or none to use.
Exposed == { n \in Navs : step[n] \in {"told", "armed", "checked"} /\ atReply[n] \notin Urls }

\* The browser moves to u; the pages reported before are left.
PageBecomes(u) ==
  /\ page' = u
  /\ left' = left \cup { n \in Exposed : reported[n] # u }

\* Slip: only the newest navigation is judged.
JudgeNewest(n) == n = newest.nav

\* shouldJudgeNav
ShouldJudgeNav(n) ==
  n = newest.nav \/ (reported[n] # "none" /\ reported[n] = newest.selected)

\* Slip: the browser is looked at after the delay only.
VerdictNow(n) ==
  IF reported[n] = "none" \/ now[n] = "blind" THEN "unknown"
  ELSE IF reported[n] = now[n] THEN "ok" ELSE "wedge"

\* navVerdict
NavVerdict(n) ==
  LET known == {atReply[n], now[n]} \ {"blind"}
  IN IF reported[n] = "none" \/ known = {} THEN "unknown"
     ELSE IF reported[n] \in known THEN "ok" ELSE "wedge"

-----------------------------------------------------------------------------
(* The client and the child (external), and the pump.                      *)

\* forwardToChild of a navigation: failed at once while the child is replaced.
Ask(n) ==
  /\ step[n] = "new" /\ \A m \in At("new") : n <= m
  /\ Goes(n, IF swap = "no" THEN "sent" ELSE "done")
  /\ UNCHANGED <<browser, child, watch, gen, reported, atReply, now, ghosts, faults>>

\* The child navigates, a redirect included, and says where it is.  A wedged
\* one moves nothing and names its old page.
Navigate(n) ==
  /\ step[n] = "sent" /\ \A m \in At("sent") : n <= m
  /\ Goes(n, "told") /\ pipe' = Append(pipe, n)
  /\ IF wedged
     THEN lied' = lied \cup {n} /\ UNCHANGED <<page, view, left>>
     ELSE \E u \in Urls : PageBecomes(u) /\ view' = u /\ UNCHANGED lied
  /\ \/ reported' = [reported EXCEPT ![n] = view'] /\ UNCHANGED faults
     \/ reported' = [reported EXCEPT ![n] = "none"] /\ Fault("mute")
  /\ UNCHANGED <<wedged, childGen, swap, watch, gen, atReply, now, crossed>>

\* A navigation that fails is not verified.
NavigateFails(n) ==
  /\ step[n] = "sent" /\ Goes(n, "done")
  /\ UNCHANGED <<browser, child, watch, gen, reported, atReply, now, ghosts, faults>>

\* wireChild's pump: the newest reply is remembered, the timer armed, and the
\* first sample asked for.
HandleReply ==
  /\ pipe # <<>> /\ pipe' = Tail(pipe)
  /\ LET n == Head(pipe)
     IN /\ newest' = [nav |-> n, selected |-> reported[n]]
        /\ gen' = [gen EXCEPT ![n] = childGen]
        /\ Goes(n, "armed")
  /\ UNCHANGED <<browser, childGen, swap, strikes, struck, strange, reported, atReply, now, ghosts, faults>>

-----------------------------------------------------------------------------
(* realPages, verifyNav.                                                   *)

\* A fetch of /json/list answers, or does not.
Answers(n, sample) ==
  \/ sample' = [sample EXCEPT ![n] = page] /\ UNCHANGED faults
  \/ sample' = [sample EXCEPT ![n] = "blind"] /\ Fault("blind")

SampleAtReply(n) ==
  /\ step[n] = "armed" /\ atReply[n] = "pending"
  /\ Answers(n, atReply)
  /\ UNCHANGED <<browser, child, watch, step, gen, reported, now, ghosts>>

\* Slip: the check is not bound to the child it came from.
AnyChild(n) == gen[n] > 0

\* "bind this check to the child (and container) it came from"
SameChild(n) == gen[n] = childGen

\* verifyNav up to its await: timers fire in the order they were set, and later
\* than the first fetch can last (2 s against NAV_VERIFY_DELAY_MS).
VerifyNav(n) ==
  /\ step[n] = "armed" /\ \A m \in At("armed") : n <= m
  /\ atReply[n] # "pending"
  /\ IF swap = "no" /\ SameChild(n) /\ ShouldJudgeNav(n)
     THEN Goes(n, "checked") /\ UNCHANGED <<gen, reported, atReply, now>>
     ELSE Done({n})
  /\ UNCHANGED <<browser, child, watch, ghosts, faults>>

SampleNow(n) ==
  /\ step[n] = "checked" /\ now[n] = "pending"
  /\ Answers(n, now)
  /\ UNCHANGED <<browser, child, watch, step, gen, reported, atReply, ghosts>>

Enough(k) == k >= Strikes

\* respawnChild up to its first await: clearChildState forgets the navs that have
\* no reply yet and the strikes, not the checks whose samples are awaited.
EnterRespawn(done) ==
  /\ swap' = "closing" /\ strikes' = 0 /\ pipe' = <<>>
  /\ Done(At("sent") \cup At("told") \cup done)
  /\ crossed' = crossed \cup (At("checked") \ done)

\* verifyNav after its await.
Strike(n) ==
  /\ struck' = struck \cup {n}
  /\ strange' = IF gen[n] = childGen THEN strange ELSE strange \cup {n}
  /\ IF Enough(strikes + 1) /\ swap = "no" THEN EnterRespawn({n})
     ELSE /\ strikes' = (IF Enough(strikes + 1) THEN 0 ELSE strikes + 1)
          /\ Done({n}) /\ UNCHANGED <<swap, pipe, crossed>>

Verdict(n) ==
  /\ step[n] = "checked" /\ now[n] # "pending"
  /\ \/ NavVerdict(n) = "wedge" /\ Strike(n)
     \/ /\ NavVerdict(n) # "wedge" /\ Done({n})
        /\ strikes' = (IF NavVerdict(n) = "ok" THEN 0 ELSE strikes)
        /\ UNCHANGED <<struck, strange, swap, pipe, crossed>>
  /\ UNCHANGED <<browser, childGen, newest, lied, left, faults>>

-----------------------------------------------------------------------------
(* The rest of the child's replacement, and what goes wrong.               *)

\* It died, or is replaced for another reason.
Exits ==
  /\ swap = "no" /\ Fault("exit")
  /\ EnterRespawn({})
  /\ UNCHANGED <<browser, childGen, newest, struck, strange, lied, left>>

\* The old child is closed; from here on it is not heard.
SwapCloses ==
  /\ swap = "closing" /\ swap' = "starting"
  /\ childGen' = childGen + 1
  /\ UNCHANGED <<browser, pipe, watch, nav, ghosts, faults>>

\* startChild: a fresh child is bound to the browser's own page.
SwapEnds ==
  /\ swap = "starting" /\ swap' = "no"
  /\ wedged' = FALSE /\ view' = page
  /\ newest' = [newest EXCEPT !.selected = "none"]
  /\ UNCHANGED <<page, childGen, pipe, strikes, struck, strange, nav, ghosts, faults>>

\* The page moves on its own: a redirect, a script.  A healthy child goes along.
PageMoves(u) ==
  /\ u # page /\ Fault("move")
  /\ PageBecomes(u)
  /\ view' = IF wedged THEN view ELSE u
  /\ UNCHANGED <<wedged, child, watch, nav, lied, crossed>>

\* The browser swaps the target and the child does not notice.
Wedges(u) ==
  /\ ~wedged /\ wedged' = TRUE
  /\ u # page /\ Fault("wedge")
  /\ PageBecomes(u)
  /\ UNCHANGED <<view, child, watch, nav, lied, crossed>>

-----------------------------------------------------------------------------
Verify(n) == SampleAtReply(n) \/ VerifyNav(n) \/ SampleNow(n) \/ Verdict(n)

Next ==
  \/ \E n \in Navs : Ask(n) \/ Navigate(n) \/ NavigateFails(n) \/ Verify(n)
  \/ HandleReply
  \/ Exits \/ SwapCloses \/ SwapEnds
  \/ \E u \in Urls : PageMoves(u) \/ Wedges(u)

Spec == Init /\ [][Next]_vars

\* Timers fire, fetches answer or time out, replies are read, a replacement
\* ends.  Nothing makes the client navigate.
FairSpec ==
  /\ Spec /\ WF_vars(HandleReply) /\ WF_vars(SwapCloses) /\ WF_vars(SwapEnds)
  /\ \A n \in Navs : WF_vars(Verify(n))

-----------------------------------------------------------------------------
(* Properties.                                                             *)

\* A strike (verifyNav, navVerdict) on a child that told the truth means that the page it named was gone
\* again before the first sample that could have shown it: a page that moves, or
\* is moved by the client, after that sample never counts.
StruckOnlyIfLeft == struck \subseteq lied \cup left

\* A strike (verifyNav's gen) counts against the child it is about, or its samples were already
\* awaited when that child was replaced.
StrikesOwnChild == strange \subseteq crossed

\* The child is wedged, nothing else goes wrong any more, and the strikes it has
\* and the reports under way are enough.
Cornered ==
  LET lies == { n \in lied : step[n] \in {"told", "armed", "checked"} }
  IN /\ wedged /\ swap = "no" /\ view # page /\ faults = MaxFaults
     /\ \A n \in At("told") \cup At("armed") \cup At("checked") :
          /\ n \in lies /\ reported[n] = view
          /\ {atReply[n], now[n]} \cap {"blind", view} = {}
          /\ step[n] # "told" => gen[n] = childGen
     /\ strikes + Cardinality(lies) >= Strikes

\* Then it is replaced, however fast its client navigates (shouldJudgeNav).
WedgeCleared == Cornered ~> ~wedged
=============================================================================
