---------------------------- MODULE NavWatchProofs ----------------------------
(***************************************************************************)
(* What holds of the navigation watchdog for any number of navigations,    *)
(* documents and mishaps.                                                  *)
(***************************************************************************)
EXTENDS NavWatch, TLAPS

-----------------------------------------------------------------------------
(* What the steps share.                                                   *)

Reset(n) == /\ step'[n] = "done" /\ gen'[n] = 0 /\ reported'[n] = "none"
            /\ atReply'[n] = "pending" /\ now'[n] = "pending"
Kept(n) == /\ step'[n] = step[n] /\ gen'[n] = gen[n] /\ reported'[n] = reported[n]
           /\ atReply'[n] = atReply[n] /\ now'[n] = now[n]

\* Of the navigations of N none is left, and no other is touched.
Without(N) == \A n \in Navs : IF n \in N THEN Reset(n) ELSE Kept(n)

LEMMA Forgets ==
  ASSUME NEW N, Done(N)
  PROVE  Without(N)
BY DEF Done, Clear, Reset, Kept, Without

\* A swap forgets those that have no reply yet, and has nothing more to handle.
LEMMA Respawns ==
  ASSUME NEW N, EnterRespawn(N)
  PROVE  /\ swap' = "closing" /\ strikes' = 0 /\ pipe' = <<>> /\ DOMAIN pipe' = {}
         /\ crossed' = crossed \cup (At("checked") \ N)
         /\ Without(At("sent") \cup At("told") \cup N)
BY Forgets DEF EnterRespawn

\* A verdict ends its navigation.
LEMMA Rests ==
  ASSUME NEW n \in Navs, Verdict(n)
  PROVE  /\ step[n] = "checked" /\ now[n] # "pending"
         /\ UNCHANGED <<page, view, wedged, childGen, newest, lied, left, faults>>
         /\ \/ Done({n}) /\ UNCHANGED <<swap, pipe, crossed>>
            \/ EnterRespawn({n})
         /\ \/ UNCHANGED <<struck, strange>>
            \/ /\ NavVerdict(n) = "wedge" /\ struck' = struck \cup {n}
               /\ strange' = IF gen[n] = childGen THEN strange ELSE strange \cup {n}
BY DEF Verdict, Strike, browser

\* A page that goes leaves whoever was reported on it and not seen there yet.
LEMMA Leaves ==
  ASSUME NEW u, PageBecomes(u)
  PROVE  /\ page' = u /\ left \subseteq left'
         /\ \A n \in Navs \ left' :
              step[n] \in {"told", "armed", "checked"} /\ atReply[n] \notin Urls => reported[n] = u
BY DEF PageBecomes, Exposed


LEMMA Faulty ==
  ASSUME NEW k, Fault(k), faults \in 0..MaxFaults
  PROVE  faults' \in 0..MaxFaults
BY NavAssumption DEF Fault

\* The reply at the head of the pipe, and those behind it.
LEMMA Pumped ==
  ASSUME pipe \in Seq(Navs), HandleReply
  PROVE  /\ 1 \in DOMAIN pipe /\ Head(pipe) = pipe[1] /\ Head(pipe) \in Navs
         /\ pipe' \in Seq(Navs)
         /\ \A i \in DOMAIN pipe' : i + 1 \in DOMAIN pipe /\ pipe'[i] = pipe[i + 1] /\ i + 1 # 1
         /\ step' = [step EXCEPT ![Head(pipe)] = "armed"]
         /\ gen' = [gen EXCEPT ![Head(pipe)] = childGen]
         /\ newest' = [nav |-> Head(pipe), selected |-> reported[Head(pipe)]]
         /\ UNCHANGED <<browser, childGen, swap, strikes, struck, strange, reported, atReply, now,
                        ghosts, faults>>
<1>1. pipe # <<>> /\ pipe' = Tail(pipe)
  BY DEF HandleReply
<1>2. /\ 1 \in DOMAIN pipe /\ Head(pipe) = pipe[1] /\ Head(pipe) \in Navs
      /\ pipe' \in Seq(Navs)
  BY <1>1
<1>3. \A i \in DOMAIN pipe' : i + 1 \in DOMAIN pipe /\ pipe'[i] = pipe[i + 1] /\ i + 1 # 1
  BY <1>1
<1> QED BY <1>2, <1>3 DEF HandleReply, Goes

-----------------------------------------------------------------------------
(* Types.                                                                  *)

\* What is forgotten keeps its type.
LEMMA DoneTyped ==
  ASSUME TypeOK, NEW N, Done(N)
  PROVE  /\ step' \in [Navs -> {"new", "sent", "told", "armed", "checked", "done"}]
         /\ gen' \in [Navs -> 0..childGen] /\ reported' \in [Navs -> Urls \cup {"none"}]
         /\ atReply' \in [Navs -> Urls \cup {"pending", "blind"}]
         /\ now' \in [Navs -> Urls \cup {"pending", "blind"}]
BY DEF TypeOK, Done, Clear

LEMMA TypeStep ==
  ASSUME TypeOK, [Next]_vars
  PROVE  TypeOK'
<1> USE DEF TypeOK
<1>1. ASSUME NEW n \in Navs, Ask(n) PROVE TypeOK'
  BY NavAssumption, <1>1
  DEF Ask, Goes, vars, browser, child, watch, nav, ghosts
<1>2. ASSUME NEW n \in Navs, Navigate(n) PROVE TypeOK'
  <2>1. /\ page' \in Urls /\ view' \in Urls /\ (~wedged => view' = page')
        /\ left' \subseteq Navs /\ lied' \subseteq Navs
    BY <1>2 DEF Navigate, PageBecomes, Exposed
  <2>2. reported' \in [Navs -> Urls \cup {"none"}]
    BY <1>2, <2>1 DEF Navigate
  <2>3. faults' \in 0..MaxFaults
    BY <1>2, Faulty DEF Navigate
  <2>4. /\ step' \in [Navs -> {"new", "sent", "told", "armed", "checked", "done"}]
        /\ pipe' \in Seq(Navs)
    BY <1>2 DEF Navigate, Goes
  <2> QED BY <1>2, <2>1, <2>2, <2>3, <2>4 DEF Navigate, watch
<1>3. ASSUME NEW n \in Navs, NavigateFails(n) PROVE TypeOK'
  BY NavAssumption, <1>3
  DEF NavigateFails, Goes, vars, browser, child, watch, nav, ghosts
<1>4. ASSUME NEW n \in Navs, SampleAtReply(n) PROVE TypeOK'
  <2>1. atReply' \in [Navs -> Urls \cup {"pending", "blind"}]
    <3>1. \E p \in Urls \cup {"blind"} : atReply' = [atReply EXCEPT ![n] = p]
      BY <1>4 DEF SampleAtReply, Answers
    <3> QED BY <3>1
  <2>2. faults' \in 0..MaxFaults
    BY <1>4, Faulty DEF SampleAtReply, Answers
  <2> QED BY <1>4, <2>1, <2>2 DEF SampleAtReply, browser, child, watch, ghosts
<1>5. ASSUME NEW n \in Navs, VerifyNav(n) PROVE TypeOK'
  <2>1. CASE Done({n})
    BY <1>5, <2>1, DoneTyped DEF VerifyNav, browser, child, watch, ghosts
  <2>2. CASE Goes(n, "checked") /\ UNCHANGED <<gen, reported, atReply, now>>
    <3>1. step' \in [Navs -> {"new", "sent", "told", "armed", "checked", "done"}]
      BY <2>2 DEF Goes
    <3> QED BY <1>5, <2>2, <3>1 DEF VerifyNav, browser, child, watch, ghosts
  <2> QED BY <1>5, <2>1, <2>2 DEF VerifyNav
<1>6. ASSUME NEW n \in Navs, SampleNow(n) PROVE TypeOK'
  <2>1. now' \in [Navs -> Urls \cup {"pending", "blind"}]
    <3>1. \E p \in Urls \cup {"blind"} : now' = [now EXCEPT ![n] = p]
      BY <1>6 DEF SampleNow, Answers
    <3> QED BY <3>1
  <2>2. faults' \in 0..MaxFaults
    BY <1>6, Faulty DEF SampleNow, Answers
  <2> QED BY <1>6, <2>1, <2>2 DEF SampleNow, browser, child, watch, ghosts
<1>7. ASSUME NEW n \in Navs, Verdict(n) PROVE TypeOK'
  <2>1. strikes' \in 0..Strikes-1
    BY <1>7, NavAssumption DEF Verdict, Strike, EnterRespawn, Enough
  <2>2. struck' \subseteq Navs /\ strange' \subseteq struck'
    <3>1. struck \subseteq Navs /\ strange \subseteq struck
      OBVIOUS
    <3>2. \/ struck' = struck /\ strange' = strange
          \/ struck' = struck \cup {n} /\ strange' \in {strange, strange \cup {n}}
      BY <1>7, Rests
    <3> HIDE DEF TypeOK
    <3> QED BY <3>1, <3>2
  <2>3. CASE Done({n}) /\ UNCHANGED <<swap, pipe, crossed>>
    <3>1. UNCHANGED <<page, view, wedged, childGen, newest, lied, left, faults>>
      BY <1>7, Rests
    <3> QED BY <2>1, <2>2, <2>3, <3>1, DoneTyped
  <2>4. CASE EnterRespawn({n})
    <3>1. UNCHANGED <<page, view, wedged, childGen, newest, lied, left, faults>>
      BY <1>7, Rests
    <3>2. Done(At("sent") \cup At("told") \cup {n})
      BY <2>4 DEF EnterRespawn
    <3>3. swap' = "closing" /\ pipe' = <<>> /\ crossed' \subseteq Navs
      BY <2>4 DEF EnterRespawn, At
    <3>4. pipe' \in Seq(Navs)
      BY <3>3
    <3> QED BY <2>1, <2>2, <3>1, <3>2, <3>3, <3>4, DoneTyped
  <2> QED BY <1>7, <2>3, <2>4, Rests
<1>8. CASE HandleReply
  <2>0. /\ Head(pipe) \in Navs /\ pipe' \in Seq(Navs)
        /\ step' = [step EXCEPT ![Head(pipe)] = "armed"]
        /\ gen' = [gen EXCEPT ![Head(pipe)] = childGen]
        /\ newest' = [nav |-> Head(pipe), selected |-> reported[Head(pipe)]]
    BY <1>8, Pumped
  <2>1. gen' \in [Navs -> 0..childGen]
    <3>1. childGen \in 0..childGen
      OBVIOUS
    <3> QED BY <2>0, <3>1
  <2>2. /\ step' \in [Navs -> {"new", "sent", "told", "armed", "checked", "done"}]
        /\ newest' \in [nav : {0} \cup Navs, selected : Urls \cup {"none"}]
    BY <2>0
  <2>3. UNCHANGED <<browser, childGen, swap, strikes, struck, strange, reported, atReply, now,
                    ghosts, faults>>
    BY <1>8, Pumped
  <2> QED BY <2>0, <2>1, <2>2, <2>3 DEF browser, ghosts
<1>9. CASE Exits
  <2>1. /\ Done(At("sent") \cup At("told") \cup {}) /\ swap' = "closing" /\ pipe' = <<>>
        /\ crossed' \subseteq Navs /\ strikes' = 0
    BY <1>9 DEF Exits, EnterRespawn, At
  <2>3. pipe' \in Seq(Navs)
    BY <2>1
  <2>2. faults' \in 0..MaxFaults
    BY <1>9, Faulty DEF Exits
  <2> QED BY <1>9, <2>1, <2>2, <2>3, DoneTyped, NavAssumption DEF Exits, browser
<1>10. CASE SwapCloses
  <2>1. 0..childGen \subseteq 0..childGen' /\ childGen' \in Nat \ {0}
    BY <1>10 DEF SwapCloses
  <2>2. gen' \in [Navs -> 0..childGen']
    BY <1>10, <2>1 DEF SwapCloses, nav
  <2> QED BY <1>10, <2>1, <2>2 DEF SwapCloses, browser, watch, nav, ghosts
<1>11. CASE SwapEnds
  BY NavAssumption, <1>11
  DEF SwapEnds, vars, browser, child, watch, nav, ghosts
<1>12. ASSUME NEW u \in Urls, PageMoves(u) PROVE TypeOK'
  <2>1. page' \in Urls /\ left' \subseteq Navs
    BY <1>12 DEF PageMoves, PageBecomes, Exposed
  <2>2. faults' \in 0..MaxFaults
    BY <1>12, Faulty DEF PageMoves
  <2> QED BY <1>12, <2>1, <2>2 DEF PageMoves, PageBecomes, browser, child, watch, nav, ghosts
<1>13. ASSUME NEW u \in Urls, Wedges(u) PROVE TypeOK'
  <2>1. page' \in Urls /\ left' \subseteq Navs
    BY <1>13 DEF Wedges, PageBecomes, Exposed
  <2>2. faults' \in 0..MaxFaults
    BY <1>13, Faulty DEF Wedges
  <2> QED BY <1>13, <2>1, <2>2 DEF Wedges, PageBecomes, browser, child, watch, nav, ghosts
<1>14. CASE UNCHANGED vars
  BY NavAssumption, <1>14
  DEF vars, browser, child, watch, nav, ghosts
<1> QED BY <1>1, <1>2, <1>3, <1>4, <1>5, <1>6, <1>7, <1>8, <1>9, <1>10, <1>11, <1>12, <1>13,
      <1>14 DEF Next, Verify

-----------------------------------------------------------------------------
(* A reply waits for its turn once, and a navigation is sampled in order.  *)

PipeInv ==
  /\ \A i \in DOMAIN pipe : step[pipe[i]] = "told"
  /\ \A i, j \in DOMAIN pipe : pipe[i] = pipe[j] => i = j

SampleInv ==
  \A n \in Navs :
    /\ step[n] # "checked" => now[n] = "pending"
    /\ step[n] \notin {"armed", "checked"} => atReply[n] = "pending"
    /\ step[n] = "checked" => atReply[n] # "pending"

LEMMA PipeStep ==
  ASSUME TypeOK, PipeInv, [Next]_vars
  PROVE  PipeInv'
<1> USE DEF PipeInv, TypeOK
<1>1. ASSUME NEW n \in Navs, Ask(n) PROVE PipeInv'
  BY <1>1
  DEF Ask, Goes, vars, browser, child, watch, nav, ghosts
<1>2. ASSUME NEW n \in Navs, Navigate(n) PROVE PipeInv'
  <2>1. step[n] = "sent" /\ step' = [step EXCEPT ![n] = "told"] /\ pipe' = Append(pipe, n)
    BY <1>2 DEF Navigate, Goes
  <2>2. \A i \in DOMAIN pipe : pipe[i] # n /\ pipe[i] \in Navs
    BY <2>1
  <2>3. \A i \in DOMAIN pipe' : \/ i \in DOMAIN pipe /\ pipe'[i] = pipe[i]
                                \/ i = Len(pipe) + 1 /\ pipe'[i] = n
    BY <2>1
  <2>4. \A i \in DOMAIN pipe' : step'[pipe'[i]] = "told"
    BY <2>1, <2>2, <2>3
  <2> HIDE DEF TypeOK
  <2>5. \A i, j \in DOMAIN pipe' : pipe'[i] = pipe'[j] => i = j
    BY <2>2, <2>3
  <2> QED BY <2>4, <2>5
<1>3. ASSUME NEW n \in Navs, NavigateFails(n) PROVE PipeInv'
  BY <1>3
  DEF NavigateFails, Goes, vars, browser, child, watch, nav, ghosts
<1>4. ASSUME NEW n \in Navs, SampleAtReply(n) PROVE PipeInv'
  BY <1>4
  DEF SampleAtReply, Answers, Fault, vars, browser, child, watch, nav, ghosts
<1>5. ASSUME NEW n \in Navs, VerifyNav(n) PROVE PipeInv'
  <2>1. pipe' = pipe /\ step[n] = "armed" /\ \A m \in Navs \ {n} : step'[m] = step[m]
    BY <1>5, Forgets DEF VerifyNav, Goes, child, Without, Kept
  <2>2. \A i \in DOMAIN pipe : pipe[i] \in Navs
    OBVIOUS
  <2> QED BY <2>1, <2>2
<1>6. ASSUME NEW n \in Navs, SampleNow(n) PROVE PipeInv'
  BY <1>6
  DEF SampleNow, Answers, Fault, vars, browser, child, watch, nav, ghosts
<1>7. ASSUME NEW n \in Navs, Verdict(n) PROVE PipeInv'
  <2>1. CASE Done({n}) /\ pipe' = pipe
    <3>1. \A m \in Navs \ {n} : step'[m] = step[m]
      BY <2>1, Forgets DEF Without, Kept
    <3>2. \A i \in DOMAIN pipe : pipe[i] \in Navs \ {n}
      <4>1. step[n] = "checked"
        BY <1>7, Rests
      <4>2. \A i \in DOMAIN pipe : pipe[i] \in Navs
        OBVIOUS
      <4> QED BY <4>1, <4>2
    <3> QED BY <2>1, <3>1, <3>2
  <2>2. CASE EnterRespawn({n})
    <3>1. DOMAIN pipe' = {}
      BY <2>2, Respawns
    <3> QED BY <3>1
  <2> QED BY <1>7, <2>1, <2>2, Rests
<1>8. CASE HandleReply
  <2>1. \A i \in DOMAIN pipe' :
          /\ i + 1 \in DOMAIN pipe /\ pipe'[i] = pipe[i + 1] /\ pipe[i + 1] # Head(pipe)
    BY <1>8, Pumped
  <2>2. \A i \in DOMAIN pipe' : pipe'[i] \in Navs
    BY <1>8, Pumped
  <2>3. \A m \in Navs \ {Head(pipe)} : step'[m] = step[m]
    BY <1>8, Pumped
  <2>4. \A i \in DOMAIN pipe' : step'[pipe'[i]] = "told"
    BY <2>1, <2>2, <2>3
  <2>5. \A i, j \in DOMAIN pipe' : pipe'[i] = pipe'[j] => i = j
    <3>1. DOMAIN pipe' \subseteq Nat
      BY <1>8, Pumped
    <3> QED BY <2>1, <3>1
  <2> QED BY <2>4, <2>5
<1>9. CASE Exits
  <2>1. DOMAIN pipe' = {}
    BY <1>9, Respawns DEF Exits
  <2> QED BY <2>1
<1>10. CASE SwapCloses
  BY <1>10
  DEF SwapCloses, vars, browser, child, watch, nav, ghosts
<1>11. CASE SwapEnds
  BY <1>11
  DEF SwapEnds, vars, browser, child, watch, nav, ghosts
<1>12. ASSUME NEW u \in Urls, PageMoves(u) PROVE PipeInv'
  BY <1>12
  DEF PageMoves, Fault, vars, browser, child, watch, nav, ghosts
<1>13. ASSUME NEW u \in Urls, Wedges(u) PROVE PipeInv'
  BY <1>13
  DEF Wedges, Fault, vars, browser, child, watch, nav, ghosts
<1>14. CASE UNCHANGED vars
  BY <1>14
  DEF vars, browser, child, watch, nav, ghosts
<1> QED BY <1>1, <1>2, <1>3, <1>4, <1>5, <1>6, <1>7, <1>8, <1>9, <1>10, <1>11, <1>12, <1>13,
      <1>14 DEF Next, Verify
LEMMA SampleStep ==
  ASSUME TypeOK, PipeInv, SampleInv, [Next]_vars
  PROVE  SampleInv'
<1> USE DEF SampleInv, TypeOK
<1>1. ASSUME NEW n \in Navs, Ask(n) PROVE SampleInv'
  BY <1>1
  DEF Ask, Goes, vars, browser, child, watch, nav, ghosts
<1>2. ASSUME NEW n \in Navs, Navigate(n) PROVE SampleInv'
  BY <1>2
  DEF Navigate, Goes, Fault, vars, browser, child, watch, nav, ghosts
<1>3. ASSUME NEW n \in Navs, NavigateFails(n) PROVE SampleInv'
  BY <1>3
  DEF NavigateFails, Goes, vars, browser, child, watch, nav, ghosts
<1>4. ASSUME NEW n \in Navs, SampleAtReply(n) PROVE SampleInv'
  BY <1>4
  DEF SampleAtReply, Answers, Fault, vars, browser, child, watch, nav, ghosts
<1>5. ASSUME NEW n \in Navs, VerifyNav(n) PROVE SampleInv'
  <2>1. CASE Done({n})
    BY <2>1, Forgets DEF Without, Reset, Kept
  <2>2. CASE Goes(n, "checked") /\ UNCHANGED <<atReply, now>>
    BY <1>5, <2>2 DEF VerifyNav, Goes
  <2> QED BY <1>5, <2>1, <2>2 DEF VerifyNav
<1>6. ASSUME NEW n \in Navs, SampleNow(n) PROVE SampleInv'
  BY <1>6
  DEF SampleNow, Answers, Fault, vars, browser, child, watch, nav, ghosts
<1>7. ASSUME NEW n \in Navs, Verdict(n) PROVE SampleInv'
  <2>1. \A m \in Navs : Reset(m) \/ Kept(m)
    <3>1. CASE Done({n})
      BY <3>1, Forgets DEF Without
    <3>2. CASE EnterRespawn({n})
      <4>1. Without(At("sent") \cup At("told") \cup {n})
        BY <3>2, Respawns
      <4> QED BY <4>1 DEF Without
    <3> QED BY <1>7, <3>1, <3>2, Rests
  <2> QED BY <2>1 DEF Reset, Kept
<1>8. CASE HandleReply
  <2>1. step[Head(pipe)] = "told"
    BY <1>8, Pumped DEF PipeInv
  <2> QED BY <1>8, <2>1, Pumped
<1>9. CASE Exits
  <2>1. Without(At("sent") \cup At("told") \cup {})
    BY <1>9, Respawns DEF Exits
  <2> QED BY <2>1 DEF Without, Reset, Kept
<1>10. CASE SwapCloses
  BY <1>10
  DEF SwapCloses, vars, browser, child, watch, nav, ghosts
<1>11. CASE SwapEnds
  BY <1>11
  DEF SwapEnds, vars, browser, child, watch, nav, ghosts
<1>12. ASSUME NEW u \in Urls, PageMoves(u) PROVE SampleInv'
  BY <1>12
  DEF PageMoves, Fault, vars, browser, child, watch, nav, ghosts
<1>13. ASSUME NEW u \in Urls, Wedges(u) PROVE SampleInv'
  BY <1>13
  DEF Wedges, Fault, vars, browser, child, watch, nav, ghosts
<1>14. CASE UNCHANGED vars
  BY <1>14
  DEF vars, browser, child, watch, nav, ghosts
<1> QED BY <1>1, <1>2, <1>3, <1>4, <1>5, <1>6, <1>7, <1>8, <1>9, <1>10, <1>11, <1>12, <1>13,
      <1>14 DEF Next, Verify

-----------------------------------------------------------------------------
(* A report that was true is, until a sample had it or its page was left,  *)
(* the page of the browser.                                                *)

TruthInv ==
  \A n \in Navs \ (lied \cup left) :
    step[n] \in {"told", "armed", "checked"} /\ reported[n] # "none" =>
      /\ atReply[n] \in Urls => atReply[n] = reported[n]
      /\ atReply[n] \notin Urls => /\ page = reported[n]
                                   /\ now[n] \in Urls => now[n] = reported[n]

LEMMA TruthStep ==
  ASSUME TypeOK, PipeInv, SampleInv, TruthInv, [Next]_vars
  PROVE  TruthInv'
<1> USE DEF TruthInv, TypeOK
<1>1. ASSUME NEW n \in Navs, Ask(n) PROVE TruthInv'
  BY <1>1
  DEF Ask, Goes, vars, browser, child, watch, nav, ghosts
<1>2. ASSUME NEW n \in Navs, Navigate(n) PROVE TruthInv'
  <2>1. step' = [step EXCEPT ![n] = "told"] /\ UNCHANGED <<atReply, now>>
    BY <1>2 DEF Navigate, Goes
  <2>2. atReply[n] = "pending" /\ now[n] = "pending" /\ "pending" \notin Urls
    BY <1>2, NavAssumption DEF Navigate, SampleInv
  <2>3. reported'[n] \in {view', "none"} /\ \A m \in Navs \ {n} : reported'[m] = reported[m]
    BY <1>2 DEF Navigate
  <2>4. CASE wedged
    <3>1. n \in lied' /\ lied \subseteq lied' /\ UNCHANGED <<page, left>>
      BY <1>2, <2>4 DEF Navigate
    <3>2. \A m \in Navs \ (lied' \cup left') : m # n /\ m \in Navs \ (lied \cup left)
      BY <3>1
    <3> QED BY <2>1, <2>3, <3>1, <3>2
  <2>5. CASE ~wedged
    <3>1. PICK u \in Urls : PageBecomes(u) /\ view' = u /\ lied' = lied
      BY <1>2, <2>5 DEF Navigate
    <3>2. /\ page' = u /\ left \subseteq left'
          /\ \A m \in Navs \ left' :
               step[m] \in {"told", "armed", "checked"} /\ atReply[m] \notin Urls => reported[m] = u
      BY <3>1, Leaves
    <3> QED BY <2>1, <2>2, <2>3, <3>1, <3>2
  <2> QED BY <2>4, <2>5
<1>3. ASSUME NEW n \in Navs, NavigateFails(n) PROVE TruthInv'
  BY <1>3
  DEF NavigateFails, Goes, vars, browser, child, watch, nav, ghosts
<1>4. ASSUME NEW n \in Navs, SampleAtReply(n) PROVE TruthInv'
  <2>1. /\ step[n] = "armed" /\ now[n] = "pending" /\ atReply[n] = "pending"
        /\ {"pending", "blind"} \cap Urls = {}
    BY <1>4, NavAssumption DEF SampleAtReply, SampleInv
  <2>2. /\ atReply'[n] \in {page, "blind"} /\ \A m \in Navs \ {n} : atReply'[m] = atReply[m]
        /\ UNCHANGED <<page, step, reported, now, lied, left>>
    <3>1. \E p \in {page, "blind"} : atReply' = [atReply EXCEPT ![n] = p]
      BY <1>4 DEF SampleAtReply, Answers
    <3> QED BY <1>4, <3>1 DEF SampleAtReply, browser, ghosts
  <2>3. n \in Navs \ (lied \cup left) /\ reported[n] # "none" => page = reported[n]
    BY <2>1
  <2> HIDE DEF TypeOK
  <2> QED BY <2>1, <2>2, <2>3
<1>5. ASSUME NEW n \in Navs, VerifyNav(n) PROVE TruthInv'
  <2>1. step[n] = "armed" /\ UNCHANGED <<page, lied, left>>
    BY <1>5 DEF VerifyNav, browser, ghosts
  <2>2. CASE Done({n})
    BY <2>1, <2>2, Forgets DEF Without, Reset, Kept
  <2>3. CASE Goes(n, "checked") /\ UNCHANGED <<gen, reported, atReply, now>>
    BY <2>1, <2>3 DEF Goes
  <2> QED BY <1>5, <2>2, <2>3 DEF VerifyNav
<1>6. ASSUME NEW n \in Navs, SampleNow(n) PROVE TruthInv'
  <2>1. step[n] = "checked" /\ {"pending", "blind"} \cap Urls = {}
    BY <1>6, NavAssumption DEF SampleNow
  <2>2. /\ now'[n] \in {page, "blind"} /\ \A m \in Navs \ {n} : now'[m] = now[m]
        /\ UNCHANGED <<page, step, reported, atReply, lied, left>>
    <3>1. \E p \in {page, "blind"} : now' = [now EXCEPT ![n] = p]
      BY <1>6 DEF SampleNow, Answers
    <3> QED BY <1>6, <3>1 DEF SampleNow, browser, ghosts
  <2> HIDE DEF TypeOK
  <2> QED BY <2>1, <2>2
<1>7. ASSUME NEW n \in Navs, Verdict(n) PROVE TruthInv'
  <2>1. UNCHANGED <<page, lied, left>>
    BY <1>7, Rests
  <2>2. \A m \in Navs : Reset(m) \/ Kept(m)
    <3>1. CASE Done({n})
      BY <3>1, Forgets DEF Without
    <3>2. CASE EnterRespawn({n})
      <4>1. Without(At("sent") \cup At("told") \cup {n})
        BY <3>2, Respawns
      <4> QED BY <4>1 DEF Without
    <3> QED BY <1>7, <3>1, <3>2, Rests
  <2> QED BY <2>1, <2>2 DEF Reset, Kept
<1>8. CASE HandleReply
  <2>1. step[Head(pipe)] = "told"
    BY <1>8, Pumped DEF PipeInv
  <2> QED BY <1>8, <2>1, Pumped DEF browser, ghosts
<1>9. CASE Exits
  <2>1. UNCHANGED <<page, lied, left>> /\ Without(At("sent") \cup At("told") \cup {})
    BY <1>9, Respawns DEF Exits, browser
  <2> QED BY <2>1 DEF Without, Reset, Kept
<1>10. CASE SwapCloses
  BY <1>10
  DEF SwapCloses, vars, browser, child, watch, nav, ghosts
<1>11. CASE SwapEnds
  BY <1>11
  DEF SwapEnds, vars, browser, child, watch, nav, ghosts
<1>12. ASSUME NEW u \in Urls, PageMoves(u) PROVE TruthInv'
  <2>1. PageBecomes(u) /\ UNCHANGED <<step, reported, atReply, now, lied>>
    BY <1>12 DEF PageMoves, nav
  <2> QED BY <2>1, Leaves
<1>13. ASSUME NEW u \in Urls, Wedges(u) PROVE TruthInv'
  <2>1. PageBecomes(u) /\ UNCHANGED <<step, reported, atReply, now, lied>>
    BY <1>13 DEF Wedges, nav
  <2> QED BY <2>1, Leaves
<1>14. CASE UNCHANGED vars
  BY <1>14
  DEF vars, browser, child, watch, nav, ghosts
<1> QED BY <1>1, <1>2, <1>3, <1>4, <1>5, <1>6, <1>7, <1>8, <1>9, <1>10, <1>11, <1>12, <1>13,
      <1>14 DEF Next, Verify

-----------------------------------------------------------------------------
(* A check that outlives its child was awaiting its samples when that one  *)
(* began to be replaced: no check begins while it is closed.               *)

CrossInv ==
  /\ \A n \in At("checked") : gen[n] # childGen => n \in crossed
  /\ swap = "closing" => At("checked") \subseteq crossed

LEMMA CrossStep ==
  ASSUME TypeOK, PipeInv, CrossInv, [Next]_vars
  PROVE  CrossInv'
<1> USE DEF CrossInv, TypeOK, At
<1>1. ASSUME NEW n \in Navs, Ask(n) PROVE CrossInv'
  BY <1>1
  DEF Ask, Goes, vars, browser, child, watch, nav, ghosts
<1>2. ASSUME NEW n \in Navs, Navigate(n) PROVE CrossInv'
  BY <1>2
  DEF Navigate, Goes, Fault, vars, browser, child, watch, nav, ghosts
<1>3. ASSUME NEW n \in Navs, NavigateFails(n) PROVE CrossInv'
  BY <1>3
  DEF NavigateFails, Goes, vars, browser, child, watch, nav, ghosts
<1>4. ASSUME NEW n \in Navs, SampleAtReply(n) PROVE CrossInv'
  BY <1>4
  DEF SampleAtReply, Answers, Fault, vars, browser, child, watch, nav, ghosts
<1>5. ASSUME NEW n \in Navs, VerifyNav(n) PROVE CrossInv'
  <2>1. UNCHANGED <<childGen, crossed, swap>>
    BY <1>5 DEF VerifyNav, child, ghosts
  <2>2. CASE Done({n})
    BY <2>1, <2>2, Forgets DEF Without, Reset, Kept
  <2>3. CASE swap = "no" /\ gen[n] = childGen /\ Goes(n, "checked") /\ gen' = gen
    BY <2>1, <2>3 DEF Goes
  <2> QED BY <1>5, <2>2, <2>3 DEF VerifyNav, SameChild
<1>6. ASSUME NEW n \in Navs, SampleNow(n) PROVE CrossInv'
  BY <1>6
  DEF SampleNow, Answers, Fault, vars, browser, child, watch, nav, ghosts
<1>7. ASSUME NEW n \in Navs, Verdict(n) PROVE CrossInv'
  <2>1. childGen' = childGen
    BY <1>7, Rests
  <2>2. CASE Done({n}) /\ UNCHANGED <<swap, crossed>>
    BY <2>1, <2>2, Forgets DEF Without, Reset, Kept
  <2>3. CASE EnterRespawn({n})
    <3>1. /\ Without(At("sent") \cup At("told") \cup {n}) /\ swap' = "closing"
          /\ crossed' = crossed \cup (At("checked") \ {n})
      BY <2>3, Respawns
    <3> QED BY <2>1, <3>1 DEF Without, Reset, Kept, At
  <2> QED BY <1>7, <2>2, <2>3, Rests
<1>8. CASE HandleReply
  <2>1. /\ step' = [step EXCEPT ![Head(pipe)] = "armed"] /\ Head(pipe) \in Navs
        /\ gen' = [gen EXCEPT ![Head(pipe)] = childGen]
        /\ UNCHANGED <<childGen, swap, crossed>>
    BY <1>8, Pumped DEF ghosts
  <2>2. \A n \in At("checked")' : n \in At("checked") /\ gen'[n] = gen[n]
    BY <2>1 DEF At
  <2> QED BY <2>1, <2>2
<1>9. CASE Exits
  <2>1. childGen' = childGen /\ EnterRespawn({})
    BY <1>9 DEF Exits
  <2>2. /\ Without(At("sent") \cup At("told") \cup {}) /\ swap' = "closing"
        /\ crossed' = crossed \cup (At("checked") \ {})
    BY <2>1, Respawns
  <2> QED BY <2>1, <2>2 DEF Without, Reset, Kept, At
<1>10. CASE SwapCloses
  BY <1>10
  DEF SwapCloses, vars, browser, child, watch, nav, ghosts
<1>11. CASE SwapEnds
  BY <1>11
  DEF SwapEnds, vars, browser, child, watch, nav, ghosts
<1>12. ASSUME NEW u \in Urls, PageMoves(u) PROVE CrossInv'
  BY <1>12
  DEF PageMoves, Fault, vars, browser, child, watch, nav, ghosts
<1>13. ASSUME NEW u \in Urls, Wedges(u) PROVE CrossInv'
  BY <1>13
  DEF Wedges, Fault, vars, browser, child, watch, nav, ghosts
<1>14. CASE UNCHANGED vars
  BY <1>14
  DEF vars, browser, child, watch, nav, ghosts
<1> QED BY <1>1, <1>2, <1>3, <1>4, <1>5, <1>6, <1>7, <1>8, <1>9, <1>10, <1>11, <1>12, <1>13,
      <1>14 DEF Next, Verify

-----------------------------------------------------------------------------
(* What is struck, and against whom.                                       *)

Growing ==
  /\ lied \subseteq lied' /\ left \subseteq left' /\ crossed \subseteq crossed'
  /\ UNCHANGED <<struck, strange>> \/ \E n \in Navs : Verdict(n)

\* What was done to the reports stays done, and only a verdict strikes.
LEMMA Grows ==
  ASSUME [Next]_vars
  PROVE  Growing
<1> USE DEF Growing
<1>1. ASSUME NEW n \in Navs, Ask(n) PROVE Growing
  BY <1>1
  DEF Ask, Goes, vars, browser, child, watch, nav, ghosts
<1>2. ASSUME NEW n \in Navs, Navigate(n) PROVE Growing
  BY <1>2 DEF Navigate, PageBecomes, watch
<1>3. ASSUME NEW n \in Navs, NavigateFails(n) PROVE Growing
  BY <1>3
  DEF NavigateFails, Goes, vars, browser, child, watch, nav, ghosts
<1>4. ASSUME NEW n \in Navs, SampleAtReply(n) PROVE Growing
  BY <1>4
  DEF SampleAtReply, Answers, Fault, vars, browser, child, watch, nav, ghosts
<1>5. ASSUME NEW n \in Navs, VerifyNav(n) PROVE Growing
  BY <1>5
  DEF VerifyNav, Goes, vars, browser, child, watch, nav, ghosts
<1>6. ASSUME NEW n \in Navs, SampleNow(n) PROVE Growing
  BY <1>6
  DEF SampleNow, Answers, Fault, vars, browser, child, watch, nav, ghosts
<1>7. ASSUME NEW n \in Navs, Verdict(n) PROVE Growing
  BY <1>7, Rests, Respawns
<1>8. CASE HandleReply
  BY <1>8 DEF HandleReply, ghosts
<1>9. CASE Exits
  BY <1>9, Respawns DEF Exits
<1>10. CASE SwapCloses
  BY <1>10
  DEF SwapCloses, vars, browser, child, watch, nav, ghosts
<1>11. CASE SwapEnds
  BY <1>11
  DEF SwapEnds, vars, browser, child, watch, nav, ghosts
<1>12. ASSUME NEW u \in Urls, PageMoves(u) PROVE Growing
  BY <1>12 DEF PageMoves, PageBecomes, watch
<1>13. ASSUME NEW u \in Urls, Wedges(u) PROVE Growing
  BY <1>13 DEF Wedges, PageBecomes, watch
<1>14. CASE UNCHANGED vars
  BY <1>14
  DEF vars, browser, child, watch, nav, ghosts
<1> QED BY <1>1, <1>2, <1>3, <1>4, <1>5, <1>6, <1>7, <1>8, <1>9, <1>10, <1>11, <1>12, <1>13,
      <1>14 DEF Next, Verify

\* A verdict against a report that was true finds its page gone.
LEMMA StruckStep ==
  ASSUME TypeOK, SampleInv, TruthInv, StruckOnlyIfLeft, [Next]_vars
  PROVE  StruckOnlyIfLeft'
<1>1. lied \subseteq lied' /\ left \subseteq left'
  BY Grows DEF Growing
<1>2. ASSUME NEW n \in Navs, Verdict(n), NavVerdict(n) = "wedge" PROVE n \in lied \cup left
  <2>1. /\ step[n] = "checked" /\ now[n] # "pending" /\ atReply[n] # "pending"
    BY <1>2, Rests DEF SampleInv
  <2>3. /\ atReply[n] \in Urls \cup {"pending", "blind"} /\ now[n] \in Urls \cup {"pending", "blind"}
        /\ {"pending", "blind"} \cap Urls = {}
    BY NavAssumption DEF TypeOK
  <2>2. /\ reported[n] # "none" /\ {atReply[n], now[n]} \ {"blind"} # {}
        /\ reported[n] \notin {atReply[n], now[n]} \ {"blind"}
    BY <1>2 DEF NavVerdict
  <2> QED BY <2>1, <2>2, <2>3 DEF TruthInv
<1>3. struck' = struck \/ \E n \in Navs : n \in lied \cup left /\ struck' = struck \cup {n}
  BY <1>2, Grows, Rests DEF Growing
<1> QED BY <1>1, <1>3 DEF StruckOnlyIfLeft

LEMMA StrangeStep ==
  ASSUME CrossInv, StrikesOwnChild, [Next]_vars
  PROVE  StrikesOwnChild'
<1>1. crossed \subseteq crossed'
  BY Grows DEF Growing
<1>2. ASSUME NEW n \in Navs, Verdict(n) PROVE strange' = strange \/ strange' \subseteq strange \cup crossed
  BY <1>2, Rests DEF CrossInv, At
<1>3. strange' = strange \/ strange' \subseteq strange \cup crossed
  BY <1>2, Grows DEF Growing
<1> QED BY <1>1, <1>3 DEF StrikesOwnChild

-----------------------------------------------------------------------------

IInv ==
  /\ TypeOK /\ PipeInv /\ SampleInv /\ TruthInv /\ CrossInv
  /\ StruckOnlyIfLeft /\ StrikesOwnChild

LEMMA IInvInit == Init => IInv
<1> SUFFICES ASSUME Init PROVE IInv
  OBVIOUS
<1>1. 0 \in 0..Strikes-1 /\ 0 \in 0..MaxFaults
  BY NavAssumption
<1>2. TypeOK
  <2>1. page \in Urls /\ view = page /\ wedged = FALSE /\ swap = "no"
        /\ childGen \in Nat \ {0}
    BY DEF Init
  <2>4. newest \in [nav : {0} \cup Navs, selected : Urls \cup {"none"}]
    BY DEF Init
  <2>5. strikes \in 0..Strikes-1 /\ pipe \in Seq(Navs) /\ faults \in 0..MaxFaults
    BY <1>1 DEF Init
  <2>2. /\ step \in [Navs -> {"new", "sent", "told", "armed", "checked", "done"}]
        /\ gen \in [Navs -> 0..childGen] /\ reported \in [Navs -> Urls \cup {"none"}]
        /\ atReply \in [Navs -> Urls \cup {"pending", "blind"}]
        /\ now \in [Navs -> Urls \cup {"pending", "blind"}]
    BY DEF Init
  <2>3. /\ strange \subseteq struck /\ struck \subseteq Navs
        /\ lied \subseteq Navs /\ left \subseteq Navs /\ crossed \subseteq Navs
    BY DEF Init
  <2> QED BY <2>1, <2>2, <2>3, <2>4, <2>5 DEF TypeOK
<1>3. PipeInv /\ SampleInv /\ TruthInv /\ CrossInv
  BY DEF Init, PipeInv, SampleInv, TruthInv, CrossInv, At
<1>4. StruckOnlyIfLeft /\ StrikesOwnChild
  BY DEF Init, StruckOnlyIfLeft, StrikesOwnChild
<1> QED BY <1>2, <1>3, <1>4 DEF IInv

LEMMA Invariance == Spec => []IInv
<1>1. ASSUME IInv, [Next]_vars PROVE IInv'
  <2>1. TypeOK' /\ PipeInv' /\ SampleInv'
    BY <1>1, TypeStep, PipeStep, SampleStep DEF IInv
  <2>2. TruthInv' /\ CrossInv'
    BY <1>1, TruthStep, CrossStep DEF IInv
  <2>3. StruckOnlyIfLeft' /\ StrikesOwnChild'
    BY <1>1, StruckStep, StrangeStep DEF IInv
  <2> QED BY <2>1, <2>2, <2>3 DEF IInv
<1> QED BY <1>1, IInvInit, PTL DEF Spec

(* The watchdog keeps its state in shape: its strikes stay below           *)
(* NAV_WEDGE_STRIKES between turns (noteNavStrike), no check is bound to a *)
(* child yet to come, and a child that is not wedged shows the browser's   *)
(* page.                                                                   *)
THEOREM NavWatchTypes == Spec => []TypeOK
<1>1. IInv => TypeOK
  BY DEF IInv
<1> QED BY <1>1, Invariance, PTL

(* However often the page moves, and whatever else the client navigates to *)
(* meanwhile, a child that told the truth is struck (verifyNav, navVerdict)*)
(* only if the page it named was gone before a first sample could show it: *)
(* the sample taken at the reply is what makes a later move harmless.      *)
THEOREM StrikesAreDeserved == Spec => []StruckOnlyIfLeft
<1>1. IInv => StruckOnlyIfLeft
  BY DEF IInv
<1> QED BY <1>1, Invariance, PTL

(* A strike (verifyNav's gen, noteNavStrike) is counted against the child  *)
(* it is about, unless its samples were already awaited when that child    *)
(* began to be replaced: no check begins while one is.                     *)
THEOREM StrikesAreAimed == Spec => []StrikesOwnChild
<1>1. IInv => StrikesOwnChild
  BY DEF IInv
<1> QED BY <1>1, Invariance, PTL
=============================================================================
