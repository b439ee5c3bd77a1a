---------------------------- MODULE ProfileStore ----------------------------
(***************************************************************************)
(* What the fleet promises about profiles and slots, with no gate, no      *)
(* Docker call and no reaper in sight: a Name's profile is made once, is   *)
(* mounted by at most one browser while one of MaxFleet slots is free,     *)
(* keeps what the browser wrote, and is discarded only if the Name is a    *)
(* disposable one and no browser mounts it.                                *)
(***************************************************************************)
EXTENDS Naturals, FiniteSets

CONSTANTS Names, Instances, MaxFleet

VARIABLES
  profile,  \* none | fresh (seeded, never opened) | used
  mounted   \* the Names that hold a slot

storeVars == <<profile, mounted>>

Init ==
  /\ profile = [n \in Names |-> "none"]
  /\ mounted = {}

Make(n) ==
  /\ profile[n] = "none" /\ n \notin mounted
  /\ profile' = [profile EXCEPT ![n] = "fresh"]
  /\ UNCHANGED mounted

Mount(n) ==
  /\ profile[n] # "none" /\ n \notin mounted
  /\ Cardinality(mounted) < MaxFleet
  /\ mounted' = mounted \cup {n}
  /\ UNCHANGED profile

Open(n) ==
  /\ n \in mounted
  /\ profile' = [profile EXCEPT ![n] = "used"]
  /\ UNCHANGED mounted

\* One browser goes, or several at once (the gateway's boot).
Unmount(S) ==
  /\ S \subseteq mounted
  /\ mounted' = mounted \ S
  /\ UNCHANGED profile

Discard(S) ==
  /\ S \subseteq Instances \ mounted
  /\ profile' = [n \in Names |-> IF n \in S THEN "none" ELSE profile[n]]
  /\ UNCHANGED mounted

Next ==
  \/ \E n \in Names : Make(n) \/ Mount(n) \/ Open(n)
  \/ \E S \in SUBSET Names : Unmount(S) \/ Discard(S)

Spec == Init /\ [][Next]_storeVars
=============================================================================
