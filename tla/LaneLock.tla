------------------------------ MODULE LaneLock ------------------------------
(***************************************************************************)
(* What the gateway promises about one Name (ADR 0005): at any time at     *)
(* most one party drives its Browser -- one MCP session or one CDP driver  *)
(* -- and nobody takes over from a party that has not let go.              *)
(***************************************************************************)
CONSTANT Parties
VARIABLE owner

Init == owner = {}

Acquire(p) == owner = {} /\ owner' = {p}
Release    == owner # {} /\ owner' = {}

Next == Release \/ \E p \in Parties : Acquire(p)

Spec == Init /\ [][Next]_owner
=============================================================================
