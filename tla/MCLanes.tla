------------------------------- MODULE MCLanes -------------------------------
(* An instance of Lanes for TLC: two clients of the MCP lane, two drivers  *)
(* on the CDP lane, the first of them with two websockets.                 *)
EXTENDS Lanes, TLC

CONSTANTS d1, d2, k1, k2, k3, h1, h2

DriversOf == (k1 :> d1) @@ (k2 :> d1) @@ (k3 :> d2) @@ (h1 :> d1) @@ (h2 :> d2)

\* A socket for the first driver, a handshake for the second.
FewDrivers == (k1 :> d1) @@ (h1 :> d2)
=============================================================================
