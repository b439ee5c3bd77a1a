------------------------------ MODULE MCBridge ------------------------------
(* An instance of Bridge for TLC: the requests a client may send.          *)
EXTENDS Bridge

CONSTANTS p1, b1, b2, r1, r2
=============================================================================
