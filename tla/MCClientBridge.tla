--------------------------- MODULE MCClientBridge ---------------------------
(* An instance of ClientBridge for TLC: two calls after the handshake.     *)
EXTENDS ClientBridge

CONSTANTS hello, c1, c2
=============================================================================
