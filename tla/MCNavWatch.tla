----------------------------- MODULE MCNavWatch -----------------------------
(* An instance of NavWatch for TLC: two documents.                         *)
EXTENDS NavWatch

CONSTANTS a, b
=============================================================================
