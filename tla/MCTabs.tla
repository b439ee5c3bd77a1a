-------------------------------- MODULE MCTabs ------------------------------
(* An instance of Tabs for TLC: two screenshots under way at once.         *)
EXTENDS Tabs

CONSTANTS s1, s2
=============================================================================
