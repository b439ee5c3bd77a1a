------------------------------- MODULE MCFleet -------------------------------
(* Instances of Fleet for TLC: a disposable Name n1 and a sticky Name n2.  *)
EXTENDS Fleet, TLC

CONSTANTS n1, n2, c1, c2, c3

\* One provision at a time per Name.
OnePerName == (c1 :> n1) @@ (c2 :> n2)

\* Two provisions of n1: a closed session's and its successor's.
TwoForOne == (c1 :> n1) @@ (c3 :> n1)
=============================================================================
