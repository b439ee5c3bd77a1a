------------------------------ MODULE MCOwned -------------------------------
(* An instance of Owned for TLC: the session me and, for the handles, one  *)
(* other.                                                                  *)
EXTENDS Owned

CONSTANTS me, other, h1, h2

\* bound: the other session is about while me has made no owned call. The
\* two share nothing but whether me is identified and closed.
Scenes ==
    \/ \A c \in Calls : call[c].stage = "new"
    \/ handle[other] = None /\ ~closed[other] /\ handle[me] \in {None, h1}
=============================================================================
