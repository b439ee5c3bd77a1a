------------------------------ MODULE Identity ------------------------------
(***************************************************************************)
(* The handles sessions identify themselves with (chikin_identify):        *)
(* registry.ts claimHandle and remove, the gate of bridge.ts that keeps    *)
(* browser tools shut until a handle is claimed, and session.ts close.     *)
(* The session object keeps its handle after it closed; the registry's map *)
(* must not.                                                               *)
(***************************************************************************)

CONSTANTS Sessions, Handles, None

ASSUME NoneIsNoHandle == None \notin Sessions \cup Handles

VARIABLES
    byHandle,   \* registry.byHandle: handle -> the session that holds it
    handle,     \* session.handle, set by the claim and never unset
    closed      \* session.isClosed

idVars == <<byHandle, handle, closed>>

IdInit ==
    /\ byHandle = [h \in Handles |-> None]
    /\ handle = [s \in Sessions |-> None]
    /\ closed = [s \in Sessions |-> FALSE]

\* isBrowserWork / classifyClientFrame: browser tools are blocked until then.
Identified(s) == handle[s] # None

\* A holder that has closed does not hold its handle.
Free(h, s) == byHandle[h] \notin {None, s} => closed[byHandle[h]]

\* Slip: the former handle is kept.
KeepsFormer(s, h) == byHandle

\* The session's former handle, if it is still its own, is let go.
Released(s, h) ==
    [g \in Handles |-> IF g = handle[s] /\ g # h /\ byHandle[g] = s
                       THEN None ELSE byHandle[g]]

\* chikin_identify. The handler asks nothing of the session: a POST that the
\* transport was still reading when the session closed claims its handle too.
ClaimHandle(s, h) ==
    /\ Free(h, s)
    /\ byHandle' = [Released(s, h) EXCEPT ![h] = s]
    /\ handle' = [handle EXCEPT ![s] = h]
    /\ UNCHANGED closed

\* The entry is dropped only where this session is still the holder.
Freed(s) ==
    [h \in Handles |-> IF h = handle[s] /\ byHandle[h] = s THEN None ELSE byHandle[h]]

\* session.close -> registry.remove: once.
CloseSession(s) ==
    /\ ~closed[s]
    /\ closed' = [closed EXCEPT ![s] = TRUE]
    /\ byHandle' = Freed(s)
    /\ UNCHANGED handle

-----------------------------------------------------------------------------

(* The map and the field hold sessions and handles (registry.ts byHandle,  *)
(* session.ts handle), or nothing.                                         *)
IdTypeOK ==
    /\ byHandle \in [Handles -> Sessions \cup {None}]
    /\ handle \in [Sessions -> Handles \cup {None}]
    /\ closed \in [Sessions -> BOOLEAN]

(* The field and the map never drift (registry.ts claimHandle), over       *)
(* claims, claims of another handle, closes and late claims of a closed    *)
(* session: a live session's handle leads back to it - so no two live      *)
(* sessions share one - and no other handle does.                          *)
HandlesAgree ==
    \A s \in Sessions : ~closed[s] =>
        \A h \in Handles : byHandle[h] = s <=> handle[s] = h

=============================================================================
