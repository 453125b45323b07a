------------------------- MODULE MCNgServerCrowded -------------------------
(***************************************************************************)
(* The program of MCNgServer with a context for one more method, so that   *)
(* there are more contexts than slots.                                     *)
(***************************************************************************)
EXTENDS MCNgServer

CONSTANT c3

CrowdedContexts == MCContexts \cup {c3}
CrowdedContextOf == [MCContextOf EXCEPT ![bare] = c3]
CrowdedMethodOf == [c \in CrowdedContexts |-> IF c = c3 THEN bare ELSE MCMethodOf[c]]

\* unary and bare differ in name only, and so do their contexts.
Swap == (unary :> bare) @@ (bare :> unary) @@ (c1 :> c3) @@ (c3 :> c1)
CrowdedSymmetry == IdSymmetry \cup {Swap} \cup {p @@ Swap : p \in IdSymmetry}

\* What a step depends on, and the properties of this run: not what the last
\* step put on the line and which request it took.
CrowdedView == <<callsHolder, ctxCallId, request, response, seen>>
=============================================================================
