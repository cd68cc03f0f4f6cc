------------------------- MODULE MCT1SessionStore -------------------------
(***************************************************************************)
(* The session store on a small instance: more subjects and tokens than    *)
(* the store may hold, text sizes that reach the byte limit, and remaining *)
(* times before, inside and beyond the TTL.                                *)
(***************************************************************************)
EXTENDS T1SessionStore, TLC

MCInputBytes == {-1, 1, 2}
MCInputRemaining == {0, 1, 5}

\* Sound for the invariants and the action properties: Init and Next treat
\* all tokens, and all subjects, alike.
Symmetric == Permutations(Token) \cup Permutations(Subject)
=============================================================================
