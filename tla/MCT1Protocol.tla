---------------------------- MODULE MCT1Protocol ----------------------------
(***************************************************************************)
(* The protocol with two requests in flight at a time, over stores that    *)
(* hold as many reviews as there are subjects.                             *)
(***************************************************************************)
EXTENDS T1Protocol, TLC

\* Sound for the invariants and the action properties: Init and Next treat
\* all requests, tokens, nonces and subjects alike.
Symmetric == Permutations(Request) \cup Permutations(Token) \cup Permutations(Nonce)
               \cup Permutations(Subject)
=============================================================================
