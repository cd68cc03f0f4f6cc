------------------------------ MODULE T1Nonces ------------------------------
(***************************************************************************)
(* What the two session stores share: the private service draws a nonce    *)
(* for each session it creates, and the Fastify store keeps it beside the  *)
(* review.                                                                 *)
(***************************************************************************)
CONSTANT Nonce  \* the nonces secrets.token_hex can produce
=============================================================================
