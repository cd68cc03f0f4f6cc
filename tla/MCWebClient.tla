------------------------------- MODULE MCWebClient ------------------------------
(***************************************************************************)
(* The web client with two peers, a conversation with one of them and the  *)
(* other as a match, and a profile of one required and one optional field. *)
(***************************************************************************)
EXTENDS WebClient

CONSTANTS p1, p2, f1, f2, us, gb, low, wording, structure, a, b

MCThreads == <<p1>>
MCStepFields == <<{f1}, {}>>
================================================================================
