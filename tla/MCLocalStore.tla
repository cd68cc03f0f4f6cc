---------------------------- MODULE MCLocalStore ----------------------------
(***************************************************************************)
(* The document store with three users in the seeds: one invited, two      *)
(* onboarded, and one conversation.  In an empty document they are unknown.*)
(***************************************************************************)
EXTENDS LocalStore, TLC

CONSTANTS ann, ben, eve, f1, f2

MCUser == {ann, ben, eve}
MCField == {f1, f2}
MCSeed == [users |-> MCUser, active |-> {ben, eve},
           profiles |-> [u \in {ben, eve} |-> MCField],
           conversations |-> {[id |-> "seeded", pair |-> {ann, ben}, blocked |-> FALSE]},
           messages |-> {}, reports |-> {}, leads |-> {}, flags |-> {}]

\* Sound for the invariants and the action properties: Init and Next treat
\* all requests alike.
Symmetric == Permutations(Request)
=============================================================================
