--------------------------- MODULE MCT1ReviewPage ---------------------------
(***************************************************************************)
(* The page with three reviews to prepare, of which two may be under way   *)
(* together, and eight things for the user to do.  No symmetry: the run    *)
(* checks liveness too.                                                    *)
(***************************************************************************)
EXTENDS T1ReviewPage, TLC
=============================================================================
