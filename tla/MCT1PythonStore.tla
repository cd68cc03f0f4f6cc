-------------------------- MODULE MCT1PythonStore --------------------------
(***************************************************************************)
(* The Python store with two workers and one session more than it may      *)
(* hold, sizes that reach the byte limit.                                  *)
(***************************************************************************)
EXTENDS T1PythonStore
=============================================================================
