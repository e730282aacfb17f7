----------------------------- MODULE MCJobQueue -----------------------------
(***************************************************************************)
(* JobQueue on a small instance.                                           *)
(***************************************************************************)
EXTENDS JobQueue, TLC

CONSTANTS j1, j2, w1, w2

MCSymmetry == Permutations(JobIds) \cup Permutations(Workers)
=============================================================================
