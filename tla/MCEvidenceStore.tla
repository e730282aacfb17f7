--------------------------- MODULE MCEvidenceStore ---------------------------
(***************************************************************************)
(* EvidenceStore on a small instance: one module turns file "a" into "b",  *)
(* another, like plaso, into "b" and "c".                                  *)
(***************************************************************************)
EXTENDS EvidenceStore, TLC

CONSTANTS a, b, c

MCOutputs(n) == IF n = a THEN {{b}, {b, c}} ELSE {}

MCSymmetry == Permutations(Ids) \cup Permutations(Requests) \cup Permutations(Contents)
=============================================================================
