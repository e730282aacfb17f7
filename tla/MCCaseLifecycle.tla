---------------------------- MODULE MCCaseLifecycle ----------------------------
(* Small instances of CaseLifecycle and of the records it is composed with. *)
EXTENDS CaseLifecycle, TLC

Symmetry == Permutations(Requests) \cup Permutations(Malware) \cup Permutations(Hashes)
=============================================================================
