----------------------------- MODULE MCCaseRecords -----------------------------
(* Small instances of CaseRecords. *)
EXTENDS CaseRecords, TLC

Symmetry == Permutations(Requests) \cup Permutations(Malware) \cup Permutations(Hashes)
=============================================================================
