---------------------------- MODULE MCCaseArchive ----------------------------
(***************************************************************************)
(* CaseArchive on a small instance: with a budget of 2 the binaries of     *)
(* Source fit exactly, those of Elsewhere each alone but not together.     *)
(***************************************************************************)
EXTENDS CaseArchive, TLC

MCSourceFiles  == <<1, 1>>
MCForeignFiles == <<2, 2>>

MCSymmetry == Permutations(Requests)
=============================================================================
