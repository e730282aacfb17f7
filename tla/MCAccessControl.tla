---------------------------- MODULE MCAccessControl ----------------------------
(***************************************************************************)
(* AccessControl on a small instance: the system principal, an             *)
(* administrator made on the command line, and a user of the identity      *)
(* provider, whose id can return.                                          *)
(***************************************************************************)
EXTENDS AccessControl, TLC

MCSymmetry == Permutations(Requests)
=============================================================================
