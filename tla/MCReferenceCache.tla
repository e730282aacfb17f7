--------------------------- MODULE MCReferenceCache ---------------------------
(***************************************************************************)
(* ReferenceCache with one table: the two tables share nothing, not even   *)
(* their mutex.                                                            *)
(***************************************************************************)
EXTENDS ReferenceCache
=============================================================================
