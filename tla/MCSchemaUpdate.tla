--------------------------- MODULE MCSchemaUpdate ----------------------------
(***************************************************************************)
(* SchemaUpdate on a small instance: the second build brings a migration,  *)
(* the third a new ATT&CK release.  The one module fetches two directories. *)
(***************************************************************************)
EXTENDS SchemaUpdate, TLC

CONSTANTS b1, b2, b3, sigma, mappings

MCVersions   == 1 .. 2
MCLatest(b)  == IF b = b1 THEN 1 ELSE 2
MCRelease(b) == IF b = b3 THEN 2 ELSE 1
MCTrees(m)   == {sigma, mappings}

MCSymmetry == Permutations(Updates) \cup Permutations(Files) \cup Permutations({sigma, mappings})
=============================================================================
