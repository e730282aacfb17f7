-------------------------- MODULE MCTimesketchClient --------------------------
(* Small instances of TimesketchClient. *)
EXTENDS TimesketchClient
=============================================================================
