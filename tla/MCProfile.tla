------------------------------ MODULE MCProfile ------------------------------
(* Small instances of Profile. *)
EXTENDS ProfileProps

OnePin == {9999}
=============================================================================
