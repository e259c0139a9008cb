--------------------------- MODULE MCLineSession ---------------------------
(* Small instances of LineSession. *)
EXTENDS LineProps
=============================================================================
