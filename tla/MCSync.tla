-------------------------------- MODULE MCSync --------------------------------
(***************************************************************************)
(* SyncStore and its properties for TLC.                                    *)
(***************************************************************************)
EXTENDS SyncProps
=============================================================================
