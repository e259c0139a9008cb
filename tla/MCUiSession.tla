------------------------------ MODULE MCUiSession ------------------------------
(***************************************************************************)
(* UiSession and its properties for TLC.                                    *)
(***************************************************************************)
EXTENDS UiSessionProps
=============================================================================
