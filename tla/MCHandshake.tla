------------------------------ MODULE MCHandshake ------------------------------
(***************************************************************************)
(* Handshake and its properties for TLC.                                    *)
(***************************************************************************)
EXTENDS HandshakeProps

TwoSteps == <<"wait", "cmd">>
=============================================================================
