------------------------------ MODULE MCChannel ------------------------------
(* Small instances of Channel. *)
EXTENDS ChannelProps
=============================================================================
