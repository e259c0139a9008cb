----------------------------- MODULE MCSubscribe -----------------------------
(* Small instances of SubscribeWait.                                        *)
EXTENDS SubscribeProps
=============================================================================
