------------------------------ MODULE MCWpsLink ------------------------------
(* Small instances of WpsLink.                                              *)
EXTENDS WpsLinkProps

\* Doubling is the doubling of the reconnect schedule, in closed form.
ASSUME DoublingIsAPower == \A n \in 0 .. 10 : Doubling[n] = InitialBackoff * 2 ^ n
=============================================================================
