----------------------------- MODULE MCDelivery -----------------------------
(* Small instances of Delivery.                                             *)
EXTENDS DeliveryProps
=============================================================================
