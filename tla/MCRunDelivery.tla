--------------------------- MODULE MCRunDelivery ---------------------------
(* Instances of RunDelivery for TLC. *)
EXTENDS RunDelivery
=============================================================================
