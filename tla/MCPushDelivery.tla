--------------------------- MODULE MCPushDelivery ---------------------------
(* PushDelivery for TLC: deliveries and installations are interchangeable. *)
EXTENDS PushDelivery, TLC

MCSymmetry == Permutations(Delivery) \cup Permutations(Installation)
=============================================================================
