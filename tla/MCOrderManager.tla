--------------------------- MODULE MCOrderManager ---------------------------
(* One call of submit_order_set for an order of a few pieces.              *)
EXTENDS OrderManager
=============================================================================
