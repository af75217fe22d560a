---------------------------- MODULE MCManagedTrade ----------------------------
(* One submission of a few pieces, and the monitor beside it.              *)
EXTENDS ManagedTrade
=============================================================================
