---------------------------- MODULE MCStateStore ----------------------------
(* Two interchangeable holders (the candle cycle and one other component)  *)
(* and one payload that callers write to active_trade.                     *)
EXTENDS StateStore, TLC

MCTradeDict == {[k \in {"signal_id"} |-> "s1"]}

HolderSymmetry == Permutations(Holder)
=============================================================================
