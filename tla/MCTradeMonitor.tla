---------------------------- MODULE MCTradeMonitor ----------------------------
(* One position of a few pieces under the trade monitor.                   *)
EXTENDS TradeMonitor
=============================================================================
