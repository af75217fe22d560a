---------------------------- MODULE MCCandleCycle ----------------------------
(* A few hours of candles, two starts of the process.                      *)
EXTENDS CandleCycle
=============================================================================
