----------------------------- MODULE CandleStore -----------------------------
(***************************************************************************)
(* The candles a process keeps in memory (src/src/data/candle_store.py).   *)
(*                                                                         *)
(* A candle is the number of an hour of an open trading session, so that a *)
(* missing number is a gap the market calendar does not excuse.  A store   *)
(* is a record                                                             *)
(*   made    FALSE until the first fetch has constructed it                *)
(*   bars    the closed candles it holds                                   *)
(*   marker  latest_processed_candle_ts, 0 for None                        *)
(*   odd     a candle off the hourly grid is among them                    *)
(* Prices are left out, and the trimming to the last 300 candles.          *)
(***************************************************************************)
EXTENDS Naturals, FiniteSets

NoStore == [made |-> FALSE, bars |-> {}, marker |-> 0, odd |-> FALSE]

NewStore(marker) == [NoStore EXCEPT !.made = TRUE, !.marker = marker]

IsLatest(bars, n) == n \in bars /\ \A b \in bars : b <= n

\* The hours between two candles of the store that it does not hold.
Gaps(bars) ==
    UNION {(a + 1)..(b - 1) : a, b \in bars} \ bars

\* update(): the candles are merged before their spacing is validated, so an
\* odd candle stays and makes this update and every later one raise.
Updated(store, received, odd) ==
    [store EXCEPT !.bars = @ \cup received, !.odd = @ \/ odd]

\* get_new_closed_candles
NewCandles(store) == {n \in store.bars : n > store.marker}

NextNew(store, n) ==
    n \in NewCandles(store) /\ \A b \in NewCandles(store) : n <= b

\* The candles up to n a signal is computed from.
Window(store, n) == {b \in store.bars : b <= n}

Marked(store, n) == [store EXCEPT !.marker = n]
=============================================================================
