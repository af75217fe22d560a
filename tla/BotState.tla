------------------------------ MODULE BotState ------------------------------
(***************************************************************************)
(* The bot state the program keeps in one JSON file, and the pure          *)
(* functions that combine two versions of it (src/src/state/state_store.py). *)
(*                                                                         *)
(* A state is a record                                                     *)
(*   candle  last_processed_candle_ts      (None when never set)           *)
(*   signal  last_signal_id                (None when never set)           *)
(*   trade   active_trade, a dictionary    (a function on its keys)        *)
(*   orders  known_order_ids and known_perm_ids (both lists are merged the *)
(*           same way, so one set stands for them)                         *)
(*   estop   emergency_stop                                                *)
(* daily_risk is written by nobody and is left out; updated_at is not part *)
(* of the record, see StateStore.                                          *)
(***************************************************************************)

CONSTANT None

\* An empty active_trade: no trade is being tracked.
NoTrade == [k \in {} |-> None]

BlankState ==
    [candle |-> None, signal |-> None, trade |-> NoTrade, orders |-> {},
     estop |-> FALSE]

\* The Python expression (incoming or current) for optional strings.
Either(incoming, current) == IF incoming # None THEN incoming ELSE current

\* The Python expression {**current, **incoming}.
Overlay(current, incoming) ==
    [k \in DOMAIN current \cup DOMAIN incoming |->
        IF k \in DOMAIN incoming THEN incoming[k] ELSE current[k]]

\* The trade of s with the keys of dict set.
WithTrade(s, dict) == [s EXCEPT !.trade = Overlay(@, dict)]

IdentityKeys ==
    {"submitted_signal_id", "signal_id", "order_id", "perm_id",
     "product_con_id", "product_local_symbol"}

HasKey(dict, k) == k \in DOMAIN dict /\ dict[k] # None

\* Two dictionaries describe the same trade: they share an identity key and
\* agree on every one they share.
SameActiveTrade(left, right) ==
    LET shared == {k \in IdentityKeys : HasKey(left, k) /\ HasKey(right, k)}
    IN  /\ shared # {}
        /\ \A k \in shared : left[k] = right[k]

\* Mutant: the trade on disk wins over another trade.
MergeActiveTradeKeepingOld(current, incoming) ==
    IF current # NoTrade /\ ~SameActiveTrade(current, incoming)
    THEN current ELSE Overlay(current, incoming)

MergeActiveTrade(current, incoming) ==
    CASE incoming = NoTrade                 -> current
      [] incoming # NoTrade /\ current # NoTrade
            /\ SameActiveTrade(current, incoming) -> Overlay(current, incoming)
      [] OTHER                              -> incoming

\* Mutant: the emergency stop of the saved copy wins.
MergeConcurrentStateLastStop(current, incoming) ==
    [candle |-> Either(incoming.candle, current.candle),
     signal |-> Either(incoming.signal, current.signal),
     trade  |-> MergeActiveTrade(current.trade, incoming.trade),
     orders |-> current.orders \cup incoming.orders,
     estop  |-> incoming.estop]

MergeConcurrentState(current, incoming) ==
    [candle |-> Either(incoming.candle, current.candle),
     signal |-> Either(incoming.signal, current.signal),
     trade  |-> MergeActiveTrade(current.trade, incoming.trade),
     orders |-> current.orders \cup incoming.orders,
     estop  |-> current.estop \/ incoming.estop]

\* What save() writes: the copy itself when no one has written since it was
\* read, else its merge into what is on disk.
Saved(current, incoming, unchanged) ==
    IF unchanged THEN incoming ELSE MergeConcurrentState(current, incoming)
=============================================================================
