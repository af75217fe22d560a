------------------------------- MODULE Settings -------------------------------
(***************************************************************************)
(* What load_settings accepts (src/src/config/settings.py), a set for each  *)
(* section of settings.yml: the values that the other modules may assume of  *)
(* their constants.  A number is counted in its smallest unit, a text is     *)
(* left out where only its presence is checked, and everything else is        *)
(* rejected with SettingsValidationError before the bot is built.            *)
(***************************************************************************)
EXTENDS Naturals, Sequences

Positive == Nat \ {0}

TRADING_MODES == {"alert_only", "paper", "live"}

AllowedDirectionsSettings ==
    [long : BOOLEAN, short : BOOLEAN] \ {[long |-> FALSE, short |-> FALSE]}

TradingSettings ==
    [mode : TRADING_MODES, allowed_directions : AllowedDirectionsSettings]

\* A duration is a count and a unit.  Months and years have no exact length
\* and are no window for the repair of gaps.
Duration(units) == Positive \X units

EXACT_IB_HISTORICAL_DURATION_UNITS == {"S", "D", "W"}
IB_HISTORICAL_DURATION_UNITS ==
    EXACT_IB_HISTORICAL_DURATION_UNITS \cup {"M", "Y"}

MarketDataSettings ==
    [bar_size : {"1 hour"},
     historical_duration : Duration(IB_HISTORICAL_DURATION_UNITS),
     use_rth : BOOLEAN,
     gap_block_recent_bars : Positive,
     gap_backfill_duration : Duration(EXACT_IB_HISTORICAL_DURATION_UNITS)]

IBSettings == [port : 1..65535, client_id : Nat, account_id : BOOLEAN]

\* A notifier that is disabled has no chats, one that is enabled at least one.
TelegramSettings ==
    [enabled : {FALSE}, chat_ids : {0}, max_retries : Nat,
     require_critical_delivery : BOOLEAN]
    \cup
    [enabled : {TRUE}, chat_ids : Positive, max_retries : Nat,
     require_critical_delivery : BOOLEAN]

ExecutionSettings ==
    [entry_order_type : {"market"},
     entry_fill_timeout_seconds : Positive,
     protective_submit_timeout_seconds : Positive,
     status_poll_seconds : Positive,
     quote_poll_seconds : Positive]

ExecutionProductSettings ==
    [con_id : Positive, leverage : Positive, issuer_fee_pct : Nat,
     enabled : BOOLEAN]

ExecutionProductsSettings ==
    [quote_max_age_seconds : Positive,
     max_spread_pct : Positive,
     max_order_value_eur : Positive,
     long : Seq(ExecutionProductSettings),
     short : Seq(ExecutionProductSettings)]

SizingSettings == [min_quantity : Positive, quantity_step : Positive]

\* Every slot has the same share of the capital, and no more slots are used
\* than there are shares.
RiskSettings ==
    {r \in [initial_capital : Positive, capital_slots : Positive,
            max_concurrent_position_slots : Positive] :
        r.max_concurrent_position_slots <= r.capital_slots}

\* The threshold is a share of the votes of all agents (21, in bias_model.py),
\* counted as the largest sum of votes that is not beyond it.
AGENT_COUNT == 21

StrategySettings ==
    [bias_threshold : 0..(AGENT_COUNT - 1),
     use_heikin_ashi : BOOLEAN,
     atr_length : Positive,
     sl_atr_mult : Positive,
     tp_atr_mult : Positive]

HealthSettings ==
    [market_data_max_age_seconds : Positive,
     last_processed_candle_max_age_seconds : Positive,
     repeated_error_limit : Positive]

RuntimeSettings ==
    [candle_close_buffer_seconds : Nat,
     bar_retry_seconds : Positive,
     bar_retry_attempts : Positive,
     clock_advisory_warn_ms : Nat,
     active_trade_monitor_seconds : 5..15]

LiveModeSettings == [enabled : BOOLEAN, allow_telegram_failure : BOOLEAN]

\* load_settings reads each section on its own: only live_mode_failures
\* compares two of them.
AppSettings ==
    [trading : TradingSettings,
     market_data : MarketDataSettings,
     ib : IBSettings,
     telegram : TelegramSettings,
     execution : ExecutionSettings,
     execution_products : ExecutionProductsSettings,
     sizing : SizingSettings,
     risk : RiskSettings,
     strategy : StrategySettings,
     health : HealthSettings,
     runtime : RuntimeSettings,
     live : LiveModeSettings]

\* settings.yml and execution_products.json of the repository: times in
\* milliseconds where they are not whole seconds, money in cents, percentages
\* and factors in tenths, and one chat, which .env names.
Shipped ==
    [trading |->
        [mode |-> "alert_only",
         allowed_directions |-> [long |-> TRUE, short |-> TRUE]],
     market_data |->
        [bar_size |-> "1 hour", historical_duration |-> <<30, "D">>,
         use_rth |-> FALSE, gap_block_recent_bars |-> 25,
         gap_backfill_duration |-> <<1, "D">>],
     ib |-> [port |-> 7497, client_id |-> 1, account_id |-> FALSE],
     telegram |->
        [enabled |-> TRUE, chat_ids |-> 1, max_retries |-> 3,
         require_critical_delivery |-> TRUE],
     execution |->
        [entry_order_type |-> "market", entry_fill_timeout_seconds |-> 60000,
         protective_submit_timeout_seconds |-> 10000,
         status_poll_seconds |-> 250, quote_poll_seconds |-> 250],
     execution_products |->
        [quote_max_age_seconds |-> 10, max_spread_pct |-> 20,
         max_order_value_eur |-> 10000,
         long |-> <<[con_id |-> 100000001, leverage |-> 100,
                     issuer_fee_pct |-> 0, enabled |-> FALSE]>>,
         short |-> <<[con_id |-> 100000002, leverage |-> 100,
                      issuer_fee_pct |-> 0, enabled |-> FALSE]>>],
     sizing |-> [min_quantity |-> 1, quantity_step |-> 1],
     risk |->
        [initial_capital |-> 100000, capital_slots |-> 10,
         max_concurrent_position_slots |-> 1],
     strategy |->
        [bias_threshold |-> 4, use_heikin_ashi |-> TRUE, atr_length |-> 14,
         sl_atr_mult |-> 10, tp_atr_mult |-> 20],
     health |->
        [market_data_max_age_seconds |-> 7200,
         last_processed_candle_max_age_seconds |-> 10800,
         repeated_error_limit |-> 3],
     runtime |->
        [candle_close_buffer_seconds |-> 5, bar_retry_seconds |-> 15,
         bar_retry_attempts |-> 12, clock_advisory_warn_ms |-> 5000,
         active_trade_monitor_seconds |-> 10],
     live |-> [enabled |-> FALSE, allow_telegram_failure |-> FALSE]]

ASSUME ShippedIsLoaded == Shipped \in AppSettings
=============================================================================
