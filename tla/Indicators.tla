------------------------------ MODULE Indicators ------------------------------
(***************************************************************************)
(* The warm-up of the strategy (src/src/strategy): in which row of the      *)
(* candles each indicator has its first value.  Values are left out: an     *)
(* indicator without one is NaN, both comparisons with NaN are false, and   *)
(* the agent that compares it casts no vote.                                *)
(*                                                                         *)
(* An agent is <<rule, periods>>, as in the tables of bias_model.py.        *)
(***************************************************************************)
EXTENDS Integers, FiniteSets, FiniteSetsExt, Settings

\* The tables of bias_model.py: the 21 agents.
ABMAgents ==
    ({"ema"} \X {<<5, 10>>, <<5, 20>>, <<10, 20>>, <<10, 50>>})
    \cup ({"sma"} \X {<<5, 10>>, <<5, 20>>, <<10, 50>>})
    \cup ({"rsi"} \X {<<14>>})
    \cup ({"fundamental"} \X {<<20>>, <<50>>, <<100>>, <<200>>})
    \cup ({"macd"} \X {<<12, 26, 9>>, <<20, 50, 10>>, <<8, 21, 6>>})
    \cup ({"bollinger"} \X {<<20>>})
    \cup ({"breakout"} \X {<<5>>, <<17>>, <<21>>})
    \cup ({"roc"} \X {<<13>>, <<27>>})

\* A window of this many values, rolling (min_periods), exponential or of
\* Wilder's average, over a series that begins in row "from".
WindowFull(from, period) == from + period - 1

\* shift(k), diff() for k = 1.
Shifted(from, k) == from + k

calculate_ema(period) == WindowFull(1, period)
calculate_sma(period) == WindowFull(1, period)
calculate_rsi(period) == WindowFull(Shifted(1, 1), period)

\* The first true range has no previous close; the maximum skips it.
calculate_atr(period) == WindowFull(1, period)

calculate_macd(slow, signal) == WindowFull(calculate_ema(slow), signal)
calculate_roc(period) == Shifted(1, period)
calculate_breakout_levels(period) == WindowFull(Shifted(1, 1), period)

\* The row from which on an agent votes.
FirstVote(agent) ==
    LET p == agent[2]
    IN CASE agent[1] = "ema" -> calculate_ema(p[2])
         [] agent[1] = "sma" -> calculate_sma(p[2])
         [] agent[1] = "rsi" -> calculate_rsi(p[1])
         [] agent[1] = "fundamental" -> calculate_ema(p[1])
         [] agent[1] = "macd" -> calculate_macd(p[2], p[3])
         [] agent[1] = "bollinger" -> calculate_sma(p[1])
         [] agent[1] = "breakout" -> calculate_breakout_levels(p[1])
         [] agent[1] = "roc" -> calculate_roc(p[1])

\* What each agent contributes to required_indicator_warmup_bars.
WarmupOf(agent) ==
    LET p == agent[2]
    IN CASE agent[1] \in {"ema", "sma"} -> p[2]
         [] agent[1] \in {"rsi", "fundamental", "bollinger"} -> p[1]
         [] agent[1] = "macd" -> p[2] + p[3] - 1
         [] agent[1] \in {"breakout", "roc"} -> p[1] + 1

required_indicator_warmup_bars(agents, atr_period) ==
    Max({WarmupOf(a) : a \in agents} \cup {atr_period})

\* The tables are complete, and the required rows are enough for each agent:
\* for the RSI, which needs one row more than its period, only because others
\* need far more.
ASSUME ABMTables ==
    /\ Cardinality(ABMAgents) = AGENT_COUNT
    /\ \A a \in ABMAgents :
          FirstVote(a) <= required_indicator_warmup_bars(
                              ABMAgents, Shipped.strategy.atr_length)
    /\ \E a \in ABMAgents : FirstVote(a) > WarmupOf(a)
=============================================================================
