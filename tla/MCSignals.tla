------------------------------ MODULE MCSignals ------------------------------
(* Three agents with short periods that begin to vote in different rows, and  *)
(* agree when they vote.                                                      *)
EXTENDS Signals, Indicators

MCAgents == {<<"ema", <<1, 2>>>>, <<"bollinger", <<1>>>>, <<"macd", <<1, 2, 2>>>>}
MCFirst == [a \in MCAgents |-> FirstVote(a)]
MCRequired == required_indicator_warmup_bars(MCAgents, 1)
MCViews == {[a \in MCAgents |-> v] : v \in {-1, 0, 1}}
=============================================================================
