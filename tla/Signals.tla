-------------------------------- MODULE Signals --------------------------------
(***************************************************************************)
(* From candles to signals (src/src/strategy): on every candle the agents   *)
(* vote, the sum of the votes is the bias, and a signal is a bias that has   *)
(* crossed a threshold since the row before.                                *)
(*                                                                         *)
(* What an agent thinks at a candle follows from all candles up to it; it is *)
(* kept as a view per candle that a fetch may revise: the broker corrects a  *)
(* candle, an earlier one arrives late, or a process starts its candles at   *)
(* another one.  A cycle may fail between any two candles.                   *)
(***************************************************************************)
EXTENDS Integers, FiniteSets, Settings

CONSTANTS
    MaxBar,    \* bound: the last candle
    Agents,    \* those that vote
    First,     \* the row from which on each votes
    Required,  \* required_indicator_warmup_bars
    Threshold, \* the largest sum of votes whose bias is within bias_threshold
    Views,     \* what the agents may think at a candle
    Prices,    \* closes of a candle
    Ranges,    \* values of the ATR at a candle
    SlMult, TpMult

ASSUME SignalsAssumption ==
    /\ MaxBar \in Nat \ {0}
    /\ IsFiniteSet(Agents)
    /\ First \in [Agents -> Nat \ {0}]
    /\ Required \in Nat \ {0}
    /\ \A a \in Agents : First[a] <= Required
    /\ Views # {} /\ Views \subseteq [Agents -> {-1, 0, 1}]
    /\ Prices \subseteq Nat \ {0}
    /\ Ranges \subseteq Nat
    /\ Threshold \in 0..(Cardinality(Agents) - 1)
    /\ SlMult \in Positive /\ TpMult \in Positive

VARIABLES
    rows,     \* the candles of the process
    view,     \* what the agents think at each of them
    done,     \* the processed marker of the process
    saved,    \* last_processed_candle_ts in the state file
    last,     \* last_signal_id
    latest,   \* history: the latest signal of this process
    following \* history: nothing was revised since a candle that gave a
              \* signal or had a bias within the thresholds

vars == <<rows, view, done, saved, last, latest, following>>

Bar == 1..MaxBar

NoSignal == [bar |-> 0, side |-> "none", entry |-> 0, sl |-> 0, tp |-> 0]

\* The views of the candles the process does not have.
NoView == LET v == CHOOSE v \in Views : TRUE IN [n \in Bar |-> v]

Id(signal) == <<signal.bar, signal.side>>

----------------------------------------------------------------------------
(* calculate_bias on the candles up to the one that is processed.          *)

Row(n) == Cardinality({m \in rows : m <= n})

Votes(n, vote) == {a \in Agents : First[a] <= Row(n) /\ view[n][a] = vote}

\* total_votes of the row of candle n.
Total(n) == Cardinality(Votes(n, 1)) - Cardinality(Votes(n, -1))

\* The side of the thresholds the bias is on.
Side(n) ==
    IF Total(n) > Threshold THEN "BUY"
    ELSE IF Total(n) < -Threshold THEN "SELL"
    ELSE "none"

\* Enough rows for the row of candle n to be complete.
Ready(n) == Row(n) >= Required

----------------------------------------------------------------------------
(* generate_signal                                                          *)

IsPrevious(m, n) == m \in rows /\ m < n /\ \A k \in rows : k < n => k <= m

\* Mutant: the row before is not looked at.
CrossesAlways(n, side) ==
    side = Side(n) /\ side # "none" /\ \E m \in rows : IsPrevious(m, n)

\* Mutant: only a bias that comes from within the thresholds has crossed one.
CrossesFromWithin(n, side) ==
    /\ side = Side(n) /\ side # "none"
    /\ \E m \in rows : IsPrevious(m, n) /\ Side(m) = "none"

\* crossover, crossunder
Crosses(n, side) ==
    /\ side = Side(n) /\ side # "none"
    /\ \E m \in rows : IsPrevious(m, n) /\ Side(m) # side

\* Mutant: a short is protected like a long.
BuiltLong(n, side, price, atr) ==
    [bar |-> n, side |-> side, entry |-> price,
     sl |-> price - atr * SlMult, tp |-> price + atr * TpMult]

\* _build_signal
Built(n, side, price, atr) ==
    [bar |-> n, side |-> side, entry |-> price,
     sl |-> IF side = "BUY" THEN price - atr * SlMult ELSE price + atr * SlMult,
     tp |-> IF side = "BUY" THEN price + atr * TpMult ELSE price - atr * TpMult]

\* The ATR and both protective prices are positive.
Buildable(signal, atr) == atr > 0 /\ signal.sl > 0 /\ signal.tp > 0

----------------------------------------------------------------------------
(* The candles of the process.                                             *)

\* One candle of a fetch, missing so far or revised; the views of candles that
\* came before it in time but not to the process follow in the same way.
Fetch ==
    /\ rows # {}
    /\ \E n \in Bar, v \in Views :
          /\ rows' = rows \cup {n}
          /\ view' = [view EXCEPT ![n] = v]
          /\ following' = (following /\ (n \in rows => v = view[n]))
    /\ UNCHANGED <<done, saved, last, latest>>

\* A process starts with the marker of the state file.  Its first fetch sets
\* the baseline at the latest candle; the ones before that are fetched like
\* late ones.
Restart ==
    \E n \in Bar, v \in Views :
        /\ rows' = {n}
        /\ view' = [NoView EXCEPT ![n] = v]
        /\ done' = IF saved > n THEN saved ELSE n
        /\ saved' = done'
        /\ latest' = NoSignal
        /\ following' = FALSE
        /\ UNCHANGED last

----------------------------------------------------------------------------
(* The candles after the marker, oldest first.                             *)

IsNext(n) == n \in rows /\ n > done /\ \A m \in rows : m > done => m >= n

Mark(n) ==
    /\ done' = n
    /\ saved' = n
    /\ UNCHANGED <<rows, view, last>>

\* StrategySignalNotReadyError for want of rows.
NotReady ==
    /\ \E n \in rows : IsNext(n) /\ ~Ready(n) /\ Mark(n)
    /\ UNCHANGED <<latest, following>>

\* No threshold is crossed, or the signal is the last one once more.
NoCrossing ==
    \E n \in rows :
        /\ IsNext(n) /\ Ready(n)
        /\ \/ \A side \in {"BUY", "SELL"} : ~Crosses(n, side)
           \/ \E side \in {"BUY", "SELL"} :
                 Crosses(n, side) /\ last = <<n, side>>
        /\ Mark(n)
        /\ following' = (following \/ Side(n) = "none")
        /\ UNCHANGED latest

\* SignalEngineError is handled like a warm-up that is incomplete: the candle
\* is processed, and its crossing gone.
NotBuildable ==
    \E n \in rows, price \in Prices, atr \in Ranges :
        /\ IsNext(n) /\ Ready(n)
        /\ \E side \in {"BUY", "SELL"} :
              /\ Crosses(n, side)
              /\ ~Buildable(Built(n, side, price, atr), atr)
        /\ Mark(n)
        /\ following' = FALSE
        /\ UNCHANGED latest

\* A signal.  The marker and the id are saved when it has been handled; where
\* that fails only the marker of the process has moved.
Emit ==
    \E n \in rows, side \in {"BUY", "SELL"}, price \in Prices, atr \in Ranges :
        LET signal == Built(n, side, price, atr)
        IN /\ IsNext(n) /\ Ready(n) /\ Crosses(n, side)
           /\ Buildable(signal, atr)
           /\ last # Id(signal)
           /\ latest' = signal
           /\ done' = n
           /\ \/ saved' = n /\ last' = Id(signal)
              \/ UNCHANGED <<saved, last>>
           /\ following' = TRUE
           /\ UNCHANGED <<rows, view>>

----------------------------------------------------------------------------
Init ==
    /\ rows = {}
    /\ view = NoView
    /\ done = 0
    /\ saved = 0
    /\ last = Id(NoSignal)
    /\ latest = NoSignal
    /\ following = FALSE

Next == Fetch \/ Restart \/ NotReady \/ NoCrossing \/ NotBuildable \/ Emit

Spec == Init /\ [][Next]_vars

----------------------------------------------------------------------------
(* Properties.                                                             *)

Sides == {"BUY", "SELL", "none"}

\* Every variable has its type.
TypeOK ==
    /\ rows \subseteq Bar
    /\ view \in [Bar -> Views]
    /\ done \in 0..MaxBar /\ saved \in 0..MaxBar
    /\ last \in (0..MaxBar) \X Sides
    /\ latest \in [bar : 0..MaxBar, side : Sides, entry : Nat, sl : Nat,
                   tp : Nat]
    /\ following \in BOOLEAN

\* generate_signal against _run_cycle: while the process follows the bias, no
\* crossing is lost.  A bias beyond a threshold at the last processed candle
\* has been signalled, whatever candles were late, missing or handled in vain.
CrossingsFollowed ==
    following /\ Side(done) # "none" => latest.side = Side(done)

\* generate_signal: nor is one signalled twice: a signal of the side of the
\* one before means that the bias has left the side in between.
SideLeftBetween ==
    [][following /\ latest' # latest /\ latest'.side = latest.side
       => \E m \in rows : /\ latest.bar < m /\ m < latest'.bar
                          /\ Side(m) # latest.side]_vars

\* _build_signal: the stop is on the losing and the target on the winning
\* side of the entry, and neither price is zero or less.
ProtectedOnBothSides ==
    /\ latest.side = "BUY" =>
          0 < latest.sl /\ latest.sl < latest.entry /\ latest.entry < latest.tp
    /\ latest.side = "SELL" =>
          0 < latest.tp /\ latest.tp < latest.entry /\ latest.entry < latest.sl

\* required_indicator_warmup_bars ("needed before signal calculations are
\* meaningful"): a signal compares two rows on which every agent has voted.
ComparedRowsComplete ==
    [][latest' # latest /\ latest'.bar # 0 =>
       \A m \in rows : IsPrevious(m, latest'.bar) =>
          \A a \in Agents : First[a] <= Row(m)]_vars
=============================================================================
