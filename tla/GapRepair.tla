------------------------------ MODULE GapRepair ------------------------------
(***************************************************************************)
(* The repair of the gaps between the candles of a cycle and the verdict   *)
(* on the gaps that stay (_repair_and_validate_candle_gaps of              *)
(* src/src/main.py, src/src/data/market_calendar.py).                      *)
(*                                                                         *)
(* Here a candle is the time it starts at.  Time is an integer; a candle   *)
(* lasts Interval units, and a session may open or close within one.       *)
(*   market    the sessions the market really has                          *)
(*   calendar  those the contract details listed at the last refresh       *)
(*   bars      the candles of the store                                    *)
(*   todo      the missing candles still to be requested                   *)
(*   window    the last backfill request: for which candle, up to when     *)
(*   pc        "repair", then the verdict, or "raised"                     *)
(* Prices, and the wording of the reports, are left out.                   *)
(***************************************************************************)
EXTENDS CandleStore, Integers

CONSTANTS
    Interval,       \* candle_interval
    Duration,       \* gap_backfill_duration
    GapBlock,       \* gap_block_recent_bars
    MaxCandles,     \* MAX_SESSION_CANDLES
    Horizon,        \* bound: the end of the modelled time
    Markets         \* the sets of trading sessions to consider

\* The settings only ask for a positive duration; 1 D is the one in use.
ASSUME GapRepairAssumption ==
    /\ {Interval, GapBlock, MaxCandles} \subseteq Nat \ {0}
    /\ Duration \in Nat /\ Duration >= 2 * Interval
    /\ Horizon \in Nat
    /\ \A M \in Markets : \A s \in M : {s.start, s.end} \subseteq Int

VARIABLES market, calendar, bars, todo, window, pc, now

vars == <<market, calendar, bars, todo, window, pc, now>>

Hours == {t \in 0..Horizon : \E k \in 0..Horizon : t = k * Interval}

----------------------------------------------------------------------------
(* The calendar and the gaps.                                              *)

\* Mutant: the end of the candle is not compared.
StartsInSession(sessions, b) ==
    \E s \in sessions : s.start <= b /\ b < s.end

\* is_full_bar_inside_trading_session
Inside(sessions, b) ==
    \E s \in sessions : s.start <= b /\ b + Interval <= s.end

\* IB lists the session of the moment and later ones, not the past.
Listed(sessions, refreshed) == {s \in sessions : s.end > refreshed}

\* detect_missing_candles
Missing(S) == {b \in Hours \ S : \E p, n \in S : p < b /\ b < n}

\* validate_candle_gaps
Unexpected(S) == {b \in Missing(S) : Inside(calendar, b)}

\* count_open_session_bars_after
OpenAfter(b, latest) ==
    Cardinality({h \in Hours : b < h /\ h <= latest /\ Inside(calendar, h)})

\* Mutant: only candles strictly within the distance block.
BlocksNearer(b, latest) == OpenAfter(b, latest) < GapBlock

\* _classify_candle_gap_impact
Blocks(b, latest) == OpenAfter(b, latest) <= GapBlock

\* trim_to_latest
Trimmed(S) == {b \in S : Cardinality({c \in S : c > b}) < MaxCandles}

----------------------------------------------------------------------------
(* The backfill requests.                                                  *)

Least(S) == CHOOSE t \in S : \A u \in S : t <= u

\* Mutants: the request ends when the missing candle starts, or is capped by
\* the clock only.
EndAtMissing(b, latest) == Least({b, latest + Interval, now})
EndByClock(b, latest) == Least({b + Duration \div 2, now})

\* _centered_backfill_end_timestamp, _backfill_end_cap
BackfillEnd(b, latest) ==
    Least({b + Duration \div 2, latest + Interval, now})

\* The candles a request up to a time can bring.
InWindow(to) == {b \in Hours : b < to /\ to <= b + Duration}

NoWindow == [bar |-> 0, to |-> 0]

\* update() drops what has not closed.
Merged(received) == bars \cup {b \in received : b + Interval <= now}

\* The missing candles are requested oldest first, each once.
Requested(b) ==
    /\ pc = "repair"
    /\ b \in todo /\ \A c \in todo : b <= c
    /\ \E latest \in bars :
          /\ IsLatest(bars, latest)
          /\ window' = [bar |-> b, to |-> BackfillEnd(b, latest)]
    /\ UNCHANGED <<market, calendar, now>>

Backfilled(b) ==
    /\ Requested(b)
    /\ \E S \in SUBSET InWindow(window'.to) : bars' = Merged(S)
    /\ todo' = todo \ {b}
    /\ UNCHANGED pc

\* A request that fails is logged, and the next one is made.
BackfillFails(b) ==
    /\ Requested(b)
    /\ todo' = todo \ {b}
    /\ UNCHANGED <<bars, pc>>

\* A candle off the grid makes update() raise, which ends the cycle.
BackfillRaises(b) ==
    /\ Requested(b)
    /\ pc' = "raised"
    /\ UNCHANGED <<bars, todo>>

\* Mutant: the verdict waits for a repair that filled every gap.
VerdictWhenRepaired ==
    /\ pc = "repair"
    /\ todo = {}
    /\ bars' = Trimmed(bars)
    /\ Unexpected(bars') = {}
    /\ pc' = "allowed"
    /\ UNCHANGED <<market, calendar, todo, window, now>>

\* The gaps are looked for again after the repair.
Verdict ==
    /\ pc = "repair"
    /\ todo = {}
    /\ bars' = Trimmed(bars)
    /\ \E latest \in bars' :
          /\ IsLatest(bars', latest)
          /\ pc' = IF \E b \in Unexpected(bars') : Blocks(b, latest)
                   THEN "blocked" ELSE "allowed"
    /\ UNCHANGED <<market, calendar, todo, window, now>>

Repair ==
    \/ \E b \in todo : Backfilled(b) \/ BackfillFails(b) \/ BackfillRaises(b)
    \/ Verdict

Tick ==
    /\ pc = "repair"
    /\ now < Horizon
    /\ now' = now + 1
    /\ UNCHANGED <<market, calendar, bars, todo, window, pc>>

----------------------------------------------------------------------------
\* The gaps are those of the candles as fetched, before they are trimmed.
Init ==
    /\ market \in Markets
    /\ now \in 1..Horizon
    /\ \E refreshed \in 0..now : calendar = Listed(market, refreshed)
    /\ \E fetched \in SUBSET Hours :
          /\ \E latest \in fetched : IsLatest(fetched, latest)
          /\ \A b \in fetched : b + Interval <= now
          /\ bars = Trimmed(fetched)
          /\ todo = Unexpected(fetched)
    /\ window = NoWindow
    /\ pc = "repair"

Next == Repair \/ Tick

Spec == Init /\ [][Next]_vars

\* A request to IB is answered or fails.
FairSpec == Spec /\ WF_vars(Repair)

----------------------------------------------------------------------------
(* Properties.                                                             *)

\* The types; a candle has closed, and no request asks for the future.
TypeOK ==
    /\ market \in Markets
    /\ calendar \subseteq market
    /\ bars \subseteq Hours /\ bars # {}
    /\ \A b \in bars : b + Interval <= now
    /\ todo \subseteq Hours
    /\ window \in [bar : Hours, to : 0..now]
    /\ pc \in {"repair", "allowed", "blocked", "raised"}
    /\ now \in 1..Horizon

\* A backfill is an occasion for IB to return newer candles too: a repair
\* must not let the store move on to a candle the cycle did not fetch
\* (main.py:1260-1285, the cap of the request's end).
RepairKeepsLatest ==
    [][\A b \in bars : IsLatest(bars, b) => IsLatest(bars', b)]_vars

\* However close to the latest candle the gap is, the request made for it
\* spans the whole missing candle.
WindowCovers ==
    window # NoWindow =>
        /\ window.bar + Interval <= window.to
        /\ window.to <= window.bar + Duration

\* The n candles that sessions list before the latest candle, or those of
\* them the store reaches back to.
Recent(sessions, n) ==
    {b \in Hours :
        /\ \E s \in sessions : b..(b + Interval) \subseteq s.start..s.end
        /\ \E first, last \in bars : first < b /\ b < last
        /\ LET newer == {c \in Hours :
                  /\ \E s \in sessions :
                        c..(c + Interval) \subseteq s.start..s.end
                  /\ b <= c
                  /\ \E last \in bars : c < last}
           IN Cardinality(newer) <= n}

\* Signals are allowed only if the GapBlock open-session candles before the
\* latest are all held after the repair, and are if one more is: whatever
\* came in, was asked for twice or was trimmed (main.py:867-900).
VerdictRight ==
    /\ pc = "allowed" => Recent(calendar, GapBlock) \subseteq bars
    /\ pc = "blocked" => ~(Recent(calendar, GapBlock + 1) \subseteq bars)

\* README.md:37: "Gaps within `market_data.gap_block_recent_bars` block
\* signal processing", said of open trading sessions.
RecentGapsBlock ==
    pc = "allowed" => Recent(market, GapBlock) \subseteq bars

\* The repair of a cycle ends, however many requests fail.
RepairEnds == <>(pc # "repair")
=============================================================================
