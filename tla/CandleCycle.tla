----------------------------- MODULE CandleCycle -----------------------------
(***************************************************************************)
(* The main loop (src/src/main.py): once an hour a cycle fetches candles,  *)
(* judges their gaps, and turns each new one into a signal and perhaps a   *)
(* submission; a cycle that fails is followed by recovery, and recovery    *)
(* that fails by the emergency stop and the end of the process.            *)
(*                                                                         *)
(* A submission is one step here: OrderManager shows that its entry is not *)
(* transmitted before it is recorded.  Signals, trades and orders are      *)
(* named by their candle.  The trade monitor is reduced to its writes and  *)
(* to whether its task lives, see TradeMonitor.                            *)
(***************************************************************************)
EXTENDS BotState, CandleStore, Settings

CONSTANTS
    MaxBar,     \* bound: the last candle to close
    MaxStarts,  \* bound: starts of the process
    Modes,      \* trading modes: subset of {"paper", "alert_only"}
    Signals,    \* candles that carry a signal
    Delta,      \* candles asked for by the fetch of a running process
    MaxLag,     \* how many closed candles the broker may not serve yet
    OddBars,    \* the broker may return a candle off the grid
    GapBlock,   \* gap_block_recent_bars
    MinRows,    \* candles needed to compute a signal
    MaxAge,     \* last_processed_candle_max_age, in candles
    Attempts    \* repeated_error_limit: attempts of a recovery

ASSUME CycleAssumption ==
    /\ MaxBar \in Nat \ {0} /\ MaxStarts \in Nat \ {0} /\ Delta \in Nat \ {0}
    /\ Modes \subseteq TRADING_MODES \ {"live"}
    /\ None \notin Nat
    /\ Signals \subseteq 1..MaxBar
    /\ MaxLag \in Nat /\ GapBlock \in Positive /\ MinRows \in Nat
    /\ MaxAge \in Positive /\ Attempts \in Positive
    /\ OddBars \in BOOLEAN

VARIABLES
    mode,       \* trading.mode
    disk,       \* the state file
    clean,      \* nobody has written since the cycle's copy was in step with it
    mem,        \* the cycle's copy of the state
    store,      \* the candle store of the process
    scope,      \* the scope of the cycle's fetch
    pc,         \* where the main task is
    warned,     \* the cycle has sent its notification about the warm-up
    attempt,    \* attempts of the recovery under way
    seen,       \* trades at work in the snapshot the risk check will use
    monitor,    \* the monitor's task
    now,        \* candles that have closed
    open,       \* trades with a position or a working order at the broker
    execs,      \* trades with executions the broker still reports
    submitted,  \* history: how often the signal of a candle was submitted
    startedAt,  \* history: candles closed when the process started
    stopAtStart,\* history: the emergency stop when the cycle started
    returned,   \* history: candles up to the last signal that a baseline put
                \* before the loop again
    starts

brokerVars == <<open, execs, submitted>>
cycleVars == <<mem, store, scope, warned, attempt, seen>>
runVars == <<startedAt, stopAtStart, starts>>
historyVars == <<runVars, returned>>
vars == <<mode, disk, clean, pc, cycleVars, monitor, now, brokerVars,
          historyVars>>

Bar == 1..MaxBar

\* Where the main task awaits or sleeps; elsewhere it runs uninterrupted.
Awaiting == {"off", "idle", "fetch", "repair", "warning", "signal",
             "snapshot", "product", "submitting", "failing", "recovering"}
PC == Awaiting \cup {"judge", "candle"}

Marker(candle) == IF candle = None THEN 0 ELSE candle

\* Mutant: the copy is written over whatever is in the file.
SaveUnmerged(s) ==
    /\ mem' = s
    /\ disk' = s
    /\ UNCHANGED clean

\* save(): the copy stays in step with the file only if it was.
Save(s) ==
    /\ mem' = s
    /\ disk' = Saved(disk, s, clean)
    /\ UNCHANGED clean

\* A transaction by anyone else.
Write(new) ==
    /\ disk' = new
    /\ clean' = FALSE

Unsaved == UNCHANGED <<disk, clean>>
World == <<mode, now, brokerVars, historyVars>>

\* What save() raises, before or after it has replaced the file, fails the cycle.
SaveThen(s, next) ==
    \/ Save(s) /\ pc' = next /\ UNCHANGED attempt
    \/ /\ Save(s) \/ (mem' = s /\ Unsaved)
       /\ pc' = "failing"
       /\ attempt' = 0

\* The candle of the last signal that was dealt with, 0 for none.
LastSignal == Marker(disk.signal)

----------------------------------------------------------------------------
(* Start, end and crash of the process.                                    *)

\* AccountReconciliationGate: what the broker reports belongs to active_trade.
Reconciles(s) ==
    \A n \in open \cup execs :
        "signal_id" \in DOMAIN s.trade /\ s.trade.signal_id = n

Guarded == mode = "paper"

Fresh(running) ==
    /\ store' = NoStore
    /\ pc' = running
    /\ warned' = FALSE
    /\ attempt' = 0
    /\ seen' = {}
    /\ scope' = "warmup"

Start ==
    /\ pc = "off"
    /\ starts < MaxStarts
    /\ starts' = starts + 1
    /\ startedAt' = now
    /\ IF Guarded => Reconciles(disk)
       THEN Fresh("idle") /\ monitor' = IF Guarded THEN "running" ELSE "none"
       ELSE UNCHANGED <<pc, store, warned, attempt, seen, scope, monitor>>
    /\ UNCHANGED <<mode, disk, clean, mem, now, brokerVars, stopAtStart,
                   returned>>

\* The process ends, by an error nothing catches or by a crash.
End ==
    /\ Fresh("off")
    /\ monitor' = "none"

Crash ==
    /\ pc # "off"
    /\ End
    /\ Unsaved
    /\ UNCHANGED <<mem, World>>

----------------------------------------------------------------------------
(* A cycle: the fetch and the gaps.                                        *)

StartCycle ==
    /\ pc = "idle"
    /\ mem' = disk
    /\ clean' = TRUE
    /\ warned' = FALSE
    /\ seen' = {}
    /\ stopAtStart' = disk.estop
    /\ pc' = "fetch"
    /\ UNCHANGED <<mode, disk, store, scope, attempt, monitor, now,
                   brokerVars, startedAt, returned, starts>>

\* execute_cycle catches every error of a cycle.
Fails ==
    /\ pc' = "failing"
    /\ attempt' = 0
    /\ UNCHANGED <<scope, warned, seen, monitor>>

\* The calendar, the account, a quote or an order cannot be requested, or the
\* journal not be written.
RequestFails ==
    /\ pc \in {"fetch", "signal", "snapshot", "product"}
    /\ Fails
    /\ Unsaved
    /\ UNCHANGED <<mem, store, World>>

\* What a request for the candles from lo on may return.  Nothing in the code
\* bounds how far the latest of them may be behind the clock: MaxLag does.
Served(lo) ==
    {S \in SUBSET (lo..now) :
        S = {} \/ \E n \in S : n + MaxLag >= now}

OddServed == IF OddBars THEN BOOLEAN ELSE {FALSE}

\* _fetch_and_update_candle_store.  The store exists from the first fetch on,
\* whatever becomes of the rest of that cycle.
Fetched ==
    /\ pc = "fetch"
    /\ scope' = IF store.made THEN "delta" ELSE "warmup"
    /\ LET held == IF store.made THEN store ELSE NewStore(Marker(mem.candle))
           lo   == IF store.made /\ now > Delta THEN now - Delta + 1 ELSE 1
       IN \E S \in Served(lo), odd \in OddServed :
             /\ store' = Updated(held, S, odd)
             /\ pc' = IF store'.odd THEN "failing"
                      ELSE IF store'.bars = {} THEN "idle"
                      ELSE IF Gaps(store'.bars) = {} THEN "judge"
                      ELSE "repair"
    /\ attempt' = 0
    /\ Unsaved
    /\ UNCHANGED <<mem, warned, seen, monitor, World>>

\* _attempt_unexpected_gap_backfills, with what all its requests returned:
\* the window around a gap reaches to the latest candle at most.
Repaired ==
    /\ pc = "repair"
    /\ \E latest \in store.bars, odd \in OddServed :
          /\ IsLatest(store.bars, latest)
          /\ \E S \in SUBSET (1..latest) : store' = Updated(store, S, odd)
          /\ pc' = IF odd THEN "failing" ELSE "judge"
    /\ attempt' = 0
    /\ Unsaved
    /\ UNCHANGED <<mem, scope, warned, seen, monitor, World>>

\* _classify_candle_gap_impact
Blocked ==
    \E n \in Gaps(store.bars) :
        \E latest \in store.bars : IsLatest(store.bars, latest)
                                   /\ latest - n <= GapBlock

\* A notification that must be delivered in paper mode.
Required == IF Guarded THEN BOOLEAN ELSE {TRUE}

GapBlocks ==
    /\ pc = "judge"
    /\ Blocked
    /\ \E ok \in Required : pc' = IF ok THEN "idle" ELSE "failing"
    /\ attempt' = 0
    /\ Unsaved
    /\ UNCHANGED <<mem, store, scope, warned, seen, monitor, World>>

\* Candle n is marked in the store and in the copy of the state.
Mark(n) == store' = Marked(store, n)

WithCandle(n) == [mem EXCEPT !.candle = n]

\* The candles that a baseline at n puts before the loop although their signals
\* were dealt with: none if the last signal alone is beyond it, because that one
\* is recognized by its id.
PutBack(n) == IF n + 1 < LastSignal THEN (n + 1)..LastSignal ELSE {}

\* The first fetch of a process only sets the baseline.
Baseline ==
    /\ pc = "judge"
    /\ ~Blocked
    /\ scope = "warmup"
    /\ \E n \in store.bars :
          /\ IsLatest(store.bars, n)
          /\ Mark(n)
          /\ SaveThen(WithCandle(n), "idle")
          /\ returned' = returned \cup PutBack(n)
    /\ UNCHANGED <<mode, now, brokerVars, runVars, scope, warned, seen, monitor>>

TakeCandles ==
    /\ pc = "judge"
    /\ ~Blocked
    /\ scope = "delta"
    /\ pc' = IF NewCandles(store) = {} THEN "idle" ELSE "candle"
    /\ Unsaved
    /\ UNCHANGED <<cycleVars, monitor, World>>

----------------------------------------------------------------------------
(* A cycle: its candles, oldest first.                                     *)

NotReady(n) == Cardinality(Window(store, n)) < MinRows

\* The first candle that is not ready is announced before it is marked.
WarnNotReady ==
    /\ pc = "candle"
    /\ ~warned
    /\ \E n \in NewCandles(store) : NextNew(store, n) /\ NotReady(n)
    /\ \E ok \in Required :
          IF ok THEN /\ pc' = "warning"
                     /\ warned' = TRUE
                     /\ UNCHANGED attempt
                ELSE /\ pc' = "failing"
                     /\ attempt' = 0
                     /\ UNCHANGED warned
    /\ Unsaved
    /\ UNCHANGED <<mem, store, scope, seen, monitor, World>>

SkipNotReady ==
    /\ pc \in {"candle", "warning"}
    /\ warned
    /\ \E n \in NewCandles(store) :
          /\ NextNew(store, n)
          /\ NotReady(n)
          /\ Mark(n)
          /\ SaveThen(WithCandle(n), "candle")
    /\ UNCHANGED <<scope, warned, seen, monitor, World>>

\* Mutant: the id of the last signal is not compared.
SignalAtRepeated(n) == n \in Signals

\* generate_signal drops a signal whose id is the last one's.
SignalAt(n) == n \in Signals /\ mem.signal # n

\* Mutant: a candle without a signal is marked in the state only.
NoSignalUnmarked ==
    /\ pc = "candle"
    /\ \E n \in NewCandles(store) :
          /\ NextNew(store, n)
          /\ ~NotReady(n)
          /\ ~SignalAt(n)
          /\ Save(WithCandle(n))
    /\ pc' = "idle"
    /\ UNCHANGED <<store, scope, warned, attempt, seen, monitor, World>>

NoSignal ==
    /\ pc = "candle"
    /\ \E n \in NewCandles(store) :
          /\ NextNew(store, n)
          /\ ~NotReady(n)
          /\ ~SignalAt(n)
          /\ Mark(n)
          /\ SaveThen(WithCandle(n), pc)
    /\ UNCHANGED <<scope, warned, seen, monitor, World>>

\* The candle is marked before its signal is recorded; that is not saved yet.
SignalFound ==
    /\ pc = "candle"
    /\ \E n \in NewCandles(store) :
          /\ NextNew(store, n)
          /\ ~NotReady(n)
          /\ SignalAt(n)
          /\ Mark(n)
          /\ mem' = WithCandle(n)
    /\ pc' = "signal"
    /\ Unsaved
    /\ UNCHANGED <<scope, warned, attempt, seen, monitor, World>>

CandlesDone ==
    /\ pc = "candle"
    /\ NewCandles(store) = {}
    /\ pc' = "idle"
    /\ Unsaved
    /\ UNCHANGED <<cycleVars, monitor, World>>

\* The candle whose signal is being handled.
Current == mem.candle

SignalHandled(s) ==
    /\ SaveThen([s EXCEPT !.signal = Current], "candle")
    /\ UNCHANGED <<store, scope, warned, seen, monitor>>

AlertOnly ==
    /\ pc = "signal"
    /\ mode = "alert_only"
    /\ SignalHandled(mem)
    /\ UNCHANGED World

\* _handle_paper_signal: assert_trading_allowed looks at the cycle's copy.
StopRefuses ==
    /\ pc = "signal"
    /\ Guarded
    /\ mem.estop
    /\ Fails
    /\ Unsaved
    /\ UNCHANGED <<mem, store, World>>

\* Mutant: the stop is left to the order manager.
StopIgnored ==
    /\ pc = "signal"
    /\ Guarded
    /\ pc' = "snapshot"
    /\ Unsaved
    /\ UNCHANGED <<cycleVars, monitor, World>>

StopAllows ==
    /\ pc = "signal"
    /\ Guarded
    /\ ~mem.estop
    /\ pc' = "snapshot"
    /\ Unsaved
    /\ UNCHANGED <<cycleVars, monitor, World>>

SnapshotRead ==
    /\ pc = "snapshot"
    /\ seen' = open
    /\ pc' = "product"
    /\ Unsaved
    /\ UNCHANGED <<mem, store, scope, warned, attempt, monitor, World>>

\* No product is usable, or the risk manager blocks the trade.
SignalBlocked ==
    /\ pc = "product"
    /\ SignalHandled(mem)
    /\ UNCHANGED World

\* _guard_duplicate_submission
AlreadySubmitted ==
    "signal_id" \in DOMAIN mem.trade /\ mem.trade.signal_id = Current

Recorded ==
    [mem EXCEPT !.trade = [signal_id |-> Current], !.signal = Current,
                !.orders = @ \cup {Current}]

\* Mutant: the risk check ignores the trades at work.
SubmitUnchecked ==
    /\ pc = "product"
    /\ ~AlreadySubmitted
    /\ open' = open \cup {Current}
    /\ submitted' = [submitted EXCEPT ![Current] = @ + 1]
    /\ Save(Recorded)
    /\ pc' = "submitting"
    /\ UNCHANGED <<mode, now, execs, historyVars, store, scope, warned,
                   attempt, seen, monitor>>

\* The one slot is free in the snapshot: the order manager submits and records
\* the trade.
Submit ==
    /\ pc = "product"
    /\ seen = {}
    /\ ~AlreadySubmitted
    /\ open' = open \cup {Current}
    /\ submitted' = [submitted EXCEPT ![Current] = @ + 1]
    /\ Save(Recorded)
    /\ pc' = "submitting"
    /\ UNCHANGED <<mode, now, execs, historyVars, store, scope, warned,
                   attempt, seen, monitor>>

\* A status event of the order.
StatusSaved ==
    /\ pc = "submitting"
    /\ Save(Recorded)
    /\ pc' = pc
    /\ UNCHANGED <<store, scope, warned, attempt, seen, monitor, World>>

SubmissionReturns ==
    /\ pc = "submitting"
    /\ SignalHandled(mem)
    /\ UNCHANGED World

\* The order manager raises, with or without the emergency stop.
SubmissionRaises ==
    /\ pc = "submitting"
    /\ \/ Unsaved
       \/ Write([disk EXCEPT !.estop = TRUE])
    /\ Fails
    /\ UNCHANGED <<mem, store, World>>

----------------------------------------------------------------------------
(* Recovery.                                                               *)

\* execute_cycle: a notification that must be delivered, then the monitor's
\* task is cancelled and awaited.  If either raises, the process ends.
RecoveryAborted ==
    /\ pc = "failing"
    /\ Guarded
    /\ End
    /\ Unsaved
    /\ UNCHANGED <<mem, World>>

RecoveryStarts ==
    /\ pc = "failing"
    /\ monitor # "dead"
    /\ monitor' = "none"
    /\ pc' = "recovering"
    /\ Unsaved
    /\ UNCHANGED <<cycleVars, World>>

\* check_last_processed_candle_age; check_repeated_errors counts the failure
\* itself, so that a limit of one lets no recovery succeed.
MarkerIsRecent == disk.candle # None => now - disk.candle <= MaxAge

AttemptSucceeds ==
    /\ pc = "recovering"
    /\ Reconciles(disk)
    /\ Attempts > 1
    /\ MarkerIsRecent
    /\ \E ok \in Required :
          IF ok THEN /\ pc' = "idle"
                     /\ monitor' = IF Guarded THEN "running" ELSE "none"
                     /\ attempt' = 0
                     /\ UNCHANGED <<store, scope, warned, seen>>
                ELSE End
    /\ Unsaved
    /\ UNCHANGED <<mem, World>>

\* Mutant: the attempts are not counted.
AttemptFailsUncounted ==
    /\ pc = "recovering"
    /\ attempt + 1 < Attempts
    /\ Unsaved
    /\ UNCHANGED <<pc, cycleVars, monitor, World>>

AttemptFails ==
    /\ pc = "recovering"
    /\ attempt + 1 < Attempts
    /\ attempt' = attempt + 1
    /\ Unsaved
    /\ UNCHANGED <<pc, mem, store, scope, warned, seen, monitor, World>>

\* The attempts are exhausted, or the failure of one cannot be reported: the
\* emergency stop is activated, which may itself fail, and the process ends.
FailsClosed ==
    /\ pc = "recovering"
    /\ Guarded \/ attempt + 1 = Attempts
    /\ Write([disk EXCEPT !.estop = TRUE]) \/ Unsaved
    /\ End
    /\ UNCHANGED <<mem, World>>

Cycle ==
    \/ StartCycle \/ RequestFails \/ Fetched \/ Repaired \/ GapBlocks
    \/ Baseline \/ TakeCandles \/ WarnNotReady \/ SkipNotReady \/ NoSignal
    \/ SignalFound \/ CandlesDone \/ AlertOnly \/ StopRefuses \/ StopAllows
    \/ SnapshotRead \/ SignalBlocked \/ Submit \/ StatusSaved
    \/ SubmissionReturns \/ SubmissionRaises

Recovery ==
    \/ RecoveryAborted \/ RecoveryStarts
    \/ AttemptSucceeds \/ AttemptFails \/ FailsClosed

----------------------------------------------------------------------------
(* The monitor's task, the broker and the clock, at every await.           *)

Watching == monitor = "running" /\ disk.trade # NoTrade

\* A quote is recorded, or the trade that is over is cleared.
MonitorWrites ==
    /\ Watching
    /\ Write([disk EXCEPT !.trade =
                IF disk.trade.signal_id \in open THEN @ ELSE NoTrade])
    /\ UNCHANGED monitor

MonitorStops ==
    /\ Watching
    /\ Write([disk EXCEPT !.estop = TRUE])
    /\ monitor' \in {"running", "dead"}

MonitorDies ==
    /\ Watching
    /\ monitor' = "dead"
    /\ Unsaved

MonitorStep ==
    /\ pc \in Awaiting
    /\ MonitorWrites \/ MonitorStops \/ MonitorDies
    /\ UNCHANGED <<pc, cycleVars, World>>

TradeFills ==
    /\ \E n \in open : execs' = execs \cup {n}
    /\ UNCHANGED <<open, now>>

TradeEnds ==
    /\ \E n \in open : open' = open \ {n}
    /\ UNCHANGED <<execs, now>>

\* The broker reports the executions of the current day only.
DayEnds ==
    /\ execs' = {}
    /\ UNCHANGED <<open, now>>

CandleCloses ==
    /\ now < MaxBar
    /\ now' = now + 1
    /\ UNCHANGED <<open, execs>>

WorldStep ==
    /\ pc \in Awaiting
    /\ TradeFills \/ TradeEnds \/ DayEnds \/ CandleCloses
    /\ Unsaved
    /\ UNCHANGED <<mode, pc, cycleVars, monitor, submitted, historyVars>>

----------------------------------------------------------------------------
Init ==
    /\ mode \in Modes
    /\ disk = BlankState
    /\ clean = FALSE
    /\ mem = BlankState
    /\ store = NoStore
    /\ scope = "warmup"
    /\ pc = "off"
    /\ warned = FALSE
    /\ attempt = 0
    /\ seen = {}
    /\ monitor = "none"
    /\ now = 1
    /\ open = {}
    /\ execs = {}
    /\ submitted = [n \in Bar |-> 0]
    /\ startedAt = 0
    /\ stopAtStart = FALSE
    /\ returned = {}
    /\ starts = 0

Next == Start \/ Crash \/ Cycle \/ Recovery \/ MonitorStep \/ WorldStep

Spec == Init /\ [][Next]_vars

\* Every request and notification ends: asyncio resumes the main task.
FairSpec == Spec /\ WF_vars(Recovery)

----------------------------------------------------------------------------
(* Properties.                                                             *)

StateOK(s) ==
    /\ DOMAIN s = DOMAIN BlankState
    /\ s.candle \in Bar \cup {None} /\ s.signal \in Bar \cup {None}
    /\ s.trade = NoTrade \/ s.trade \in [{"signal_id"} -> Bar]
    /\ s.orders \subseteq Bar
    /\ s.estop \in BOOLEAN

\* Every variable has its type.
TypeOK ==
    /\ mode \in Modes
    /\ StateOK(disk) /\ StateOK(mem)
    /\ clean \in BOOLEAN /\ warned \in BOOLEAN /\ stopAtStart \in BOOLEAN
    /\ store \in [made : BOOLEAN, bars : SUBSET Bar, marker : 0..MaxBar,
                  odd : BOOLEAN]
    /\ scope \in {"warmup", "delta"}
    /\ pc \in PC
    /\ attempt \in 0..(Attempts - 1)
    /\ seen \subseteq Bar /\ open \subseteq Bar /\ execs \subseteq Bar
    /\ monitor \in {"none", "running", "dead"}
    /\ now \in Bar /\ startedAt \in 0..MaxBar
    /\ submitted \in [Bar -> Nat]
    /\ starts \in 0..MaxStarts
    /\ returned \subseteq Bar

\* README.md, PROJECT_PLAN.md ("prevent duplicate order submission after
\* restart"): whatever fails in a cycle, is retried by recovery or cut off by a
\* crash, the signal of a candle is submitted at most once, unless the baseline
\* of a restart was set, by an answer of the broker that came late, more than
\* one candle behind the last signal.
SubmittedOnce == \A n \in Bar \ returned : submitted[n] <= 1

\* RiskManager: one slot.  The snapshot that shows it free is older than the
\* submission, and the state may have been lost in between.
OneTradeAtATime == Cardinality(open) <= 1

\* mark_processed against save: no write, whatever copy it merges, moves the
\* marker of the file to a candle that the store in memory has still to process.
MarkerNotBehind ==
    [][disk'.candle # disk.candle => Marker(disk'.candle) <= store'.marker]_vars

\* assert_trading_allowed: a stop that was on disk when the cycle began blocks
\* every submission of that cycle, however many candles it handles.
StopAtStartBlocks ==
    [][submitted' # submitted => ~stopAtStart]_vars

\* execute_cycle: a cycle that failed is followed by another one or by the end
\* of the process.
RecoveryEnds == (pc \in {"failing", "recovering"}) ~> (pc \in {"idle", "off"})

\* The whole of it: however cycles fail, copies age and processes restart, the
\* file and the broker see signals dealt with once and in order, trades that are
\* known and alone, and a stop that nothing takes back.
Ledger == INSTANCE TradeLedger
              WITH handled <- LastSignal, books <- disk.orders,
                   open <- open, stopped <- disk.estop, returned <- returned
ImplementsTradeLedger == Ledger!Spec

\* README.md: the baseline is initialized at the latest closed candle "without
\* emitting historical signals".
HistorySkipped ==
    [][\A n \in Bar : submitted'[n] # submitted[n] => n > startedAt]_vars

\* CODEX_RULES.md: "Do not trade when emergency stop is active."
StopBlocksTrading == [][submitted' # submitted => ~disk.estop]_vars

\* AccountReconciliationGate: what fails reconciliation is exposure, or an
\* execution of an order the state does not know.
KnownAndFlatReconciles ==
    open = {} /\ execs \subseteq disk.orders => Reconciles(disk)
=============================================================================
