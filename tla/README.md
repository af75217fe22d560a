# Verification of the gold trading bot

TLA+ models of abm-ib-bot, a Python program that computes a signal from closed
gold candles and trades an exchange listed product at Interactive Brokers (IB).
The paths below are those of the repository; the program is in `src/src/`.

## 1. The system

The program is **one process with one asyncio thread**. Code between two
`await`s runs alone. Three things interleave at the awaits: the candle cycle,
the trade monitor (a task of its own), and the callbacks of the IB library that
deliver status changes of orders. All of them share one JSON file, the bot
state, through copies that they load, edit and save.

| component | state | operations | must be right |
|---|---|---|---|
| bot state, `state/state_store.py` | the file; a time stamp in it and in each copy | `load`, `save` (merges when the stamps differ), `transaction` | an emergency stop, an order id, a processed candle once written is never lost; a stale copy undoes nothing |
| order manager, `execution/order_manager.py` | orders in hand, seen events, its copy of the state | `submit_trade_plan`, `submit_order_set`, order event handlers | no position without protection or an emergency stop; nothing unknown to the file |
| order builder, `execution/order_builder.py` | none | builds entry, bracket children, OCA pair, market exit | quantities and links between orders |
| trade monitor, `monitoring/active_trade_monitor.py` | issues already reported | `check_once` every few seconds: quote, snapshot, repair or escalate | a position without protection is repaired once, then stopped |
| emergency stop, `monitoring/emergency_stop.py` | a flag in the bot state | `activate`, `assert_trading_allowed` | once active, no new trade |
| main loop, `main.py` | candle store, calendar, error counter, monitor task | candle cycle, retries, runtime recovery, shutdown | each candle is handled once; a failing session ends closed |
| candle store, `data/candle_store.py` | candles, processed marker | `update`, `mark_processed`, `trim_to_latest`, gaps | sorted, without duplicates, only closed candles |
| market calendar, `data/market_calendar.py` | trading sessions | classification of gaps | a gap in an open session blocks signals |
| startup checks, `monitoring/reconciliation.py`, `account_guard.py`, `live_mode.py` | none | compare a snapshot of the account with the state | nothing unknown at the broker is accepted |
| health, `monitoring/health.py` | error counter | `run_checks`, `record_error` | repeated errors are critical |
| risk and sizing, `risk/` | none | `evaluate_signal` | limits hold, quantity rounds down |
| product selector, `execution/product_selector.py` | none | chooses product by side, leverage, quote | no stale quote |
| IB connection and account reader, `ib_gateway/` | session | connect, reconnect, snapshot | retries are bounded |
| notifier, `notifications/notifier.py` | none | Telegram messages with retries, to several chats | some must be delivered to every chat, else the caller raises |
| signals, indicators, bias, `strategy/` | none | floating point series to votes, a bias and a signal | every crossing of a threshold is signalled, once, from complete rows |
| settings, `config/` | none | `load_settings` | what the rest may assume of its configuration |
| journal, logging, scripts | log file | | |

What is hard here, with the line where it bites, is the list `hazards` of
`PROJECT.json`: stale copies that are saved, statuses that change between a read
and its use, cancellations that are asked for and not awaited, alerts whose
failure is an exception in the middle of failure handling, a process that dies
between two orders of a bracket.

## 2. Modules

| module | models | kind |
|---|---|---|
| `BotState` | the state record, `_merge_concurrent_state`, `_merge_active_trade`, `_same_active_trade` | operators |
| `StateStore` | the file, the copies, their time stamps, every write of the program, failing writes, crashes | state machine |
| `FreshStore` | what the store promises, without time stamps | abstract specification |
| `StateStoreProofs` | theorems about `StateStore` | proofs |
| `Broker` | IB: statuses of the orders of one submission, their cascades, the position | external, environment |
| `OrderManager` | one call of `submit_order_set` and the order event handlers | state machine over `Broker` and `BotState` |
| `OrderManagerProofs` | theorems about `OrderManager` and `ManagedTrade` | proofs |
| `TradeMonitor` | the monitor task beside the handlers of a submission that has left a position | state machine over `Broker` and `BotState` |
| `TradeMonitorProofs` | theorems about `TradeMonitor` | proofs |
| `ManagedTrade` | a whole submission and the whole monitor on one broker and one file | composition of `OrderManager` and `TradeMonitor` |
| `CandleStore` | the candles in memory and the processed marker | operators |
| `CandleCycle` | the main loop: start, cycles, signals, recovery, the fail-closed end | state machine over `BotState` and `CandleStore` |
| `TradeLedger` | what the main loop promises about signals, trades and stops | abstract specification |
| `CandleCycleProofs` | theorems about `CandleCycle` | proofs |
| `Delivery` | `send_message`: attempts, chats, lost answers | state machine |
| `Session` | the life of a process: connection, account checks, loop, recovery, shutdown | state machine over `Delivery` |
| `SessionProofs` | theorems about `Session` and `Delivery` | proofs |
| `Settings` | what `load_settings` accepts, and the shipped configuration | sets of records |
| `Indicators` | the row in which each indicator and agent begins, the required warm-up | operators |
| `Signals` | votes, bias, crossings, signals and the processed marker | state machine |
| `SignalsProofs` | theorems about `Signals` | proofs |
| `Sizing` | `calculate_quantity` in integers | operators |
| `ProductChoice` | from a signal to a trade plan: evaluation of the candidates, choice, risk check | state machine over `Sizing` |
| `ProductChoiceProofs` | theorems about `ProductChoice` | proofs |
| `GapRepair` | gaps against the calendar, the backfill requests, the verdict | state machine over `CandleStore` |
| `GapRepairProofs` | theorems about `GapRepair` | proofs |
| `MC...` | constants for TLC | |

How they fit together: `OrderManager` and `TradeMonitor` share `Broker` and the
merge of `BotState`; each has the other reduced to its writes, and
`ManagedTrade` has both whole. `Session` takes a cycle as one step that succeeds
or fails, `CandleCycle` takes the checks of a start and of an attempt at
recovery as one. `CandleCycle` takes a submission as one step, which
`OrderManager` justifies (nothing is transmitted before it is recorded:
`BracketBeforeExposure`, `ExposureIsOnDisk`), a product choice as one free
outcome (`ProductChoice`), a repair of gaps as one step that returns candles no
newer than the latest (`GapRepair`, `RepairKeepsLatest`), a signal as a property
of a candle (`Signals`), and a notification as delivered or not (`Delivery`).
All of them use the store as a file with fresh and stale copies, which the
refinement of `FreshStore` by `StateStore` justifies. `CandleCycle`,
`ProductChoice`, `Sizing`, `Delivery`, `Session` and `Signals` take the ranges of
their constants from `Settings`, so that no model runs with a configuration that
`load_settings` rejects.

### The state store

A *holder* is a `BotState` object of the program: the cycle's, an event
handler's, the monitor's. `mem[h]` is its content, `stamp[h]` its `updated_at`,
`disk` and `diskStamp` the file. `Load`, `Save`, `Transaction` are the three
methods; `SaveFails` is the `OSError` path, which leaves the object with a stamp
that was never written. The temporary file is renamed over the state file, so a
crash leaves the old or the new file. `updated_at` is a reading of the clock
with a resolution of microseconds; two writes never share a reading (each is
followed by an `fsync`). `load` of a missing file makes a new object with a
stamp of its own, which equals no stamp of a file.

The callers' edits are actions too (`MarkProcessed`, `RecordSignal`, `AddOrder`,
`ReplaceTrade`, `ExtendTrade`, `StopInMemory`, `ActivateStop`, `ClearTrade`,
`RecordInTrade`), so the properties speak of every write the program makes, not
of any write one could imagine: callers never reset a stop or remove an order
id from a copy.

`FreshStore` says what the stamps are for: a copy is *fresh* when the file has
not changed since the copy was read or written; a fresh copy is saved as it is,
any other is merged. The refinement maps `stored` to "the file exists" and
`fresh` to the holders whose stamp is that of the file.

### The order manager

`pc` is the place in `submit_order_set` and the functions it calls. The
locations in `Awaiting` are the code's awaits; only there (and after the call)
does the broker move or the monitor run. Code between awaits is split at every
effect (an order placed, a cancellation, an alert, a save), because the process
may die there: `Crash` is possible at each location.

The event handlers write through the copy they were created with (copy 1). The
failure handling reloads the state after the emergency stop and goes on with
another copy (copy 2), while the handlers still write copy 1. `fresh` is that of
`FreshStore`; the proofs of the store justify using it instead of time stamps.

The environment is split in four constants, so that a run says exactly what a
property depends on:

| constant | TRUE allows |
|---|---|
| `TelegramMayFail` | a message that must be delivered is not, and raises |
| `LateFill` | an entry fills after its cancellation was asked for |
| `LateReject` | protection is rejected after the call returned |
| `EarlyTrigger` | protection fills while the call is running |

Abstractions: prices, products and texts are gone; `Seen` merges PreSubmitted,
Submitted and PartiallyFilled into "Submitted" and Rejected and Inactive into
"Rejected", which the code treats alike; writes of the file do not fail here
(they do in `StateStore`); the journal is left out; a replacement is placed at
most twice in a call.

### The trade monitor

`mpc` is the place of a pass of `check_once`, by its awaits. A snapshot of the
account is three requests, one after the other; `sawPos` and `sawLive` hold what
two of them showed, so that a pass may judge positions and orders that never
existed together. `Init` has the four situations in which `submit_order_set`
can leave an open position: the wait for the fill goes on (`working`), the call
failed after recording the prices (`unprotected`), a replacement is in force
(`replaced`), or the call returned (`protected`). The handlers of the submission
go on recording status events. `Restart` is what recovery does to the task.
`tried` is a history variable: the loss last resubmitted.

### A submission beside the monitor

`ManagedTrade` extends `OrderManager` by the variables of a pass and instantiates
`TradeMonitor` on the call's orders and file (`Watch`). asyncio runs one task up
to its next await, and that is the interleaving: a step of the call needs the
monitor at an await, a step of the monitor needs the call at an await or over. A
crash takes both. What the monitor's own module has to assume of the situation it
finds is here what the call has left at that moment. Two bounds: one pass, and
the broker is followed until both are over. The environment constants of
`OrderManager` are FALSE; what each of them breaks is in the further
configurations below.

### The main loop

Candles are numbered by the hours of open sessions, so that a missing number is
a gap that no closure excuses; `GapRepair` has the calendar itself. `pc` follows
`run`, `_run_loop`, `_run_cycle`, `_handle_paper_signal` and `_recover_runtime`
from await to await. A trade, its signal and its orders are named by the candle
of the signal. The copy of the state that the cycle holds is `mem`; `clean` says
that nobody has written since it was in step with the file. The monitor is
reduced to its writes and to whether its task lives; a dead one raises where it
is awaited. The retries of one expected candle are cycles like others, since a
cycle may start whenever the loop is idle. `max_concurrent_position_slots` is 1,
as in `src/settings.yml:50`. Live mode is in `Session`.

`TradeLedger` is what all this is for, in four variables: the candle of the last
signal dealt with, the trades in the books, those at work, and the stop. Signals
are dealt with in the order of their candles, each at most once, whether they
are passed or traded; a trade begins only when none is at work and is in the
books from that step on; nothing leaves the books, and no step takes the stop
back. The refinement mapping reads the books, the last signal and the stop from
the state file, and the trades at work from the broker: the copy, the store, the
monitor and the process are gone.

### A process from start to end

`Session` is `BotRunner`. `pc` is the await the main task is at, `phase` says
whether it is part of the startup or of a recovery, since both use the same
functions and an error ends each in another way: `Raise` goes to
`_handle_critical_error` or to the notification of a failed attempt, `FailClosed`
is `EmergencyStop.activate` with its journal entry after its notification. A
snapshot of the account is three requests, and one order placed by hand moves
between them; the account checks see what each request showed. Around the main
task, the socket breaks, the order by hand moves, and the monitor activates the
stop or dies, at any await.

`repeated_errors` never exceeds one: the loop does not run another cycle before
the recovery that resets it has succeeded. So a limit of two or more never makes
a health report critical, and with a limit of one no recovery succeeds
(`src/src/monitoring/health.py:152`). `SessionProofs!TypeCorrect` proves the
first. Executions do not expire in this module; that they do is in `CandleCycle`.

`Delivery` is one `send_message`: for each chat a number of attempts, each of
which may have arrived although its answer was lost. `_post_send_message`
translates network errors, timeouts and refusals, which are retried; anything
else (`OddErrors`) goes past the remaining chats to the caller.

### From candles to signals

The values of the series are floating point and stay out of the model. What is
left is control: each agent begins to vote in a row of its own, an agent without
a value casts no vote, the votes are summed, and a signal is a bias that was not
beyond the threshold on the row before. `view[n]` is what the agents think at
candle n, and a `Fetch` may revise it or bring a candle late. A cycle that fails
while it handles a signal leaves the marker of the process moved and that of the
file not (`Emit`). `following` is a history variable: since the last signal, or
the last candle within the thresholds, nothing was revised and no crossing was
dropped for an ATR or a price that cannot be used.

`Indicators` computes from the tables of `bias_model.py` in which row each of the
21 agents has its first value, and TLC evaluates the assumption `ABMTables`: no
agent needs more rows than `required_indicator_warmup_bars` says. For the RSI,
which needs one row more than the code counts for it, that is so only because
others need far more.

### Settings

`Settings` has one set of records per section of `settings.yml` and
`execution_products.json`; a value is in the set when the loader accepts it. The
assumption `ShippedIsLoaded` says that the shipped files are accepted.

### From a signal to a plan

`ProductChoice` evaluates the candidates in order. Every await lets `Tick` age
the quotes taken so far, and `TickerUpdates` gives or takes a quote at any
moment; a quote may also lie in the future by up to `Drift`. Prices are
integers in their smallest unit, costs are percentages. The three identity
checks of a qualified contract are one failure. The settings do not allow
fractions (`src/settings.yml:45`), and steps and minimum are then whole numbers,
so the rounded quantity is whole too. The account snapshot is older than the
choice and is not read again; `held` counts the trades behind the position rows
the code counts.

### The repair of gaps

In `GapRepair` a candle is the integer time it starts at and lasts `Interval`
units, so that a session may open or close in the middle of one. `calendar` is
what the contract details listed when they were last refreshed: the session of
that moment and later ones. Every missing bar is requested once, oldest first;
a request is answered by any set of candles of its window, or fails, or brings a
candle off the grid, which ends the cycle. The code does not ask that
`gap_backfill_duration` be at least two candles; `GapRepairAssumption` does, and
the setting of one day meets it.

## 3. What the runs check

| run | expect | shows |
|---|---|---|
| `store` | pass | no critical field is ever lost by any interleaving of loads, saves, failing saves, transactions and crashes; the stamps implement `FreshStore` |
| `submission` | pass | with all four constants TRUE: the bracket is with the broker before anything can fill, a fill is never news to the file, no exit and no "handled" failure before the emergency stop is on disk, a protected return is recorded completely, every call ends |
| `monitor` | pass | in all four situations: a repair never puts a second order to work beside a live one, however old its snapshot; an unchanged loss is resubmitted once, also across a restart of the task |
| `monitor_answer` | pass | after a failed submission that recorded its prices: every loss of protection is repaired, stopped or closed, and the task never ends in an error without the stop on disk |
| `monitor_blind` | violation | an entry that fills to the end is recorded as Filled, a terminal status for the monitor, which passes over the open position |
| `cycle` | pass | with gaps, odd and late bars, failures at every await, a crash and a second start: no signal is submitted twice, one trade at a time, the store is never behind the file, a stop on disk when a cycle begins blocks it; the whole implements `TradeLedger`; every failed cycle ends |
| `cycle_history` | violation | the warm-up is blocked by a gap, and the next fetch handles the history as new candles |
| `choice` | pass | an approved plan is within capital and order limit, rests on a fresh quote, and has the slot; every signal is decided |
| `gaps` | pass | each request spans its candle, no repair changes the latest candle, signals are blocked exactly when one of the recent open hours is missing, every repair ends |
| `together` | pass | a submission and a monitor, both whole, with alerts that arrive and a broker without surprises: no position is left uncovered, the exit sells only what is held and only after the replacement failed, the monitor repairs beside a running call only after the call has set the stop |
| `session` | pass | processes of every mode with a socket that breaks, lost notifications, an order by hand during each snapshot, a monitor that dies: trading needs a checked connection and a monitor, a recovery needs a new connection, a recovery that fails sets the stop, "delivered" means every chat, every failure ends |
| `signals` | pass | five candles late, twice or revised, failing cycles, restarts: a process that follows the bias signals each crossing once, with stop and target on their sides |

Each property of a passing run has a mutant in `PROJECT.json`: a changed
definition, as a slip in that code would make it, that TLC finds out with the
same configuration.

The type invariants of `StateStore`, `OrderManager`, `CandleCycle`,
`ProductChoice`, `GapRepair`, `TradeMonitor`, `Session` and `Signals`, and `StampsAreOld` of
`StateStore`, are in no run, since section 4 proves them.

### Further configurations

Each ends in a violation of the property named, when run by hand with
`tlc -config X.cfg <MC module>`. Where no file is named, take the configuration
of that run and put the property in place of its own.

| configuration | property | what the code does |
|---|---|---|
| `MCStateStoreStale` | `StaleSaveKeepsTrade` | a copy that never touched `active_trade` brings back a trade the monitor has cleared |
| `MCOrderManagerAlertLost` | `ExposureCovered` | a lost alert leaves an unprotected position without the emergency stop |
| `MCOrderManagerLateFill` | `ExposureCovered` | an entry that fills after the cancellation of its timeout is neither protected nor stopped |
| `MCOrderManagerLateReject` | `ExposureCovered` | protection that was only PendingSubmit is rejected after the call returned |
| `MCOrderManagerEarlyTrigger` | `ExitOnlyForPosition` | the exit sells a position that protection has closed already |
| `submission` | `ExitMeansReplacementFailed` | the exit is placed although the replacement works, because its alert was lost |
| `submission` | `FillNeverForgotten` | the failure handling overwrites a newer fill on disk |
| `together` | `RepairNotBesideExit` | the monitor resubmits protection while the market exit of the call is at work |
| `MCTradeMonitorDies` | `RunsUntilCancelled` | a pass during the wait for the fill finds no protective prices and its error ends the task, without the stop |
| `MCTradeMonitorDies` | `DeathIsStopped` | the same: a trade without its prices is one of the two situations that `PricesLeft` excludes in section 4 |
| `MCTradeMonitorQuantity` | `WholeCoversPosition` | protection counts as whole whatever its quantity |
| `monitor` | `EscalatedAfterAttempt` | the merge brings the marker of a resubmission back; the next loss is escalated without an attempt |
| `monitor` | `ClosedOnlyWhenFlat` | the entry fills again between the request for positions and the closing of the trade |
| `cycle` | `KnownAndFlatReconciles` | executions of a trade that was closed and cleared the same day fail the reconciliation of a restart |
| `cycle` | `StopBlocksTrading` | a stop activated while the cycle awaits its snapshot does not block the submission |
| `MCSessionFailure` | `FailureFailsClosed` | a report of a failed cycle that is not delivered, or a monitor that has died, ends the process before recovery begins, without the stop |
| `session` | `EveryChatTried` | an error that the notifier does not translate at one chat keeps the message from the others |
| `session` | `StopIsJournaled` | the notification of the stop raises, and its journal entry is not written |
| `choice` | `UsableIsTraded` | the cheapest quote goes stale while the next product is awaited, and the signal is blocked although another product could be traded |
| `choice`, two slots and two trades held | `PlanKeepsSlots` | two trades in one instrument are one position row, and a third is approved |
| `MCGapRepairCalendar` | `RecentGapsBlock` | a recent gap in a session before the calendar's first counts as a closure and blocks nothing |
| `MCSignalsFirstRow` | `ComparedRowsComplete` | the first row with enough candles is compared with one on which the slowest agent has not voted, and a crossing may be that vote alone |

Bounds. The store: two holders, so that one can go stale while the other writes,
one value of each kind (a value is there or not, which is all the merge
distinguishes, except for the trade, where one dictionary and the empty one
suffice for the merge's three cases and the order manager's runs have the case
of another trade), and `MaxClock` = 3 readings of the clock: a write, a stale
write, and a write after it. The proofs remove all of these bounds. The order
manager: an entry of two pieces, so that it fills not at all, partly, later
completely; nothing else is bounded. The monitor: the same entry, one restart,
no bound on passes. The cycle: four candles, of which three carry a signal, a
running fetch of two, a block distance of one and a window of two, so that a
candle can be missing inside and outside each of them; two starts, two attempts
of a recovery. Five candles pass too (1.9 million states). `SubmittedOnce` rests
on `MaxLag` = 1: with a broker that may serve candles three hours late after a
restart, the baseline goes back behind the file and TLC finds a second
submission. The choice: two products of different cost and leverage, three
prices around the steps, quotes that are stale after two ticks. The gaps: nine
hours of a continuous market, of one with a break inside hours, of one with a
break between hours, of one whose sessions meet inside an hour; five candles
kept; every set of them, so that gaps of any number and place occur. The
composition: one pass of the monitor, which can begin, be overtaken and end
anywhere in the call; two passes are in the runs of the monitor, which bound
none. The session: two chats, so that one may have the message and the other
not, one retry, a limit of two attempts so that the second is the last, a
process of each mode, and for paper also one that runs once, one without an
account and one with a client id that the guard refuses. The signals: five
candles, two more than the rows required, so that the first comparison, a change
of side and a late candle fall on different ones; three agents that begin in
different rows, agree when they vote, and pass the threshold only together; an
ATR of zero, one that makes the target of a short zero or less, and one that does
neither. The branch for a repeated `signal_id` is never taken: the marker of the
file and the id are saved together, so that the id is of a candle before the
marker (`MarkersInOrder` in `SignalsProofs`).

Fairness. `FairSpec` asks weak fairness of the call's own steps: every wait of
the code polls with `asyncio.sleep` and has a deadline, so as long as the event
loop runs, the coroutine is resumed. Nothing is assumed of the broker. The
monitor is fair by the same argument, each of its requests having a timeout, and
so are recovery and, in `Session`, all steps of the
main task: sleeps end, each attempt of a notification has a timeout, requests to
IB end or fail. For the choice and the repair it is assumed that IB answers or
refuses each request; the what-if request has no deadline in the code, so
`ChoiceEnds` says nothing of one that is never answered. Deadlock is not
checked: a call that is over, a signal that is decided, a process that has
ended, and a clock at its bound, may stop.

## 4. What is proved

Each theorem is for every value of the constants that the named assumptions
allow. `StateStoreProofs`:

- `TypeCorrect`, `CopiesCurrent`, `CriticalKept`: types; a copy that would be
  saved unmerged has every critical field of the file; hence no write loses one.
- `Implements`: the stamped store implements `FreshStore`.

The argument. `UnchangedCopyIsCurrent` is not inductive alone: a clock reading
must be new to everyone, else a write could give the file the stamp of an old
copy. `StampsAreOld` says so (no stamp is later than the clock, and a held copy
has one), and `NoFileIsBlank` that without a file there is nothing to lose. With
`TypeOK` they are the inductive invariant `IInv`. For the refinement, each
action maps to the action of the same meaning; the steps to prove are about the
set of fresh holders: after a write, only the writer's copy can have the file's
stamp, because the stamp is a new reading.

The assumptions used are those of the module: callers write dictionaries over
`Key`, and `None` is no candle and no signal.

`OrderManagerProofs`, for every quantity of the entry and every environment:
`TypeCorrect`, `BracketFirst`, `ExposureRecorded`, `StopFirst`. The invariant is
the conjunction of

- the broker's types, and that an entry that works or has filled had its whole
  bracket placed (`BracketInv`): IB knows nothing of a bracket whose parent is
  not transmitted, which is why the place of the transmit flag matters;
- the store's types, and that a copy in step with the file has its emergency
  stop (`FreshStop`): a fresh copy is saved unmerged, so a stop would be lost;
- before the submission is recorded, the call works with its first copy;
- from the recording on, the file and both copies know the trade and the order
  id (`AllRecorded`): all of them, since any may be saved or merged next;
- from the activation on, the stop is on disk.

`ReturnRecorded` (`ProtectedIsRecorded`) needs more, `FillInv`: from the moment
the call has seen the whole fill, the file and the copy it will save next know
it, and from the marking on they know the confirmed pair. What is saved is
merged, and the merge prefers the copy; so the step to prove is that nobody saves
an older payload of the entry any more. Nobody does because the entry has
filled, and its handlers have no event left to record.

The second half of `OrderManagerProofs` is about `ManagedTrade`, the call beside
a whole monitor, for every quantity. Its invariants stand on their own: that of
the call alone knows only of a monitor that closes the trade. Every step is
first reduced to what it can do (`CallEffect` and `CallOrders` for the call,
`EntryEffect` and `ClosingEffect` for the broker, `PassEffect` for the monitor,
`StoreMoves` for the file; `CallWays` says from where each place of the call is
reached), and each invariant is then proved from these.

| theorem | property | environment | invariant |
|---|---|---|---|
| `RepairAfterStop` | `RepairUnderStop` | any | `PriceInv`: before the emergency stop, while the call works on the bracket, neither file nor copies carry the stop price, and a pass without a price places nothing; `StopInv`: behind the stop, it is on disk |
| `OrderKept` | `BracketBeforeExposure`, `StopBeforeExit` beside a whole monitor | any | `BracketInv`, `ExitStopped` |
| `NothingForgotten` | no write takes back the stop or an order id | any | `StoreShape`: a fresh copy has what the file has |
| `ExitSellsPosition` | `ExitOnlyForPosition` | no `EarlyTrigger` | `ExitInv`: until an exit is tried, the position is what the entry has filled |
| `ExitNotOnReplacement` | `ExitMeansReplacementFailed` | no `TelegramMayFail` | `PairInv`: which pairs of protection can be placed, and which have failed, at each place of the call |
| `NothingExposed` | `ExposureCovered` | no `TelegramMayFail`, `LateFill`, `LateReject` (`Kindly`) | `CoverInv`: what covers the position at each place of the call; `WatchInv`: a pass submits only what it has seen missing, and never beside a live order of its kind |

The hypotheses about the environment are needed: with any one of these constants
TRUE, TLC violates the property, on the composition as on the call alone (see the
further configurations).

`ProductChoiceProofs`, for every list of products, price, age and setting:
`TypeCorrect`, `WithinCapital`, `Tradeable`, and `SlotsKept` for one slot (for
more it is false, see above). The lemma `QuantityFits` is the arithmetic of
rounding down. The invariant adds that every product found valid, and the quote
a what-if order is asked for, passed the spread check: it is looked at during
the evaluation only, and not again when the plan is made.

`GapRepairProofs`, for every market, calendar and setting within the
assumption: `TypeCorrect`, `RequestSpansCandle`, `LatestKept`. The argument is
the lemma `HoursApart` (two candles of the grid less than an hour apart are the
same) with the three bounds on the end of a request (`EndBounds`). The invariant
adds that every candle still to be requested lies before the latest, which every
answer keeps because the latest never moves. `VerdictIsRight` (`VerdictRight`)
compares two counts: the code counts the open candles between a gap and the
latest candle, the property those of the calendar that follow a candle. The
lemmas say that an hour is open when all of it lies in one session
(`InsideIsWhole`), that the two counts differ by one at most (`CountedFrom`), and
hence that every missing hour among the `GapBlock` recent ones blocks and nothing
outside the `GapBlock + 1` recent ones does (`BlocksIsRecent`). For
the arithmetic the assumption of the module also says that times of sessions are
integers.

`TradeMonitorProofs`, for every quantity, situation and number of restarts:
`TypeCorrect`, `NoneDoubled` (`OneOrderPerKind`), `TriedOnce` (`RetriedOnce`),
`DeathAfterStop` (`DeathIsStopped`). A repair is decided on a snapshot whose parts are older than itself, so the
invariant says what stays true of an old snapshot. It has three parts.

- The broker (`BrokerInv`): the orders of a group sell once; until then the
  position is what was bought, and after it no protective order works. So a
  repair for the position of the snapshot is never for more than the entry.
- The pass (`Pass`): from the reading of the orders on, the snapshot shows every
  protective order that lives. Protection may end unseen, but only the pass
  itself creates it: a submission that still runs is the matter of `ManagedTrade`.
- The marker (`MarkInv`): the loss last resubmitted is the one that the file and
  the pass's copy are marked with, and no handler's copy is fresh, so that saving
  one merges and keeps the marker.

`DeathAfterStop` adds `DeathInv`: file and copy carry the protective prices, or
the stop is on disk. It holds under `PricesLeft`, that the submission recorded
the prices and that no handler still running can replace the trade by the bare
payload of the entry. In the situations this excludes (`working`, and
`unprotected` with its handlers) TLC finds a task that ends without the stop.

`SessionProofs`, for every configuration, limit and number of chats and retries:
`TypeCorrect`, `TradesChecked`, `FailsClosed`, `MonitorKept`, `AllChats`,
`SnapshotWhole`, `NewConnection`. The invariant (`Core`) ties the
place of the main task to everything else: a recovery that has begun is left with
success or with the stop (`AttemptInv`), an error that is counted is being
handled (`ErrorsInv`), and at the places of the loop there is a monitor and a
checked connection. `SnapshotWhole` follows the order by hand through the three
requests (`SeenInv`): it moves only forward, from working to held to closed,
which is not the order of the requests, so the executions have to be read last.
For `Delivery`, every chat before the present one has the message unless its
failure is counted (`Progress`).

`SignalsProofs`, for any agents, warm-ups, thresholds and candles: `NoneLost`
(`CrossingsFollowed`), `NoneRepeated` (`SideLeftBetween`), `Protected`. The
invariant adds that while the process follows the bias, its last processed candle
is one it has, with enough rows (`Followed`), and that the marker of the file, the
marker of the process and the last signal come in this order (`MarkersInOrder`):
a candle that arrives late is before the marker and changes no comparison.

`CandleCycleProofs`, for any number of candles, starts and attempts and every
broker: `TypeCorrect`, `OneAtATime`, `NotBehind`, `StopBlocks`, `NoneTwice`
(`SubmittedOnce`). The invariant says
that while a signal is handled its candle is the copy's (`HandlingInv`, so that a
save never merges an older candle in), that the snapshot the risk check uses
shows every trade at work, since trades only end while the cycle awaits
(`SlotInv`), that the cycle's copy has the stop of its start (`StopInv`), and
that file and copy are at most as far as the store, being equal when the first
fetch creates it (`MarkerInv`).

`NoneTwice` has the hypothesis `LagIsSmall`, that the broker is at most one
candle late, and adds `SignalInv`: the last signal is never more than one candle
beyond the marker, although a baseline after a restart may take the marker back,
and what has been submitted is not beyond the last signal. A signal about to be
submitted is beyond it, hence new. With a lag of two TLC finds a second
submission.

`Implements` (`ImplementsTradeLedger`) rests on the same hypothesis, since the
ledger asks for signals in order. Its invariant is `CopyInv`: the cycle's copy
never has a stop or an order that the file lacks, and a copy that would be saved
unmerged lacks none. Then every save leaves stop and books alone but for the
order of a submission, and each step maps to one of the ledger or to a stutter:
the save of a handled signal to `Pass`, a submission to `Trade`, the end of a
trade at the broker to `Close`, the monitor, a submission that raises and a
recovery that fails to `Stop`.

Only model-checked: the six liveness properties (`SubmissionEnds`,
`LossIsAnswered`, `RecoveryEnds`, `ChoiceEnds`, `RepairEnds`, `FailureEnds`), since
the proof system does not reason about fairness here. Every safety property of
every passing run is stated by a theorem.

## 5. Plan

Done: the store, the order manager, the monitor, their composition, the main
loop, the life of a process, notifications, the settings, signals and their
warm-up, the choice of a product and the risk check, the repair of gaps; proofs
about all of these, and two refinements. Left, in this order:

1. That a submission as `ManagedTrade` has it leaves one of the situations in
   which `TradeMonitor` begins, as a theorem; the run of the monitor assumes it.
2. The parsing of trading hours (days that end at 24:00, changes of the clock)
   and the rounding of protective prices in the order builder.

## 6. Not modelled

- The trade journal: it is appended to, and nothing reads it back. Where writing
  it fails inside a cycle, the cycle fails (`RequestFails` of `CandleCycle`).
- The scripts: inquiries run by hand that share no state with the bot.
- Logging, message texts, and the wording of reports.
- The values of floating point series. Agents vote freely instead.
- Parsing: bars, contract details, trading hours with their time zones, account
  rows. What a parsed answer may say is a free choice in the models.
- Rounding of protective prices to ticks and the references of orders in the
  order builder.
- The refusal of a corrupt state file, which ends the process, and the fallback
  copy on Windows.
- `refresh_order_status`, which nothing calls, and the advisory on the clock,
  which only logs.

Liveness stays with TLC: the proof system does not reason about fairness here.
