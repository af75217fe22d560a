---------------------------- MODULE TradeMonitor ----------------------------
(***************************************************************************)
(* The trade monitor (src/src/monitoring/active_trade_monitor.py): every   *)
(* few seconds it reads the state file, asks for a quote and a snapshot of *)
(* the account, and repairs missing protection once or activates the       *)
(* emergency stop.                                                         *)
(*                                                                         *)
(* A snapshot is three requests, positions, orders and executions, each of *)
(* them awaited: what they show need not belong together.  The position    *)
(* watched is one that a submission has left behind (Left).  Around it the *)
(* broker moves, the handlers of the submission record what happens to the *)
(* entry, and the main loop restarts the monitor.                          *)
(***************************************************************************)
EXTENDS Broker, BotState

CONSTANTS
    TelegramMayFail,  \* the emergency stop's notification may fail
    OddErrors,        \* a notification may raise instead of reporting a failure
    StoreMayFail,     \* the state file or the journal may raise
    Handlers,         \* the order handlers of the submission still run
    Situations,       \* how the submission left the position
    EntryWorks,       \* an entry that is not filled still works
    MaxRestarts       \* bound: how often the main loop restarts the monitor

ASSUME MonitorAssumption ==
    /\ TelegramMayFail \in BOOLEAN
    /\ OddErrors \in BOOLEAN
    /\ StoreMayFail \in BOOLEAN
    /\ Handlers \in BOOLEAN
    /\ EntryWorks \in BOOLEAN
    /\ Situations \subseteq {"working", "unprotected", "replaced", "protected"}
    /\ MaxRestarts \in Nat

VARIABLES
    disk,      \* the state file
    fresh,     \* {1} if the handlers' copy has the stamp of the file
    mpc,       \* where the pass is
    held,      \* the pass's copy of the state
    sawPos,    \* the position in its snapshot
    sawLive,   \* the protective orders in its snapshot
    tried,     \* the last loss resubmitted since protection was seen whole
    restarts

passVars == <<mpc, held, sawPos, sawLive>>
monitorVars == <<disk, fresh, passVars, tried>>
vars == <<brokerVars, monitorVars, restarts>>

Awaiting == {"quote", "positions", "orders", "executions", "confirm", "recheck"}
\* dead: the task was ended by the emergency stop's own notification or journal
\* entry.  lost: by an error that no handler of a pass expects.
Idle == {"sleep", "dead", "lost"}

Kind == {"stop_loss", "take_profit"}
Orders(kind) == IF kind = "stop_loss" THEN {"stop1", "stop2", "stop3", "stop4"}
                                      ELSE {"take1", "take2", "take3", "take4"}
RepairOf(kind) == IF kind = "stop_loss" THEN "stop4" ELSE "take4"

----------------------------------------------------------------------------
(* What the code reads from dictionaries and snapshots.                    *)

TerminalTrade == {"Filled", "Cancelled", "Rejected", "Closed"}

\* _is_monitorable_active_trade
Monitorable(trade) ==
    /\ "filled" \in DOMAIN trade
    /\ trade.filled > 0
    /\ trade.status \notin TerminalTrade

\* _protective_health on the live orders of a snapshot.  Every protective
\* order is placed at the recorded prices, so each matches; quantities are not
\* compared.
Missing(live) == {k \in Kind : live \cap Orders(k) = {}}

LiveProtection == {o \in Protective : ord[o] \in Live}

\* _matching_protective_execution: only orders recorded by their ids count.
KnownFill(trade) ==
    /\ "protective_orders" \in DOMAIN trade
    /\ \E o \in trade.protective_orders : ord[o] = "filled"

\* The recorded payload has at most one order of each kind.
RecordedOrders(live) ==
    {S \in SUBSET live : \A k \in Kind : \E o \in live : S \cap Orders(k) = {o}}

Without(trade, key) == [k \in DOMAIN trade \ {key} |-> trade[k]]

----------------------------------------------------------------------------
(* Steps of the monitor.                                                   *)

\* A transaction on the file leaves the handlers' copy stale.
Write(new) ==
    /\ disk' = new
    /\ fresh' = {}

\* StateStore.transaction outside any try block: when it raises, before the file
\* is replaced or after, the task ends.
Transact(new, next) ==
    \/ Write(new) /\ mpc' = next
    \/ /\ StoreMayFail
       /\ mpc' = "lost"
       /\ Write(new) \/ UNCHANGED <<disk, fresh>>

\* Where a pass ends with a notice: _notify is guarded nowhere.
AfterNotice == {"sleep"} \cup (IF OddErrors THEN {"lost"} ELSE {})

Stopped ==
    [WithTrade(disk, [emergency_stop_reason |-> TRUE]) EXCEPT !.estop = TRUE]

\* EmergencyStop.activate raises after the stop is written: the notification
\* that must be delivered, sent if the pass's copy had no stop, or the journal.
AfterStopFails ==
    /\ ~held.estop
    /\ TelegramMayFail \/ OddErrors \/ StoreMayFail

\* Mutant: the notification is sent before the stop is written.
EscalateNotifyingFirst ==
    /\ \/ Transact(Stopped, "sleep")
       \/ AfterStopFails /\ mpc' = "dead" /\ UNCHANGED <<disk, fresh>>
    /\ UNCHANGED <<held, sawPos, sawLive>>

\* _alert_once, which may raise before anything is written, then
\* EmergencyStop.activate with the pass's copy.  What either raises is caught
\* nowhere and ends the task.
Escalate ==
    /\ \/ Transact(Stopped, "sleep")
       \/ AfterStopFails /\ Write(Stopped) /\ mpc' = "dead"
       \/ OddErrors /\ mpc' = "lost" /\ UNCHANGED <<disk, fresh>>
    /\ UNCHANGED <<held, sawPos, sawLive>>

\* check_once reads the state file first; that may raise.
LoadFails ==
    /\ mpc = "sleep"
    /\ StoreMayFail
    /\ mpc' = "lost"
    /\ UNCHANGED <<brokerVars, disk, fresh, held, sawPos, sawLive, tried>>

StartPass ==
    /\ mpc = "sleep"
    /\ Monitorable(disk.trade)
    /\ held' = disk
    /\ mpc' = "quote"
    /\ UNCHANGED <<brokerVars, disk, fresh, sawPos, sawLive, tried>>

QuoteFails ==
    /\ mpc = "quote"
    /\ Escalate
    /\ UNCHANGED <<brokerVars, tried>>

\* _save_quote_state: the pass goes on with the state it wrote.
QuoteRecorded ==
    /\ mpc = "quote"
    /\ Transact(WithTrade(disk, [monitor_last_bid |-> TRUE]), "positions")
    /\ held' = disk'
    /\ UNCHANGED <<brokerVars, sawPos, sawLive, tried>>

ReadPositions ==
    /\ mpc = "positions"
    /\ sawPos' = pos
    /\ mpc' = "orders"
    /\ UNCHANGED <<brokerVars, disk, fresh, held, sawLive, tried>>

ReadOrders ==
    /\ mpc = "orders"
    /\ sawLive' = LiveProtection
    /\ mpc' = "executions"
    /\ UNCHANGED <<brokerVars, disk, fresh, held, sawPos, tried>>

SnapshotFails ==
    /\ mpc \in {"positions", "orders", "executions", "confirm", "recheck"}
    /\ Escalate
    /\ UNCHANGED <<brokerVars, tried>>

\* _handle_missing_position, with a known execution.
ClosedByProtection ==
    /\ mpc = "executions"
    /\ sawPos = 0
    /\ KnownFill(held.trade)
    /\ \E next \in AfterNotice : Transact([disk EXCEPT !.trade = NoTrade], next)
    /\ UNCHANGED <<brokerVars, held, sawPos, sawLive, tried>>

\* _handle_missing_position, without one.
MissingWithoutFill ==
    /\ mpc = "executions"
    /\ sawPos = 0
    /\ ~KnownFill(held.trade)
    /\ Escalate
    /\ UNCHANGED <<brokerVars, tried>>

\* _protective_health needs the prices; nothing catches their absence.
PricesUnknown ==
    /\ mpc = "executions"
    /\ sawPos # 0
    /\ "product_stop_price" \notin DOMAIN held.trade
    /\ mpc' = "lost"
    /\ UNCHANGED <<brokerVars, disk, fresh, held, sawPos, sawLive, tried>>

Judging ==
    /\ mpc = "executions"
    /\ sawPos # 0
    /\ "product_stop_price" \in DOMAIN held.trade

\* _clear_resubmit_marker: the marker is taken out of the pass's copy, which is
\* then merged into the file.
ProtectionWhole ==
    /\ Judging
    /\ Missing(sawLive) = {}
    /\ IF "protective_resubmit_issue_key" \in DOMAIN held.trade
       THEN \E S \in RecordedOrders(sawLive) :
               Transact(WithTrade(disk,
                  Overlay(Without(held.trade, "protective_resubmit_issue_key"),
                          [protective_orders_confirmed |-> TRUE,
                           protective_orders |-> S])), "sleep")
       ELSE mpc' = "sleep" /\ UNCHANGED <<disk, fresh>>
    /\ tried' = {}
    /\ UNCHANGED <<brokerVars, held, sawPos, sawLive>>

AlreadyResubmitted ==
    /\ "protective_resubmit_issue_key" \in DOMAIN held.trade
    /\ held.trade.protective_resubmit_issue_key = Missing(sawLive)

\* Mutant: a repeated loss is only reported.
StillMissingIgnored ==
    /\ Judging
    /\ Missing(sawLive) # {}
    /\ AlreadyResubmitted
    /\ mpc' = "sleep"
    /\ UNCHANGED <<brokerVars, disk, fresh, held, sawPos, sawLive, tried>>

\* _repair_or_escalate: the same loss was resubmitted before.
StillMissing ==
    /\ Judging
    /\ Missing(sawLive) # {}
    /\ AlreadyResubmitted
    /\ Escalate
    /\ UNCHANGED <<brokerVars, tried>>

\* Mutant: the attempt is not marked.
ResubmitUnmarked ==
    /\ Judging
    /\ Missing(sawLive) # {}
    /\ ~AlreadyResubmitted
    /\ Transact(WithTrade(disk, held.trade), "place")
    /\ held' = disk'
    /\ UNCHANGED <<brokerVars, sawPos, sawLive, tried>>

\* The attempt is marked before it is made.
MarkResubmit ==
    /\ Judging
    /\ Missing(sawLive) # {}
    /\ ~AlreadyResubmitted
    /\ Transact(WithTrade(disk,
          Overlay(held.trade,
                  [protective_resubmit_issue_key |-> Missing(sawLive)])),
          "place")
    /\ held' = disk'
    /\ UNCHANGED <<brokerVars, sawPos, sawLive, tried>>

\* The slots of a repair are free: bound on the repairs at work at a time.
SlotsFree(kinds) ==
    \A k \in kinds : ord[RepairOf(k)] \in {"none", "cancelled", "rejected"}

\* _resubmit_missing_protection places the orders of S, for the position seen.
Place(S, status) ==
    /\ ord' = [o \in OrderSlot |-> IF o \in S THEN status ELSE ord[o]]
    /\ qty' = [o \in Closing |->
                  IF o \in S THEN (IF sawPos > 0 THEN sawPos ELSE -sawPos)
                             ELSE qty[o]]
    /\ UNCHANGED <<filled, pos, cancelReq>>

\* Mutant: both orders are placed whatever is missing.
PlaceBoth ==
    /\ mpc = "place"
    /\ SlotsFree(Kind)
    /\ Place(Repair, "pending")
    /\ tried' = Missing(sawLive)
    /\ mpc' = "confirm"
    /\ UNCHANGED <<disk, fresh, held, sawPos, sawLive>>

PlaceRepair ==
    /\ mpc = "place"
    /\ SlotsFree(Missing(sawLive))
    /\ Place({RepairOf(k) : k \in Missing(sawLive)}, "pending")
    /\ tried' = Missing(sawLive)
    /\ mpc' = "confirm"
    /\ UNCHANGED <<disk, fresh, held, sawPos, sawLive>>

\* placeOrder raises, at once or after an untransmitted stop.
PlaceFails ==
    /\ mpc = "place"
    /\ \/ UNCHANGED brokerVars
       \/ /\ Missing(sawLive) = Kind
          /\ SlotsFree({"stop_loss"})
          /\ Place({"stop4"}, "staged")
    /\ tried' = Missing(sawLive)
    /\ Escalate

\* _wait_for_protection polls the orders, then they are read once more.
Confirmed ==
    /\ mpc = "confirm"
    /\ Missing(LiveProtection) = {}
    /\ mpc' = "recheck"
    /\ UNCHANGED <<brokerVars, disk, fresh, held, sawPos, sawLive, tried>>

\* _mark_repaired_protection
RepairRecorded ==
    /\ mpc = "recheck"
    /\ Missing(LiveProtection) = {}
    /\ \E S \in RecordedOrders(LiveProtection), next \in AfterNotice :
          Transact([disk EXCEPT !.trade =
                      Without(Overlay(@, [protective_orders_confirmed |-> TRUE,
                                          protective_orders |-> S]),
                              "protective_resubmit_issue_key")], next)
    /\ tried' = {}
    /\ UNCHANGED <<brokerVars, held, sawPos, sawLive>>

NotConfirmed ==
    /\ mpc \in {"confirm", "recheck"}
    /\ Missing(LiveProtection) # {}
    /\ Escalate
    /\ UNCHANGED <<brokerVars, tried>>

Monitor ==
    \/ LoadFails \/ StartPass \/ QuoteFails \/ QuoteRecorded
    \/ ReadPositions \/ ReadOrders
    \/ SnapshotFails \/ ClosedByProtection \/ MissingWithoutFill
    \/ PricesUnknown \/ ProtectionWhole \/ StillMissing \/ MarkResubmit
    \/ PlaceRepair \/ PlaceFails \/ Confirmed \/ RepairRecorded \/ NotConfirmed

----------------------------------------------------------------------------
(* What happens around the monitor, while it awaits or sleeps.             *)

\* The status of the entry, and _active_trade_payload.
EntryStatus ==
    CASE ord["entry"] = "active"    -> "Submitted"
      [] ord["entry"] = "filled"    -> "Filled"
      [] ord["entry"] = "cancelled" -> "Cancelled"
      [] OTHER                      -> "Rejected"

Payload(status, n) ==
    [signal_id |-> "new", status |-> status, filled |-> n]

\* The handlers of the submission replace active_trade in their copy; saved
\* unmerged if that is fresh, else merged into the file.
EntryEvent ==
    /\ mpc \in Awaiting \cup Idle
    /\ EntryChanges
    /\ IF Handlers
       THEN disk' = IF 1 \in fresh
                    THEN [disk EXCEPT !.trade = Payload(EntryStatus', filled')]
                    ELSE WithTrade(disk, Payload(EntryStatus', filled'))
       ELSE UNCHANGED disk
    /\ UNCHANGED <<fresh, passVars, tried, restarts>>

ClosingEvent ==
    /\ mpc \in Awaiting \cup Idle
    /\ \/ \E o \in Closing : ClosingAccepted(o) \/ ClosingRejected(o)
       \/ \E o \in Protective : ClosingExpires(o) \/ ProtectiveFills(o)
    /\ UNCHANGED <<monitorVars, restarts>>

\* The main loop cancels the task at an await and creates a new one.  A task
\* that has died is never replaced: awaiting it raises its error.
Restart ==
    /\ mpc \in Awaiting \cup {"sleep"}
    /\ restarts < MaxRestarts
    /\ restarts' = restarts + 1
    /\ mpc' = "sleep"
    /\ UNCHANGED <<brokerVars, disk, fresh, held, sawPos, sawLive, tried>>

----------------------------------------------------------------------------
\* What submit_order_set leaves behind while the position is open.
\*   working      the entry has filled in part, its wait goes on
\*   unprotected  _mark_unprotected_entry was saved, the call went no further
\*   replaced     the emergency stop is set and a replacement is in force
\*   protected    the call returned normally
StateLeft(situation, n) ==
    LET trade(more) == Overlay(Payload("Submitted", n), more)
    IN  CASE situation = "working" ->
               [BlankState EXCEPT !.trade = Payload("Submitted", n)]
          [] situation = "unprotected" ->
               [BlankState EXCEPT
                  !.trade = trade([product_stop_price |-> TRUE])]
          [] situation = "replaced" ->
               [BlankState EXCEPT !.estop = TRUE, !.trade =
                  trade([product_stop_price |-> TRUE,
                         protective_orders |-> {"stop2", "take2"}])]
          [] situation = "protected" ->
               [BlankState EXCEPT !.trade =
                  trade([status |-> "Filled", product_stop_price |-> TRUE,
                         protective_orders |-> Attached])]

EntryLeft(situation) ==
    IF situation = "protected" THEN "filled"
    ELSE IF EntryWorks THEN "active" ELSE "cancelled"

PairLeft(situation) ==
    IF situation = "replaced" THEN {"stop2", "take2"} ELSE Attached

ClosingLeft(situation, o) ==
    IF o \in PairLeft(situation) THEN "active"
    ELSE IF o \in Attached THEN "cancelled" ELSE "none"

Init ==
    \E situation \in Situations, n \in 1..Qty :
        /\ n = Qty <=> situation = "protected"
        /\ ord = [o \in OrderSlot |-> IF o = "entry" THEN EntryLeft(situation)
                                      ELSE ClosingLeft(situation, o)]
        /\ qty = [o \in Closing |-> IF o \in Attached THEN Qty
                                    ELSE IF o \in PairLeft(situation) THEN n
                                    ELSE 0]
        /\ filled = n
        /\ pos = n
        /\ cancelReq = IF situation \in {"unprotected", "replaced"}
                       THEN {"entry"} ELSE {}
        /\ disk = StateLeft(situation, n)
        /\ fresh \in IF Handlers THEN {{}, {1}} ELSE {{}}
        /\ mpc = "sleep"
        /\ held = disk
        /\ sawPos = 0
        /\ sawLive = {}
        /\ tried = {}
        /\ restarts = 0

Next ==
    \/ Monitor /\ UNCHANGED restarts
    \/ EntryEvent \/ ClosingEvent \/ Restart

Spec == Init /\ [][Next]_vars

\* asyncio resumes a task that sleeps, and a step without an await goes on.
FairSpec ==
    Spec /\ WF_vars(Monitor /\ mpc \notin Awaiting /\ UNCHANGED restarts)

\* Every request of a pass is answered, or fails.  The code does not see to
\* that: the contract's qualification and the requests of AccountReader have no
\* deadline.
RequestsEnd == \A r \in Awaiting : []<>(mpc # r)

----------------------------------------------------------------------------
(* Properties.                                                             *)

TradeKeys ==
    {"signal_id", "status", "filled", "product_stop_price",
     "protective_orders", "protective_orders_confirmed",
     "protective_resubmit_issue_key", "emergency_stop_reason",
     "monitor_last_bid"}

StateOK(s) ==
    /\ DOMAIN s = DOMAIN BlankState
    /\ DOMAIN s.trade \subseteq TradeKeys
    /\ s.estop \in BOOLEAN

\* Every variable has its type.
TypeOK ==
    /\ BrokerTypeOK
    /\ StateOK(disk) /\ StateOK(held)
    /\ fresh \subseteq {1}
    /\ mpc \in Awaiting \cup Idle \cup {"place"}
    /\ sawPos \in Int
    /\ sawLive \subseteq Protective
    /\ tried \subseteq Kind
    /\ restarts \in 0..MaxRestarts

\* EmergencyStop.activate in a pass: the notification and the journal entry of
\* an emergency stop, which end the monitor's task for good when they fail, do
\* not cost the stop: it was written before, and nobody takes it back.
DeathIsStopped == mpc = "dead" => disk.estop

\* _resubmit_missing_protection: a repair never puts a second stop or a second
\* take profit to work beside one that is live, however old the snapshot.
OneOrderPerKind ==
    \A k \in Kind : \A o, p \in LiveProtection \cap Orders(k) : o = p

\* _repair_or_escalate: a loss of protection that stays the same is resubmitted
\* once, also when a restart of the monitor comes between.
RetriedOnce == [][mpc = "place" => Missing(sawLive) # tried]_vars

\* The position lacks a protective order and nothing has been stopped.
Exposed == pos > 0 /\ Missing(LiveProtection) # {} /\ ~disk.estop

\* ActiveTradeMonitor: a position that loses protection while it is monitored
\* is protected again, stopped or closed, if the broker answers and no error
\* outside the handlers of a pass has ended the task.
LossIsAnswered == RequestsEnd => (Exposed ~> ~Exposed \/ mpc = "lost")

\* ActiveTradeMonitor: a position that is held is looked at, or trading has
\* been stopped.
HeldIsMonitored == pos > 0 => Monitorable(disk.trade) \/ disk.estop

\* run_forever: the monitor runs until its owner cancels it.
RunsUntilCancelled == mpc \notin {"dead", "lost"}

\* _protective_health: protection found whole covers the position that the
\* same snapshot shows.
WholeCoversPosition ==
    [][ProtectionWhole =>
          \A k \in Kind :
             \E o \in sawLive \cap Orders(k) : qty[o] >= sawPos]_vars

\* _repair_or_escalate: "still missing after one resubmission attempt" is said
\* of a loss that was resubmitted since protection was last seen whole.
EscalatedAfterAttempt == [][StillMissing => Missing(sawLive) = tried]_vars

\* _handle_missing_position: the trade is closed in the state only when the
\* position is closed.
ClosedOnlyWhenFlat ==
    [][disk.trade # NoTrade /\ disk'.trade = NoTrade => pos <= 0]_vars
=============================================================================
