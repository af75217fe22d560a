------------------------------- MODULE Session -------------------------------
(***************************************************************************)
(* The life of one process (BotRunner in src/src/main.py) from its start    *)
(* over the connection to IB, the safety checks of the account, the loop    *)
(* and the recovery of its failures to the shutdown.  A cycle is one step:  *)
(* CandleCycle is about what happens in it.                                 *)
(*                                                                         *)
(* A snapshot of the account is three requests, positions, orders and       *)
(* executions.  Meanwhile the socket may break, the trade monitor runs, and *)
(* somebody may trade by hand in the same account: one such order is        *)
(* followed.  Notifications that do not have to be delivered never raise    *)
(* and are left out; the others are sent by Delivery.                       *)
(***************************************************************************)
EXTENDS Delivery

CONSTANTS
    Configs,   \* the settings a process may be started with
    Limit,     \* health.repeated_error_limit
    StoreMayFail  \* the state file and the journal may raise

ASSUME SessionAssumption ==
    /\ Limit \in Positive
    /\ StoreMayFail \in BOOLEAN
    /\ Configs \subseteq [mode : TRADING_MODES,
                          account : {"none", "paper", "live"},
                          client : Nat, once : BOOLEAN]

VARIABLES
    conf,      \* the settings
    pc,        \* where the main task is
    phase,     \* what it does there is part of: the startup or a recovery
    conn,      \* the socket to IB is open
    monitor,   \* the task of the trade monitor
    attempt,   \* attempts of the recovery under way
    errors,    \* _repeated_errors
    estop,     \* the emergency stop in the state file
    knew,      \* the same in the copy of the last cycle
    journaled, \* the emergency stop is in the journal
    unwritten, \* history: writing the emergency stop has raised
    foreign,   \* the order placed by hand
    suspect,   \* the snapshot has shown something unknown
    before,    \* history: the order when the snapshot began
    checked,   \* history: this connection has passed the account checks
    opened     \* history: this connection is younger than the last failure

accountVars == <<foreign, suspect, before, checked>>
stopVars == <<estop, knew, journaled, unwritten>>
recoveryVars == <<phase, attempt, errors>>
linkVars == <<conn, opened>>
vars == <<conf, pc, recoveryVars, linkVars, monitor, stopVars, accountVars,
          mailVars>>

\* Requests to IB that are awaited.
Requests == {"connect", "positions", "orders", "executions", "contracts",
             "preflight", "delta", "cycle"}
\* Notifications sent in a thread, and those that block the event loop.
Notices == {"startNotice", "failNotice", "attemptNotice", "retryNotice",
            "doneNotice"}
Blocking == {"stopNotice", "errorNotice"}
PC == Requests \cup Notices \cup Blocking
      \cup {"off", "reconnect", "sleep", "shutdown", "ended"}

Paper == conf.mode = "paper"

\* _requires_notification_delivery, with require_critical_delivery.
Required == conf.mode # "alert_only"

----------------------------------------------------------------------------
(* How an error goes on.                                                   *)

Notify(notice) == pc' = notice /\ Send

GoOn(next) == pc' = next /\ Settle

\* An error that leaves _run_loop or the startup: the monitor is cancelled,
\* _handle_critical_error reports.
Leave ==
    /\ monitor' = "none"
    /\ Notify("errorNotice")

\* EmergencyStop.activate with the copy of the failed cycle: the stop is
\* written, and announced unless the copy had it.  What the write raises,
\* before or after it has replaced the file, leaves the loop.
FailClosed ==
    /\ \/ /\ estop' = TRUE
          /\ IF knew THEN Leave ELSE Notify("stopNotice") /\ UNCHANGED monitor
          /\ UNCHANGED unwritten
       \/ /\ StoreMayFail
          /\ estop' \in {estop, TRUE}
          /\ unwritten' = TRUE
          /\ Leave
    /\ UNCHANGED <<knew, journaled>>

\* An error of the startup, or of an attempt at recovery.
Raise ==
    IF phase = "startup" THEN Leave
    ELSE Notify("retryNotice") /\ UNCHANGED monitor

\* A request to IB fails.
RequestFails ==
    /\ pc \in Requests \ {"cycle", "preflight"}
    /\ Raise
    /\ UNCHANGED <<conf, recoveryVars, linkVars, stopVars, accountVars>>

----------------------------------------------------------------------------
(* Startup.                                                                *)

\* _validate_mode_startup
ConfigAccepted == conf.mode = "alert_only" \/ conf.account # "none"

\* The settings are checked, then the state is loaded.
Start ==
    /\ pc = "off"
    /\ \/ ConfigAccepted /\ Notify("startNotice")
       \/ (~ConfigAccepted \/ StoreMayFail) /\ GoOn("ended")
    /\ UNCHANGED <<conf, recoveryVars, linkVars, monitor, stopVars,
                   accountVars>>

\* The start is announced before the try block of run().
StartAnnounced ==
    /\ pc = "startNotice"
    /\ mail \in Ended
    /\ GoOn(IF Accepted(Required) THEN "connect" ELSE "ended")
    /\ UNCHANGED <<conf, recoveryVars, linkVars, monitor, stopVars,
                   accountVars>>

\* Mutant: the account checks belong to the startup.
AfterConnectOnce ==
    IF phase = "recovery" \/ conf.mode = "alert_only" THEN "contracts"
    ELSE "positions"

\* A recovery checks the account in every mode, the startup does not.
AfterConnect ==
    IF phase = "startup" /\ conf.mode = "alert_only" THEN "contracts"
    ELSE "positions"

\* IBConnection.connect, and the client id that _run_account_guard demands.
Connect ==
    /\ pc = "connect"
    /\ conn' = TRUE
    /\ opened' = TRUE
    /\ checked' = FALSE
    /\ IF phase = "startup" /\ conf.mode # "alert_only" /\ conf.client # 0
       THEN Leave
       ELSE GoOn(AfterConnect) /\ UNCHANGED monitor
    /\ UNCHANGED <<conf, recoveryVars, stopVars, foreign, suspect, before>>

----------------------------------------------------------------------------
(* AccountReader.read_snapshot and the checks on it.                       *)

ReadPositions ==
    /\ pc = "positions"
    /\ conn
    /\ before' = foreign
    /\ suspect' = (foreign = "held")
    /\ GoOn("orders")
    /\ UNCHANGED <<conf, recoveryVars, linkVars, monitor, stopVars, foreign,
                   checked>>

ReadOrders ==
    /\ pc = "orders"
    /\ conn
    /\ suspect' = (suspect \/ foreign = "working")
    /\ GoOn("executions")
    /\ UNCHANGED <<conf, recoveryVars, linkVars, monitor, stopVars, foreign,
                   before, checked>>

\* AccountGuard: every account that the snapshot names is the configured one,
\* which is of the mode's kind.
AccountSafe(observed) ==
    \/ conf.mode = "alert_only"
    \/ observed = {"configured"} /\ conf.account = conf.mode

\* Mutant: the executions are left out.
ReconciledWithoutExecutions == ~suspect

\* AccountReconciliationGate: nothing is unknown.
Reconciled == ~(suspect \/ foreign \in {"held", "closed"})

ReadExecutions ==
    /\ pc = "executions"
    /\ conn
    /\ \E observed \in SUBSET {"configured", "other"} :
          IF AccountSafe(observed) /\ Reconciled
          THEN GoOn("contracts") /\ checked' = TRUE /\ UNCHANGED monitor
          ELSE Raise /\ UNCHANGED checked
    /\ UNCHANGED <<conf, recoveryVars, linkVars, stopVars, foreign, suspect,
                   before>>

----------------------------------------------------------------------------
(* The loop.                                                               *)

\* _create_active_trade_monitor_task
MonitorTask == IF Paper /\ ~conf.once THEN "running" ELSE "none"

\* A cycle starts with the state as the file has it; loading it may raise.
StartCycle(task) ==
    \/ GoOn("cycle") /\ knew' = estop /\ monitor' = task
    \/ StoreMayFail /\ Leave /\ UNCHANGED knew

\* qualify_contract, the calendar, and what follows in each phase.
Contracts ==
    /\ pc = "contracts"
    /\ conn
    /\ IF phase = "startup" /\ conf.mode # "live"
       THEN StartCycle(MonitorTask)
       ELSE /\ GoOn(IF phase = "recovery" THEN "delta" ELSE "preflight")
            /\ UNCHANGED <<monitor, knew>>
    /\ UNCHANGED <<conf, recoveryVars, linkVars, estop, journaled, unwritten,
                   accountVars>>

\* _run_live_preflight_and_stop raises also when every check has passed.
LivePreflight ==
    /\ pc = "preflight"
    /\ Leave
    /\ UNCHANGED <<conf, recoveryVars, linkVars, stopVars, accountVars>>

CycleSucceeds ==
    /\ pc = "cycle"
    /\ conn
    /\ errors' = 0
    /\ GoOn(IF conf.once THEN "shutdown" ELSE "sleep")
    /\ monitor' = IF conf.once THEN "none" ELSE monitor
    /\ UNCHANGED <<conf, phase, attempt, linkVars, stopVars, accountVars>>

\* _sleep_until_next_candle_close, then the next cycle.
Wake ==
    /\ pc = "sleep"
    /\ StartCycle(monitor)
    /\ UNCHANGED <<conf, recoveryVars, linkVars, estop, journaled, unwritten,
                   accountVars>>

CycleFails ==
    /\ pc = "cycle"
    /\ errors' = errors + 1
    /\ opened' = FALSE
    /\ Notify("failNotice")
    /\ UNCHANGED <<conf, phase, attempt, conn, monitor, stopVars, accountVars>>

\* Mutant: the monitor is left at work.
FailureAnnouncedBesideMonitor ==
    /\ pc = "failNotice"
    /\ mail \in Ended
    /\ IF Accepted(Required)
       THEN /\ attempt' = 1
            /\ phase' = "recovery"
            /\ Notify("attemptNotice")
            /\ UNCHANGED monitor
       ELSE Leave /\ UNCHANGED <<attempt, phase>>
    /\ UNCHANGED <<conf, errors, linkVars, stopVars, accountVars>>

\* The failure is announced and the monitor's task awaited outside of the try
\* block that fails closed; a task that has died raises here.
FailureAnnounced ==
    /\ pc = "failNotice"
    /\ mail \in Ended
    /\ IF Accepted(Required) /\ monitor # "dead"
       THEN /\ monitor' = "none"
            /\ attempt' = 1
            /\ phase' = "recovery"
            /\ Notify("attemptNotice")
       ELSE Leave /\ UNCHANGED <<attempt, phase>>
    /\ UNCHANGED <<conf, errors, linkVars, stopVars, accountVars>>

----------------------------------------------------------------------------
(* _recover_runtime                                                        *)

\* Mutant: what an attempt's notification raises is not failed closed.
AttemptAnnouncedOpen ==
    /\ pc = "attemptNotice"
    /\ mail \in Ended
    /\ IF Accepted(Required) THEN GoOn("reconnect") /\ UNCHANGED monitor
       ELSE Leave
    /\ UNCHANGED <<conf, recoveryVars, linkVars, stopVars, accountVars>>

AttemptAnnounced ==
    /\ pc = "attemptNotice"
    /\ mail \in Ended
    /\ IF Accepted(Required)
       THEN GoOn("reconnect") /\ UNCHANGED <<monitor, stopVars>>
       ELSE FailClosed
    /\ UNCHANGED <<conf, recoveryVars, linkVars, accountVars>>

\* Mutant: a connection that still reports to be open is kept.
ReconnectInPlace ==
    /\ pc = "reconnect"
    /\ GoOn(IF conn THEN "positions" ELSE "connect")
    /\ UNCHANGED <<conf, recoveryVars, linkVars, monitor, stopVars,
                   accountVars>>

\* IBConnection.reconnect: an open connection is closed first, which may raise.
Reconnect ==
    /\ pc = "reconnect"
    /\ \/ /\ conn' = FALSE
          /\ GoOn("connect")
          /\ UNCHANGED monitor
       \/ conn /\ Raise /\ UNCHANGED conn
    /\ UNCHANGED <<conf, recoveryVars, opened, stopVars, accountVars>>

\* check_repeated_errors; the age of the data is left open.
Healthy == conn /\ errors < Limit

\* The candles are without a gap and the health report is not critical.
Recovered ==
    /\ pc = "delta"
    /\ Healthy
    /\ attempt' = 0
    /\ errors' = 0
    /\ phase' = "startup"
    /\ monitor' = MonitorTask
    /\ Notify("doneNotice")
    /\ UNCHANGED <<conf, linkVars, stopVars, accountVars>>

\* Mutant: the attempts are not counted.
AttemptOverUncounted ==
    /\ pc = "retryNotice"
    /\ mail \in Ended
    /\ IF Accepted(Required)
       THEN Notify("attemptNotice") /\ UNCHANGED <<monitor, stopVars>>
       ELSE FailClosed
    /\ UNCHANGED <<conf, recoveryVars, linkVars, accountVars>>

AttemptOver ==
    /\ pc = "retryNotice"
    /\ mail \in Ended
    /\ IF Accepted(Required) /\ attempt < Limit
       THEN /\ attempt' = attempt + 1
            /\ Notify("attemptNotice")
            /\ UNCHANGED <<monitor, stopVars>>
       ELSE FailClosed /\ UNCHANGED attempt
    /\ UNCHANGED <<conf, phase, errors, linkVars, accountVars>>

\* The stop is journaled after its notification, unless one of them raises.
StopAnnounced ==
    /\ pc = "stopNotice"
    /\ mail \in Ended
    /\ \/ journaled' = StopAccepted(Required)
       \/ StoreMayFail /\ UNCHANGED journaled
    /\ Leave
    /\ UNCHANGED <<conf, recoveryVars, linkVars, estop, knew, unwritten,
                   accountVars>>

\* The new monitor runs already when the recovery is announced.
RecoveryAnnounced ==
    /\ pc = "doneNotice"
    /\ mail \in Ended
    /\ IF ~Accepted(Required) THEN Leave
       ELSE IF conf.once THEN GoOn("shutdown") /\ monitor' = "none"
       ELSE GoOn("sleep") /\ UNCHANGED monitor
    /\ UNCHANGED <<conf, recoveryVars, linkVars, stopVars, accountVars>>

----------------------------------------------------------------------------
(* The end.                                                                *)

\* _handle_critical_error: what its notification raises is suppressed.
ErrorAnnounced ==
    /\ pc = "errorNotice"
    /\ mail \in Ended
    /\ GoOn("shutdown")
    /\ UNCHANGED <<conf, recoveryVars, linkVars, monitor, stopVars,
                   accountVars>>

\* _shutdown; disconnecting may raise.
Shutdown ==
    /\ pc = "shutdown"
    /\ conn' \in {FALSE, conn}
    /\ GoOn("ended")
    /\ UNCHANGED <<conf, recoveryVars, opened, monitor, stopVars, accountVars>>

MailStep ==
    /\ Sending
    /\ UNCHANGED <<conf, pc, recoveryVars, linkVars, monitor, stopVars,
                   accountVars>>

Main ==
    \/ Start \/ StartAnnounced \/ Connect \/ RequestFails
    \/ ReadPositions \/ ReadOrders \/ ReadExecutions
    \/ Contracts \/ LivePreflight \/ CycleSucceeds \/ Wake \/ CycleFails
    \/ FailureAnnounced \/ AttemptAnnounced \/ Reconnect \/ Recovered
    \/ AttemptOver \/ StopAnnounced \/ RecoveryAnnounced
    \/ ErrorAnnounced \/ Shutdown \/ MailStep

----------------------------------------------------------------------------
(* Around the main task.                                                   *)

Alive == pc \notin {"off", "ended"}

ConnectionDrops ==
    /\ Alive
    /\ conn
    /\ conn' = FALSE
    /\ UNCHANGED <<conf, pc, recoveryVars, opened, monitor, stopVars,
                   accountVars, mailVars>>

\* The order by hand: it works, opens a position or is cancelled, and the
\* position is closed.  Its executions stay.
ForeignMoves ==
    /\ Alive
    /\ \/ foreign = "none" /\ foreign' = "working"
       \/ foreign = "working" /\ foreign' \in {"held", "cancelled"}
       \/ foreign = "held" /\ foreign' = "closed"
    /\ UNCHANGED <<conf, pc, recoveryVars, linkVars, monitor, stopVars,
                   suspect, before, checked, mailVars>>

\* The monitor activates the emergency stop, or an error ends its task.
MonitorActs ==
    /\ Alive
    /\ pc \notin Blocking
    /\ monitor = "running"
    /\ \/ estop' = TRUE /\ monitor' \in {"running", "dead"}
       \/ monitor' = "dead" /\ UNCHANGED estop
    /\ UNCHANGED <<conf, pc, recoveryVars, linkVars, knew, journaled, unwritten,
                   accountVars, mailVars>>

Around == ConnectionDrops \/ ForeignMoves \/ MonitorActs

----------------------------------------------------------------------------
Init ==
    /\ conf \in Configs
    /\ pc = "off"
    /\ phase = "startup"
    /\ conn = FALSE
    /\ monitor = "none"
    /\ attempt = 0
    /\ errors = 0
    /\ estop \in BOOLEAN
    /\ knew = FALSE
    /\ journaled = FALSE
    /\ unwritten = FALSE
    /\ foreign \in {"none", "working", "held", "closed"}
    /\ suspect = FALSE
    /\ before = "none"
    /\ checked = FALSE
    /\ opened = FALSE
    /\ NoMail

Next == Main \/ Around

Spec == Init /\ [][Next]_vars

\* asyncio resumes the main task: sleeps and sends end.  That requests end, with
\* an answer or an error, is an assumption about IB and its library: those of
\* the account and of the contracts have no deadline.
FairSpec == Spec /\ WF_vars(Main)

----------------------------------------------------------------------------
(* Properties.                                                             *)

ForeignStatus == {"none", "working", "held", "closed", "cancelled"}

\* Every variable has its type.  There is never more than one repeated error:
\* a failure is followed by recovery, which clears the count, or by the end.
TypeOK ==
    /\ conf \in Configs
    /\ pc \in PC
    /\ phase \in {"startup", "recovery"}
    /\ monitor \in {"none", "running", "dead"}
    /\ attempt \in 0..Limit
    /\ errors \in 0..1
    /\ \A b \in {conn, estop, knew, journaled, unwritten, suspect, checked,
             opened} :
          b \in BOOLEAN
    /\ foreign \in ForeignStatus /\ before \in ForeignStatus
    /\ MailTypeOK

\* _run_account_guard, _run_recovery_account_checks: whatever broke and was
\* recovered, a bot that trades uses no connection that has not passed the
\* account checks.
TradesOnCheckedAccount ==
    Paper /\ pc \in {"sleep", "cycle", "doneNotice"} /\ conn => checked

\* read_snapshot: an order that was in the account when the snapshot began
\* does not pass unseen because it moved on between two of its requests.
SnapshotComplete ==
    [][checked' /\ ~checked => before = "none" \/ foreign = "cancelled"]_vars

\* _recover_runtime: recovery ends on a connection opened after the failure,
\* not on one that only still reports to be open.
RecoveredOnNewConnection == [][pc' = "doneNotice" => opened']_vars

\* _recover_runtime, execute_cycle: a process that ends during a recovery,
\* whichever step of it or report about it failed, has set the emergency stop,
\* unless writing the stop itself has failed.
RecoveryFailsClosed == (pc = "ended" /\ attempt > 0) => estop \/ unwritten

\* execute_cycle: from the first attempt at recovery to its end no monitor is
\* at work, so none decides on a connection that is being replaced, and the
\* monitor that a recovery starts is the only one.
NoMonitorInRecovery == phase = "recovery" => monitor = "none"

\* execute_cycle: a failed cycle is followed by the loop or by the end.
FailureEnds == pc = "failNotice" ~> pc \in {"sleep", "ended"}

\* PROJECT_PLAN.md ("activate emergency stop after critical failure"): a
\* process that ends with a failure it did not recover from has set the stop.
FailureFailsClosed == (pc = "ended" /\ errors > 0) => estop

\* EmergencyStop.activate: a stop of a process that has ended is journaled.
StopIsJournaled == pc = "ended" /\ attempt > 0 /\ ~knew => journaled
=============================================================================
