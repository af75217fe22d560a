---------------------------- MODULE OrderManager ----------------------------
(***************************************************************************)
(* One call of OrderManager.submit_order_set                               *)
(* (src/src/execution/order_manager.py) against the broker: a bracket is   *)
(* staged and transmitted, its fill and its protection are awaited, and    *)
(* every failure on the way is handled by cancelling, by protecting again  *)
(* or by a market exit.                                                    *)
(*                                                                         *)
(* The program is one asyncio thread.  Between two awaits nothing else     *)
(* runs, so the broker's changes reach the program only where pc is in     *)
(* Awaiting (or the call is over).  The code between two awaits is still   *)
(* split at every effect, because the process may die at each of them.     *)
(*                                                                         *)
(* Order events run handlers that write the bot state through the copy     *)
(* they were created with (copy 1).  After an emergency stop the call goes *)
(* on with a copy loaded afresh (copy 2).                                  *)
(***************************************************************************)
EXTENDS Broker, BotState, FiniteSets

CONSTANTS
    TelegramMayFail,  \* a required notification may fail to be delivered
    StoreFaults,      \* kinds of place where the state file or the journal may
                      \* raise (see FaultKinds)
    LateReject,       \* protection may be rejected after the call returned
    EarlyTrigger,     \* protection may fill while the call is running
    MaxFaults         \* bound: kinds of error that the program meets

ASSUME EnvironmentIsBoolean ==
    /\ TelegramMayFail \in BOOLEAN
    /\ LateReject \in BOOLEAN
    /\ EarlyTrigger \in BOOLEAN
    /\ MaxFaults \in Nat

VARIABLES
    pc,         \* where the call is
    handed,     \* protective_trades: the protective orders in hand
    mustRaise,  \* the failure was met inside _handle_partial_fill_timeout
    polled,     \* last_status: the entry at the last poll of a wait for it
    confirmed,  \* cancellation_confirmed of PartialFillTimeout
    exposure,   \* entry_status.filled as _handle_bracket_failure read it
    seen,       \* _seen_order_events
    disk,       \* the state file
    copy,       \* the two in-memory copies
    fresh,      \* the copies with the stamp of the file (see FreshStore)
    cur,        \* the copy the call works on
    faults      \* history: the kinds of error met, and whether the broker
                \* took back an order it had confirmed

storeVars == <<disk, copy, fresh>>
failureVars == <<handed, mustRaise, confirmed, exposure>>
callVars == <<failureVars, polled, seen, cur>>
vars == <<brokerVars, callVars, storeVars, pc, faults>>

Awaiting ==
    {"entryPlaced", "fillWait", "cancelWait", "childCancelWait",
     "protectionWait", "partialWait", "replaceWait", "exitWait"}
Over ==
    {"refused", "protected", "partialProtected", "repaired", "exited",
     "raised", "crashed"}
Sync ==
    {"idle", "placeStop", "placeTake", "partial", "partialPlace",
     "partialMark", "partialStop", "failed", "failedUnfilled",
     "failedExposed", "exposedAlert", "exposedStop", "replace",
     "replaceMark", "replaceAlert", "exitAlert", "exit", "exitFailed"}

----------------------------------------------------------------------------
(* The bot state.  active_trade has the keys of the code that matter here. *)

\* _managed_status: what the program sees of an order.
Seen(o) ==
    CASE ord[o] \in {"staged", "pending"} -> "PendingSubmit"
      [] ord[o] = "active"                -> "Submitted"
      [] ord[o] = "filled"                -> "Filled"
      [] ord[o] = "cancelled"             -> "Cancelled"
      [] ord[o] = "rejected"              -> "Rejected"
      [] OTHER                            -> "Unknown"

\* _active_trade_payload
Payload(status, n) ==
    [signal_id |-> "new", status |-> status, filled |-> n]

EventKey == <<Seen("entry"), filled>>

\* Copy i becomes new and is saved.
SaveAs(i, new) ==
    /\ copy' = [copy EXCEPT ![i] = new]
    /\ disk' = Saved(disk, new, i \in fresh)
    /\ fresh' = fresh \cap {i}

\* save() raises before it has replaced the file, but has stamped the copy;
\* or after it, when the directory cannot be synchronised.
SaveRaises(i, new) ==
    \/ SaveAs(i, new)
    \/ /\ copy' = [copy EXCEPT ![i] = new]
       /\ fresh' = fresh \ {i}
       /\ UNCHANGED disk

\* What an error costs.  handling: the failure handling itself, before its
\* emergency stop.  stop: the write of the stop, whose error is swallowed.
\* replacement: a replacement in force is not recorded, or not announced.
FaultKinds == {"handling", "stop", "replacement", "other"}

FaultKind ==
    CASE pc \in {"partial", "partialMark", "failed", "failedExposed",
                 "exposedAlert"} -> "handling"
      [] pc \in {"partialStop", "exposedStop"} -> "stop"
      [] pc \in {"partialWait", "replaceWait", "replaceMark", "replaceAlert"} ->
           "replacement"
      [] OTHER -> "other"

Fault(kind) ==
    /\ Cardinality(faults \ {"lateReject"}) < MaxFaults
    /\ faults' = faults \cup {kind}

StoreFault(kind) == kind \in StoreFaults /\ Fault(kind)
NoticeFault == TelegramMayFail /\ Fault(FaultKind)

\* A save of the call, and where the call goes on when it raises.
SaveThen(new, next, raised) ==
    \/ SaveAs(cur, new) /\ pc' = next /\ UNCHANGED faults
    \/ SaveRaises(cur, new) /\ pc' = raised /\ StoreFault(FaultKind)

\* EmergencyStop.activate
StopWritten ==
    [WithTrade(disk, [emergency_stop_reason |-> "exposure"])
       EXCEPT !.estop = TRUE]

\* _activate_emergency_stop: the stop is written in a transaction and the state
\* is loaded again, also when activate() has raised: its alert was lost, or its
\* write failed.  Only what the loading raises leaves the call.
StopAndReload(next) ==
    \/ /\ disk' = StopWritten
       /\ copy' = [copy EXCEPT ![2] = disk']
       /\ fresh' = {2}
       /\ cur' = 2
       /\ pc' = next
       /\ UNCHANGED faults
    \/ /\ StoreFault("stop")
       /\ copy' = [copy EXCEPT ![2] = disk]
       /\ fresh' = fresh \cup {2}
       /\ cur' = 2
       /\ pc' = next
       /\ UNCHANGED disk
    \/ /\ StoreFault("stop")
       /\ \/ disk' = StopWritten /\ fresh' = {}
          \/ UNCHANGED <<disk, fresh>>
       /\ pc' = "raised"
       /\ UNCHANGED <<copy, cur>>

\* _update_state_after_status: active_trade is replaced.
StatusRecorded(s, status) ==
    [s EXCEPT !.orders = @ \cup {"entry"},
              !.trade = Payload(status[1], status[2]),
              !.signal = "new"]

\* Mutant: the order ids of the protection are not recorded.
ProtectionRecordedWithoutIds(s, S) ==
    WithTrade(s, [protective_orders_confirmed |-> TRUE,
                  product_stop_price |-> TRUE,
                  protective_orders |-> S])

\* _persist_protective_orders
ProtectionRecorded(s, S) ==
    [WithTrade(s, [protective_orders_confirmed |-> TRUE,
                   product_stop_price |-> TRUE,
                   protective_orders |-> S])
       EXCEPT !.orders = @ \cup S]

\* _notify_status: submissions and fills must be delivered.
MustBeDelivered(status) == status \in {"PendingSubmit", "Submitted", "Filled"}

\* _process_status_update(force=True) of a status, with the next location by
\* outcome: the state is saved, the journal written, the notification sent.
ProcessStatus(status, delivered, raised) ==
    /\ seen' = seen \cup {status}
    /\ LET new == StatusRecorded(copy[cur], status)
       IN  \/ SaveThen(new, delivered, raised)
           \/ /\ NoticeFault /\ MustBeDelivered(status[1])
              /\ SaveAs(cur, new)
              /\ pc' = raised

ProcessEntryStatus(delivered, raised) ==
    ProcessStatus(EventKey, delivered, raised)

\* _critical_alert
Alert(delivered, raised) ==
    \/ pc' = delivered /\ UNCHANGED faults
    \/ NoticeFault /\ pc' = raised

----------------------------------------------------------------------------
(* submit_order_set, first part: placing the bracket.                      *)

\* _guard_duplicate_submission
Duplicate ==
    /\ HasKey(copy[1].trade, "signal_id")
    /\ copy[1].trade.signal_id = "new"

\* The guards: mode, duplicate, connected account, account of the orders.
Refuse ==
    /\ pc = "idle"
    /\ pc' = "refused"
    /\ UNCHANGED <<brokerVars, callVars, storeVars, faults>>

\* Mutant: transmit is left True on the entry.
PlaceEntryTransmitted ==
    /\ pc = "idle"
    /\ ~Duplicate
    /\ ord' = [ord EXCEPT !["entry"] = "pending"]
    /\ pc' = "entryPlaced"
    /\ UNCHANGED <<filled, qty, pos, cancelReq, callVars, storeVars, faults>>

PlaceEntry ==
    /\ pc = "idle"
    /\ ~Duplicate
    /\ \/ /\ ord' = [ord EXCEPT !["entry"] = "staged"]
          /\ pc' = "entryPlaced"
       \/ pc' = "raised" /\ UNCHANGED ord
    /\ UNCHANGED <<filled, qty, pos, cancelReq, callVars, storeVars, faults>>

\* The status is recorded, and on disk, before the children are placed.
RecordSubmission ==
    /\ pc = "entryPlaced"
    /\ ProcessEntryStatus("placeStop", "failed")
    /\ UNCHANGED <<brokerVars, failureVars, polled, cur>>

PlaceStop ==
    /\ pc = "placeStop"
    /\ \/ /\ ord' = [ord EXCEPT !["stop1"] = "staged"]
          /\ qty' = [qty EXCEPT !["stop1"] = Qty]
          /\ pc' = "placeTake"
       \/ pc' = "failed" /\ UNCHANGED <<ord, qty>>
    /\ UNCHANGED <<filled, pos, cancelReq, callVars, storeVars, faults>>

\* transmit = True on the take profit sends the whole bracket.
PlaceTakeProfit ==
    /\ pc = "placeTake"
    /\ \/ /\ ord' = [Moved({"entry", "stop1"}, "pending")
                       EXCEPT !["take1"] = "pending"]
          /\ qty' = [qty EXCEPT !["take1"] = Qty]
          /\ handed' = Attached
          /\ pc' = "fillWait"
          /\ polled' = <<Seen("entry")', filled>>
       \/ pc' = "failed" /\ UNCHANGED <<ord, qty, handed, polled>>
    /\ UNCHANGED <<filled, pos, cancelReq, mustRaise, confirmed, exposure,
                   seen, cur, storeVars, faults>>

----------------------------------------------------------------------------
(* _wait_for_entry_fill, _wait_for_entry_cancel_confirmation.  A poll that  *)
(* finds the order ended acts on it at once; the deadline is noticed after  *)
(* a sleep, and acts on the last poll, whatever has happened since.         *)

LiveStatus == {"PendingSubmit", "Submitted"}

NotWaiting == polled' = <<>>

\* A poll finds the order still at work.
Poll ==
    /\ pc \in {"fillWait", "cancelWait"}
    /\ ord["entry"] \in Live
    /\ polled # EventKey
    /\ polled' = EventKey
    /\ UNCHANGED <<brokerVars, failureVars, seen, cur, storeVars, pc, faults>>

\* Filled; without a usable average price that is an error.
EntryFilled ==
    /\ pc \in {"fillWait", "cancelWait"}
    /\ ord["entry"] = "filled"
    /\ NotWaiting
    /\ \/ ProcessEntryStatus("protectionWait", "failed")
       \/ pc' = "failed" /\ UNCHANGED <<seen, storeVars, faults>>
    /\ UNCHANGED <<brokerVars, failureVars, cur>>

\* The entry ended with part of it filled.
EntryEndedPartly ==
    /\ pc \in {"fillWait", "cancelWait"}
    /\ ord["entry"] \in {"cancelled", "rejected"}
    /\ filled > 0
    /\ NotWaiting
    /\ confirmed' = TRUE
    /\ ProcessEntryStatus("partial", "failed")
    /\ UNCHANGED <<brokerVars, handed, mustRaise, exposure, cur>>

\* It ended with nothing filled, or nothing that has a price.
EntryEndedUnfilled ==
    /\ pc = "fillWait"
    /\ ord["entry"] \in {"cancelled", "rejected"}
    /\ NotWaiting
    /\ pc' = "failed"
    /\ UNCHANGED <<brokerVars, failureVars, seen, cur, storeVars, faults>>

FillTimeoutPartly ==
    /\ pc = "fillWait"
    /\ polled[1] \in LiveStatus
    /\ polled[2] > 0
    /\ ProcessStatus(polled, "cancelWait", "failed")
    /\ IF pc' = "cancelWait"
       THEN cancelReq' = cancelReq \cup {"entry"} /\ polled' = EventKey
       ELSE UNCHANGED cancelReq /\ NotWaiting
    /\ UNCHANGED <<ord, filled, qty, pos, failureVars, cur>>

\* Nothing filled, or nothing with a price: cancel, and do not wait for it.
FillTimeoutUnfilled ==
    /\ pc = "fillWait"
    /\ polled[1] \in LiveStatus
    /\ cancelReq' = cancelReq \cup {"entry"}
    /\ ProcessStatus(polled, "failed", "failed")
    /\ NotWaiting
    /\ UNCHANGED <<ord, filled, qty, pos, failureVars, cur>>

\* Mutant: the wait for the cancellation has no deadline.
CancelWaitForever ==
    /\ pc = "cancelWait"
    /\ polled[1] \in LiveStatus
    /\ UNCHANGED vars

CancelTimeout ==
    /\ pc = "cancelWait"
    /\ polled[1] \in LiveStatus
    /\ confirmed' = FALSE
    /\ ProcessStatus(polled, "partial", "failed")
    /\ NotWaiting
    /\ UNCHANGED <<brokerVars, handed, mustRaise, exposure, cur>>

----------------------------------------------------------------------------
(* _wait_for_protective_submission: every order in hand is live, or one of *)
(* them is not and the wait raises (at once, or at its timeout).           *)

AllLive(S) == \A o \in S : ord[o] \in Live

ConfirmProtection ==
    /\ pc = "protectionWait"
    /\ AllLive(handed)
    /\ SaveThen(ProtectionRecorded(copy[cur], handed), "protected", "failed")
    /\ UNCHANGED <<brokerVars, callVars>>

ProtectionLost ==
    /\ pc = "protectionWait"
    /\ ~AllLive(handed)
    /\ pc' = "failed"
    /\ UNCHANGED <<brokerVars, callVars, storeVars, faults>>

----------------------------------------------------------------------------
(* _submit_protective_oca_orders: placing a replacement pair.              *)

NextPair ==
    IF ord["stop2"] = "none" THEN {"stop2", "take2"} ELSE {"stop3", "take3"}

StopOf(pair) == pair \cap {"stop2", "stop3"}

\* Both orders are placed, or placing one of them raises.
PlacePair(n, placed, raised) ==
    LET pair == NextPair
    IN  \/ /\ ord' = [o \in OrderSlot |->
                        IF o \in pair THEN "pending" ELSE ord[o]]
           /\ qty' = [o \in Closing |-> IF o \in pair THEN n ELSE qty[o]]
           /\ handed' = pair
           /\ pc' = placed
        \/ /\ ord' = [o \in OrderSlot |->
                        IF o \in StopOf(pair) THEN "staged" ELSE ord[o]]
           /\ qty' = [o \in Closing |->
                        IF o \in StopOf(pair) THEN n ELSE qty[o]]
           /\ handed' = {}
           /\ pc' = raised
        \/ /\ handed' = {}
           /\ pc' = raised
           /\ UNCHANGED <<ord, qty>>

----------------------------------------------------------------------------
(* _handle_partial_fill_timeout                                            *)

AllEnded(S) == \A o \in S : ord[o] \in Terminal

\* The alert, then the cancellation of the original children, unless the
\* cancellation of the entry itself is unconfirmed.
PartialFillAlert ==
    /\ pc = "partial"
    /\ Alert(IF ~confirmed THEN "failed"
             ELSE IF AllEnded(handed) THEN "partialPlace"
             ELSE "childCancelWait", "raised")
    /\ mustRaise' = TRUE
    /\ cancelReq' = IF pc' = "childCancelWait" THEN cancelReq \cup handed
                                               ELSE cancelReq
    /\ UNCHANGED <<ord, filled, qty, pos, handed, confirmed, exposure, polled,
                   seen, cur, storeVars>>

\* A poll finds all of them ended; or the last one did not.
ChildrenCancelled ==
    /\ pc = "childCancelWait"
    /\ \/ AllEnded(handed) /\ pc' = "partialPlace"
       \/ pc' = "failed"
    /\ UNCHANGED <<brokerVars, callVars, storeVars, faults>>

PartialPlace ==
    /\ pc = "partialPlace"
    /\ PlacePair(filled, "partialWait", "failed")
    /\ UNCHANGED <<filled, pos, cancelReq, mustRaise, confirmed, exposure,
                   polled, seen, cur, storeVars, faults>>

PartialConfirmed ==
    /\ pc = "partialWait"
    /\ AllLive(handed)
    /\ SaveThen(ProtectionRecorded(copy[cur], handed), "partialMark", "failed")
    /\ handed' = IF pc' = "failed" THEN {} ELSE handed
    /\ UNCHANGED <<brokerVars, mustRaise, confirmed, exposure, polled, seen,
                   cur>>

PartialLost ==
    /\ pc = "partialWait"
    /\ ~AllLive(handed)
    /\ handed' = {}
    /\ pc' = "failed"
    /\ UNCHANGED <<brokerVars, mustRaise, confirmed, exposure, polled, seen,
                   cur, storeVars, faults>>

\* _mark_partial_fill_protected
PartialMark ==
    /\ pc = "partialMark"
    /\ SaveThen(WithTrade(copy[cur],
                     [status |-> Seen("entry"), filled |-> filled,
                      partial_fill_timeout |-> TRUE,
                      manual_reconciliation_required |-> TRUE]),
                "partialStop", "raised")
    /\ UNCHANGED <<brokerVars, callVars>>

PartialStop ==
    /\ pc = "partialStop"
    /\ StopAndReload("partialProtected")
    /\ UNCHANGED <<brokerVars, failureVars, polled, seen>>

----------------------------------------------------------------------------
(* _handle_bracket_failure                                                 *)

\* Mutant: an entry that is not Filled is taken for an unfilled one.
FailureStatusByName ==
    /\ pc = "failed"
    /\ exposure' = filled
    /\ ProcessEntryStatus(
          IF ord["entry"] = "filled" THEN "failedExposed" ELSE "failedUnfilled",
          "raised")
    /\ UNCHANGED <<brokerVars, handed, mustRaise, confirmed, polled, cur>>

FailureStatus ==
    /\ pc = "failed"
    /\ exposure' = filled
    /\ ProcessEntryStatus(
          IF filled = 0 THEN "failedUnfilled" ELSE "failedExposed", "raised")
    /\ UNCHANGED <<brokerVars, handed, mustRaise, confirmed, polled, cur>>

\* No fill: cancel everything in hand, without waiting, and record it.
CancelledBracket ==
    /\ pc = "failedUnfilled"
    /\ cancelReq' = cancelReq \cup handed \cup {"entry"}
    /\ SaveThen(WithTrade(copy[cur],
                     [status |-> "Cancelled",
                      protective_orders_confirmed |-> FALSE]),
                "raised", "raised")
    /\ UNCHANGED <<ord, filled, qty, pos, callVars>>

\* _mark_unprotected_entry
MarkUnprotected ==
    /\ pc = "failedExposed"
    /\ SaveThen(
         [copy[cur] EXCEPT
            !.orders = @ \cup {"entry"},
            !.trade = Overlay(Payload(Seen("entry"), exposure),
                        [protective_orders_confirmed |-> FALSE,
                         protection_missing |-> TRUE,
                         product_stop_price |-> TRUE,
                         manual_reconciliation_required |-> TRUE])],
         "exposedAlert", "raised")
    /\ UNCHANGED <<brokerVars, callVars>>

ExposedAlert ==
    /\ pc = "exposedAlert"
    /\ Alert("exposedStop", "raised")
    /\ UNCHANGED <<brokerVars, callVars, storeVars>>

\* Mutant: the emergency stop is left to the alert.
ExposedNotStopped ==
    /\ pc = "exposedStop"
    /\ pc' = "replace"
    /\ UNCHANGED <<brokerVars, callVars, storeVars, faults>>

ExposedStop ==
    /\ pc = "exposedStop"
    /\ StopAndReload("replace")
    /\ UNCHANGED <<brokerVars, failureVars, polled, seen>>

\* The orders in hand are cancelled, without waiting, and replaced.
Replace ==
    /\ pc = "replace"
    /\ cancelReq' = cancelReq \cup handed
    /\ PlacePair(exposure, "replaceWait", "exitAlert")
    /\ UNCHANGED <<filled, pos, mustRaise, confirmed, exposure, polled, seen,
                   cur, storeVars, faults>>

ReplaceConfirmed ==
    /\ pc = "replaceWait"
    /\ AllLive(handed)
    /\ SaveThen(ProtectionRecorded(copy[cur], handed),
                "replaceMark", "exitAlert")
    /\ UNCHANGED <<brokerVars, callVars>>

ReplaceLost ==
    /\ pc = "replaceWait"
    /\ ~AllLive(handed)
    /\ pc' = "exitAlert"
    /\ UNCHANGED <<brokerVars, callVars, storeVars, faults>>

\* _mark_protection_resubmitted
ReplaceMark ==
    /\ pc = "replaceMark"
    /\ SaveThen(WithTrade(copy[cur],
                     [protection_missing |-> FALSE,
                      protective_orders_confirmed |-> TRUE,
                      protection_resubmitted_after_failure |-> TRUE,
                      manual_reconciliation_required |-> TRUE]),
                "replaceAlert", "exitAlert")
    /\ UNCHANGED <<brokerVars, callVars>>

\* How a handled failure ends the call.
Handled(result) == IF mustRaise THEN "raised" ELSE result

\* Mutant: the return after the replacement is missing.
ReplaceAlertFallsThrough ==
    /\ pc = "replaceAlert"
    /\ Alert("exitAlert", "exitAlert")
    /\ UNCHANGED <<brokerVars, callVars, storeVars>>

\* An alert that is not delivered is an exception of the same try block.
ReplaceAlert ==
    /\ pc = "replaceAlert"
    /\ Alert(Handled("repaired"), "exitAlert")
    /\ UNCHANGED <<brokerVars, callVars, storeVars>>

----------------------------------------------------------------------------
(* _attempt_defensive_market_exit                                          *)

ExitAlert ==
    /\ pc = "exitAlert"
    /\ Alert("exit", "raised")
    /\ UNCHANGED <<brokerVars, callVars, storeVars>>

\* Mutant: the exit is for the whole order, not for what was filled.
PlaceExitForOrder ==
    /\ pc = "exit"
    /\ ord' = [ord EXCEPT !["exit"] = "pending"]
    /\ qty' = [qty EXCEPT !["exit"] = Qty]
    /\ pc' = "exitWait"
    /\ UNCHANGED <<filled, pos, cancelReq, callVars, storeVars, faults>>

PlaceExit ==
    /\ pc = "exit"
    /\ \/ /\ ord' = [ord EXCEPT !["exit"] = "pending"]
          /\ qty' = [qty EXCEPT !["exit"] = exposure]
          /\ pc' = "exitWait"
       \/ pc' = "exitFailed" /\ UNCHANGED <<ord, qty>>
    /\ UNCHANGED <<filled, pos, cancelReq, callVars, storeVars, faults>>

\* The exit could not be placed.  The failure counts as handled if the
\* protection had been resubmitted (_exposure_failure_was_handled).
ExitFailed ==
    /\ pc = "exitFailed"
    /\ \/ SaveThen(WithTrade(copy[cur],
                     [defensive_exit |-> "not submitted",
                      manual_reconciliation_required |-> TRUE]),
                   IF "protection_resubmitted_after_failure"
                        \in DOMAIN copy[cur].trade
                   THEN Handled("repaired") ELSE "raised",
                   "raised")
       \/ NoticeFault /\ pc' = "raised" /\ UNCHANGED storeVars
    /\ UNCHANGED <<brokerVars, callVars>>

\* _wait_for_defensive_exit ends: filled, ended otherwise, or timed out.  What
\* is recorded is the status of the last poll; Submitted stands for a live one.
\* Journal, notification and alert come before the state is written.
ExitRecord ==
    /\ pc = "exitWait"
    /\ \E last \in {Seen("exit"), "Submitted"} :
          \/ SaveThen(
               [WithTrade(copy[cur],
                   IF last = "Filled"
                   THEN [defensive_exit |-> "confirmed",
                         status |-> "Closed",
                         manual_reconciliation_required |-> FALSE]
                   ELSE [defensive_exit |-> "submitted",
                         manual_reconciliation_required |-> TRUE])
                  EXCEPT !.orders = @ \cup {"exit"}],
               Handled("exited"), "raised")
          \/ /\ (NoticeFault /\ MustBeDelivered(last)) \/ StoreFault("other")
             /\ pc' = "raised"
             /\ UNCHANGED storeVars
    /\ UNCHANGED <<brokerVars, callVars>>

----------------------------------------------------------------------------
(* What happens around the call.                                           *)

\* The broker's changes reach the program while it awaits or is over.
Listening == pc \in Awaiting \cup Over

\* _is_duplicate_status_event for the event of the entry's new status.
DuplicateEvent ==
    \/ EventKey' \in seen
    \/ /\ "status" \in DOMAIN copy[1].trade
       /\ copy[1].trade.signal_id = "new"
       /\ <<copy[1].trade.status, copy[1].trade.filled>> = EventKey'

\* on_status_update, on_fill_update: copy 1 is updated and saved.  What the
\* file, the journal or the notification raises is lost in the event library.
HandleEntryEvent ==
    IF pc = "crashed" \/ DuplicateEvent
    THEN UNCHANGED <<storeVars, seen, faults>>
    ELSE /\ LET new == StatusRecorded(copy[1], EventKey')
            IN  \/ SaveAs(1, new) /\ UNCHANGED faults
                \/ SaveRaises(1, new) /\ StoreFault("other")
         /\ seen' = seen \cup {EventKey'}

EntryEvent ==
    /\ Listening
    /\ EntryChanges
    /\ HandleEntryEvent
    /\ UNCHANGED <<pc, failureVars, polled, cur>>

ClosingEvent ==
    /\ Listening
    /\ \/ /\ \/ \E o \in Closing : ClosingAccepted(o) \/ ClosingCancelled(o)
             \/ \E o \in Closing : pc \notin Over /\ ClosingRejected(o)
             \/ \E o \in Protective : pc \in Over /\ ProtectiveFills(o)
             \/ ExitFills
          /\ UNCHANGED faults
       \/ /\ pc \in Over /\ LateReject
          /\ \E o \in Closing : ClosingRejected(o)
          /\ faults' = faults \cup {"lateReject"}
       \/ /\ pc \notin Over /\ EarlyTrigger
          /\ \E o \in Protective : ProtectiveFills(o)
          /\ UNCHANGED faults
    /\ UNCHANGED <<pc, callVars, storeVars>>

\* _is_monitorable_active_trade: the monitor looks at a trade on disk that is
\* partly filled.
Monitorable ==
    /\ "filled" \in DOMAIN disk.trade
    /\ disk.trade.filled > 0
    /\ disk.trade.status = "Submitted"

\* The trade monitor's pass in the midst of the call, up to its next await:
\* with a usable quote it records it ...
MonitorRecordsQuote ==
    /\ pc \in Awaiting
    /\ Monitorable
    /\ disk' = WithTrade(disk, [monitor_last_bid |-> TRUE])
    /\ fresh' = {}
    /\ UNCHANGED <<brokerVars, callVars, copy, pc, faults>>

\* ... without one it activates the emergency stop.
MonitorStops ==
    /\ pc \in Awaiting
    /\ Monitorable
    /\ ~disk.estop
    /\ disk' = [WithTrade(disk, [emergency_stop_reason |-> "quote"])
                  EXCEPT !.estop = TRUE]
    /\ fresh' = {}
    /\ UNCHANGED <<brokerVars, callVars, copy, pc, faults>>

\* The process dies, and with it all that it remembers.
Crash ==
    /\ pc \notin Over
    /\ pc' = "crashed"
    /\ handed' = {} /\ mustRaise' = FALSE /\ confirmed' = FALSE
    /\ exposure' = 0 /\ polled' = <<>> /\ seen' = {} /\ cur' = 1
    /\ copy' = [i \in {1, 2} |-> disk] /\ fresh' = {}
    /\ UNCHANGED <<brokerVars, disk, faults>>

----------------------------------------------------------------------------
\* What the state file may hold when the call starts: nothing, a trade that
\* was closed, or the very signal, submitted before a restart.
InitialTrades ==
    {NoTrade,
     [signal_id |-> "old", status |-> "Closed", filled |-> Qty],
     [signal_id |-> "new", status |-> "Submitted", filled |-> 0]}

Init ==
    /\ BrokerInit
    /\ pc = "idle"
    /\ handed = {}
    /\ mustRaise = FALSE
    /\ confirmed = FALSE
    /\ exposure = 0
    /\ polled = <<>>
    /\ seen = {}
    /\ \E t \in InitialTrades : disk = [BlankState EXCEPT !.trade = t]
    /\ copy = [i \in {1, 2} |-> IF i = 1 THEN disk ELSE BlankState]
    /\ fresh \in {{}, {1}}
    /\ cur = 1
    /\ faults = {}

Submission ==
    Refuse \/ PlaceEntry \/ RecordSubmission \/ PlaceStop \/ PlaceTakeProfit
EntryWait ==
    \/ Poll \/ EntryFilled \/ EntryEndedPartly \/ EntryEndedUnfilled
    \/ FillTimeoutPartly \/ FillTimeoutUnfilled \/ CancelTimeout
    \/ ConfirmProtection \/ ProtectionLost
PartialFill ==
    \/ PartialFillAlert \/ ChildrenCancelled \/ PartialPlace
    \/ PartialConfirmed \/ PartialLost \/ PartialMark \/ PartialStop
BracketFailure ==
    \/ FailureStatus \/ CancelledBracket \/ MarkUnprotected \/ ExposedAlert
    \/ ExposedStop \/ Replace \/ ReplaceConfirmed \/ ReplaceLost
    \/ ReplaceMark \/ ReplaceAlert
DefensiveExit ==
    ExitAlert \/ PlaceExit \/ ExitFailed \/ ExitRecord

\* The steps of the call itself.
Call ==
    Submission \/ EntryWait \/ PartialFill \/ BracketFailure \/ DefensiveExit

Next ==
    \/ Call \/ EntryEvent \/ ClosingEvent
    \/ MonitorRecordsQuote \/ MonitorStops \/ Crash

Spec == Init /\ [][Next]_vars

\* asyncio resumes the coroutine: every wait polls and has a timeout.
FairSpec == Spec /\ WF_vars(Call)

----------------------------------------------------------------------------
(* Properties.                                                             *)

TradeKeys ==
    {"signal_id", "status", "filled", "product_stop_price",
     "protective_orders", "protective_orders_confirmed", "protection_missing",
     "protection_resubmitted_after_failure", "partial_fill_timeout",
     "manual_reconciliation_required", "defensive_exit",
     "emergency_stop_reason", "monitor_last_bid"}

StateOK(s) ==
    /\ DOMAIN s = {"candle", "signal", "trade", "orders", "estop"}
    /\ s.candle = None
    /\ s.signal \in {None, "new"}
    /\ DOMAIN s.trade \subseteq TradeKeys
    /\ s.orders \subseteq OrderSlot
    /\ s.estop \in BOOLEAN

StoreTypeOK ==
    /\ StateOK(disk)
    /\ DOMAIN copy = {1, 2} /\ \A i \in {1, 2} : StateOK(copy[i])
    /\ fresh \subseteq {1, 2}
    /\ cur \in {1, 2}

SeenStatus ==
    {"PendingSubmit", "Submitted", "Filled", "Cancelled", "Rejected",
     "Unknown"}

CallTypeOK ==
    /\ pc \in Awaiting \cup Over \cup Sync
    /\ handed \subseteq Protective
    /\ mustRaise \in BOOLEAN
    /\ confirmed \in BOOLEAN
    /\ exposure \in 0..Qty
    /\ polled \in {<<>>} \cup (SeenStatus \X (0..Qty))
    /\ pc \in {"fillWait", "cancelWait"} => polled # <<>>
    /\ seen \subseteq (SeenStatus \X (0..Qty))
    /\ faults \subseteq FaultKinds \cup {"lateReject"}

\* Every variable has its type.
TypeOK == BrokerTypeOK /\ StoreTypeOK /\ CallTypeOK

\* submit_order_set: whatever fails or crashes, nothing of the entry can fill
\* before both of its protective children are with the broker.
BracketBeforeExposure ==
    filled > 0 => \A o \in Attached : ord[o] # "none" /\ qty[o] = Qty

\* submit_order_set: whatever fails or crashes, and whoever else writes the
\* state, a fill is never news to the state file: the trade and the entry's
\* order id were written before the bracket was transmitted.
ExposureIsOnDisk ==
    filled > 0 =>
        /\ "signal_id" \in DOMAIN disk.trade
        /\ disk.trade.signal_id = "new"
        /\ "entry" \in disk.orders

\* _handle_bracket_failure, _activate_emergency_stop: a defensive exit is never
\* tried, and a failure never reported as handled, before the emergency stop is
\* on disk, and no stale save takes the stop back; unless writing the stop
\* itself has failed, which the code swallows.
StopBeforeExit ==
    (ord["exit"] # "none" \/ pc \in {"partialProtected", "repaired", "exited"})
        => disk.estop \/ "stop" \in faults

\* submit_order_set returning normally: the state file knows the whole fill
\* and both protective orders, also after the monitor wrote in between.
ProtectedIsRecorded ==
    pc = "protected" =>
        /\ disk.trade.signal_id = "new"
        /\ disk.trade.status = "Filled"
        /\ disk.trade.filled = Qty
        /\ disk.trade.protective_orders = Attached
        /\ {"entry"} \cup Attached \subseteq disk.orders

\* A call that has placed the entry ends: no wait of submit_order_set, of the
\* partial fill or of the failure handling is without end.
SubmissionEnds == pc = "entryPlaced" ~> pc \in Over

Pairs == {Attached, {"stop2", "take2"}, {"stop3", "take3"}}

\* Both orders of some pair are live and sell at least the position.
Covered ==
    \E pair \in Pairs : AllLive(pair) /\ \A o \in pair : qty[o] >= pos

\* The entry filled behind a cancellation that the call did not await.
FilledLate == pc = "raised" /\ exposure = 0 /\ "entry" \in cancelReq

\* _handle_bracket_failure, _handle_partial_fill_timeout: a call that is over
\* leaves a position that is neither protected at the broker nor stopped only
\* if the failure handling itself met an error before its stop was written, if
\* the entry filled behind a cancellation nobody awaits, or if the broker took
\* back an order it had confirmed.
ExposureCovered ==
    pc \in Over \ {"crashed"} /\ pos > 0 =>
        \/ disk.estop
        \/ Covered
        \/ faults \cap {"handling", "stop", "lateReject"} # {}
        \/ FilledLate

\* The same without the exceptions, which the code does not keep.
AlwaysCovered ==
    pc \in Over \ {"crashed"} /\ pos > 0 => disk.estop \/ Covered

\* build_exit_oca_orders, build_market_exit_order: no order sells more than
\* the fill it closes.  A short position takes both a protective order that was
\* triggered and a market exit.
ShortTakesBothFills == pos < 0 => ord["exit"] = "filled" /\ GroupFilled

\* The defensive exit sells a position that exists: it does not, when the
\* protection it replaces is triggered before the cancellation arrives.
ExitOnlyForPosition ==
    [][PlaceExit => (ord'["exit"] = "pending" => pos >= qty'["exit"])]_vars

\* _handle_bracket_failure: the defensive exit follows a failed replacement; it
\* is placed on top of one in force only if recording or announcing that one
\* met an error.
ExitMeansReplacementFailed ==
    [][PlaceExit /\ ord'["exit"] = "pending" =>
          \/ ~\E pair \in Pairs \ {Attached} : AllLive(pair)
          \/ "replacement" \in faults]_vars
=============================================================================
