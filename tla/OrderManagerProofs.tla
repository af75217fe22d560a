------------------------- MODULE OrderManagerProofs -------------------------
(***************************************************************************)
(* Proofs about a submission, for any quantity.                            *)
(*                                                                         *)
(* The first part is about one alone, with the monitor reduced to its      *)
(* writes: nothing fills before its bracket is placed, no fill is news to  *)
(* the state file, no exit comes before the emergency stop was tried, and  *)
(* a call that returns normally is recorded whole.                         *)
(*                                                                         *)
(* The second part is about the call beside a monitor that is whole:       *)
(* nothing is left exposed, sold twice over or sold on top of protection   *)
(* in force but for the errors named, and the monitor repairs beside the   *)
(* call only after the stop was tried.                                     *)
(*                                                                         *)
(* Both hold in every environment: whatever raises, is lost or comes late. *)
(***************************************************************************)
EXTENDS ManagedTrade, TLAPS

\* s knows of the submission.
Recorded(s) ==
    /\ "signal_id" \in DOMAIN s.trade
    /\ s.trade.signal_id = "new"
    /\ "entry" \in s.orders

\* The first child of the bracket is placed, or about to be.
ChildPhase == pc = "placeStop" \/ ord["stop1"] # "none"

\* The file and both copies in use know of the submission.
AllRecorded == Recorded(disk) /\ Recorded(copy[1]) /\ Recorded(copy[cur])

\* The locations behind the emergency stop.
StoppedAt ==
    {"replace", "replaceWait", "replaceMark", "replaceAlert", "exitAlert",
     "exit", "exitWait", "exitFailed",
     "partialProtected", "repaired", "exited"}

Stopped == pc \in StoppedAt \/ ord["exit"] # "none"

\* The emergency stop is on disk, or its write has failed.
StopTried == disk.estop \/ "stop" \in faults

\* The locations before the submission is recorded.
Early == {"idle", "entryPlaced"}

BracketPlaced == \A o \in Attached : ord[o] # "none" /\ qty[o] = Qty

\* The entry can fill only when it was transmitted, with its bracket.
BracketInv ==
    /\ pc = "placeTake" => ord["stop1"] # "none" /\ qty["stop1"] = Qty
    /\ ord["entry"] \in {"pending", "active", "filled"} \/ filled > 0
          => BracketPlaced

\* A copy that is saved unmerged has the emergency stop of the file.
FreshStop == \A i \in fresh : disk.estop => copy[i].estop

BrokerInv == BrokerTypeOK /\ BracketInv
StoreInv == StoreTypeOK /\ FreshStop

IInv ==
    /\ BrokerInv
    /\ StoreInv
    /\ CallTypeOK
    /\ pc \in Early => cur = 1
    /\ ChildPhase => AllRecorded
    /\ Stopped => StopTried

USE QtyIsPositive, LateFillIsBoolean, EnvironmentIsBoolean

----------------------------------------------------------------------------
(* The bot state.                                                          *)

\* Setting keys of active_trade keeps the type of a state; setting other keys
\* than signal_id keeps what it knows of the submission.
LEMMA WithTradeKeeps ==
    ASSUME NEW s, StateOK(s), NEW d, DOMAIN d \subseteq TradeKeys
    PROVE  /\ StateOK(WithTrade(s, d))
           /\ WithTrade(s, d).estop = s.estop
           /\ WithTrade(s, d).orders = s.orders
           /\ Recorded(s) /\ "signal_id" \notin DOMAIN d
                => Recorded(WithTrade(s, d))
  BY DEF StateOK, WithTrade, Overlay, Recorded

\* A merge of two states is a state; it keeps the emergency stop, and what the
\* saved copy knows of the submission.
LEMMA MergeKeeps ==
    ASSUME NEW c, StateOK(c), NEW i, StateOK(i)
    PROVE  /\ StateOK(MergeConcurrentState(c, i))
           /\ c.estop => MergeConcurrentState(c, i).estop
           /\ Recorded(i) => Recorded(MergeConcurrentState(c, i))
<1> DEFINE t == MergeActiveTrade(c.trade, i.trade)
<1>1. t \in {c.trade, i.trade, Overlay(c.trade, i.trade)}
  BY DEF MergeActiveTrade
<1>2. DOMAIN t \subseteq TradeKeys
  BY <1>1 DEF StateOK, Overlay
<1>3. StateOK(MergeConcurrentState(c, i))
  BY <1>2 DEF StateOK, MergeConcurrentState, Either
<1>4. c.estop => MergeConcurrentState(c, i).estop
  BY DEF MergeConcurrentState
<1>5. ASSUME Recorded(i)
      PROVE  Recorded(MergeConcurrentState(c, i))
  <2>1. i.trade # NoTrade
    BY <1>5 DEF Recorded, NoTrade
  <2>2. t \in {i.trade, Overlay(c.trade, i.trade)}
    BY <2>1 DEF MergeActiveTrade
  <2>3. "signal_id" \in DOMAIN t /\ t.signal_id = "new"
    BY <2>2, <1>5 DEF Recorded, Overlay
  <2> QED  BY <2>3, <1>5 DEF Recorded, MergeConcurrentState
<1> QED  BY <1>3, <1>4, <1>5

FaultsOK == faults \subseteq FaultKinds \cup {"lateReject"}

\* What a step may do to the file, the copies and the errors met.
StoreStepOK ==
    /\ StoreInv'
    /\ FaultsOK'
    /\ AllRecorded => AllRecorded'
    /\ StopTried => StopTried'

\* An error of one of the kinds is added to those met.
LEMMA FaultAdds ==
    ASSUME IInv, NEW kind \in FaultKinds, Fault(kind)
    PROVE  faults \subseteq faults' /\ FaultsOK' /\ kind \in faults'
  BY DEF Fault, FaultsOK, IInv, CallTypeOK

LEMMA KindIsKind == FaultKind \in FaultKinds
  BY DEF FaultKind, FaultKinds

LEMMA NoStoreStep ==
    ASSUME IInv, UNCHANGED <<storeVars, cur>>,
           UNCHANGED faults \/ \E kind \in FaultKinds : Fault(kind)
    PROVE  StoreStepOK
<1>1. faults \subseteq faults' /\ FaultsOK'
  BY FaultAdds DEF IInv, CallTypeOK, FaultsOK
<1> QED
  BY <1>1 DEF IInv, StoreStepOK, StoreInv, StoreTypeOK, FreshStop, AllRecorded,
              storeVars, StopTried

\* Saving a copy after an edit that keeps its type, its stop and what it knows
\* of the submission, whether or not save() raises on the way.
LEMMA SaveStep ==
    ASSUME IInv, NEW i \in {1, cur}, NEW new, StateOK(new),
           copy[i].estop => new.estop,
           Recorded(copy[i]) => Recorded(new),
           SaveRaises(i, new), UNCHANGED cur,
           faults \subseteq faults', FaultsOK'
    PROVE  StoreStepOK /\ (SaveAs(i, new) /\ Recorded(new) => Recorded(disk'))
<1>1. i \in {1, 2} /\ cur \in {1, 2} /\ fresh \subseteq {1, 2}
      /\ DOMAIN copy = {1, 2} /\ (\A j \in {1, 2} : StateOK(copy[j]))
      /\ StateOK(disk) /\ FreshStop
  BY DEF IInv, StoreInv, StoreTypeOK
<1>2. /\ DOMAIN copy' = {1, 2}
      /\ \A j \in {1, 2} : copy'[j] = IF j = i THEN new ELSE copy[j]
  BY <1>1 DEF SaveRaises, SaveAs
<1>3. CASE SaveAs(i, new)
  <2>1. /\ disk' = IF i \in fresh THEN new ELSE MergeConcurrentState(disk, new)
        /\ fresh' = fresh \cap {i}
    BY <1>3 DEF SaveAs, Saved
  <2>2. StateOK(disk') /\ (disk.estop => disk'.estop)
        /\ (Recorded(new) => Recorded(disk'))
    BY <1>1, <2>1, MergeKeeps DEF FreshStop
  <2>3. FreshStop'
    BY <1>1, <1>2, <2>1 DEF FreshStop
  <2>4. StoreInv'
    BY <1>1, <1>2, <2>1, <2>2, <2>3 DEF StoreInv, StoreTypeOK
  <2>5. AllRecorded => AllRecorded'
    BY <1>1, <1>2, <2>2 DEF AllRecorded
  <2>6. StopTried => StopTried'
    BY <2>2 DEF StopTried
  <2> QED  BY <2>2, <2>4, <2>5, <2>6 DEF StoreStepOK
<1>4. CASE fresh' = fresh \ {i} /\ UNCHANGED disk /\ ~SaveAs(i, new)
  <2>1. FreshStop'
    BY <1>1, <1>2, <1>4 DEF FreshStop
  <2>2. StoreInv'
    BY <1>1, <1>2, <1>4, <2>1 DEF StoreInv, StoreTypeOK
  <2>3. AllRecorded => AllRecorded'
    BY <1>1, <1>2, <1>4 DEF AllRecorded
  <2>4. StopTried => StopTried'
    BY <1>4 DEF StopTried
  <2> QED  BY <1>4, <2>2, <2>3, <2>4 DEF StoreStepOK
<1> QED  BY <1>3, <1>4 DEF SaveRaises

\* The same for a save of the call, and where it leads.
LEMMA SaveThenStep ==
    ASSUME IInv, NEW new, StateOK(new),
           copy[cur].estop => new.estop,
           Recorded(copy[cur]) => Recorded(new),
           NEW a, NEW b, SaveThen(new, a, b), UNCHANGED cur
    PROVE  /\ StoreStepOK
           /\ pc' \in {a, b}
           /\ SaveAs(cur, new) \/ pc' = b
<1>1. faults \subseteq faults' /\ FaultsOK'
  BY FaultAdds, KindIsKind DEF SaveThen, StoreFault, IInv, CallTypeOK, FaultsOK
<1>2. SaveRaises(cur, new)
  BY DEF SaveThen, SaveRaises
<1>3. StoreStepOK
  BY <1>1, <1>2, SaveStep
<1> QED  BY <1>3 DEF SaveThen

\* A stopped copy of the file, with keys of active_trade set.
LEMMA StopKeeps ==
    ASSUME NEW s, StateOK(s), NEW d, DOMAIN d \subseteq TradeKeys,
           "signal_id" \notin DOMAIN d
    PROVE  LET new == [WithTrade(s, d) EXCEPT !.estop = TRUE]
           IN  /\ StateOK(new)
               /\ new.estop
               /\ Recorded(s) => Recorded(new)
  BY WithTradeKeeps DEF StateOK, Recorded

\* The emergency stop is written, or the failure of its write is noted.
LEMMA StopStep ==
    ASSUME IInv, NEW a, StopAndReload(a)
    PROVE  StoreStepOK /\ StopTried' /\ pc' \in {a, "raised"}
<1> DEFINE d == [emergency_stop_reason |-> "exposure"]
<1>1. DOMAIN copy = {1, 2} /\ (\A j \in {1, 2} : StateOK(copy[j]))
      /\ StateOK(disk) /\ fresh \subseteq {1, 2} /\ cur \in {1, 2} /\ FreshStop
  BY DEF IInv, StoreInv, StoreTypeOK
<1>2. DOMAIN d = {"emergency_stop_reason"}  OBVIOUS
<1>3. /\ StateOK(StopWritten) /\ StopWritten.estop
      /\ Recorded(disk) => Recorded(StopWritten)
  BY <1>1, <1>2, StopKeeps DEF TradeKeys, StopWritten
<1>0. pc' \in {a, "raised"}
  BY DEF StopAndReload
<1>4. CASE /\ disk' = StopWritten /\ fresh' = {2} /\ cur' = 2
           /\ copy' = [copy EXCEPT ![2] = disk'] /\ UNCHANGED faults
  <2>1. StoreInv'
    BY <1>1, <1>3, <1>4 DEF StoreInv, StoreTypeOK, FreshStop
  <2>2. AllRecorded => AllRecorded'
    BY <1>1, <1>3, <1>4 DEF AllRecorded
  <2> QED  BY <1>0, <1>3, <1>4, <2>1, <2>2
              DEF StoreStepOK, StopTried, IInv, CallTypeOK, FaultsOK
<1>5. ASSUME StoreFault("stop")
      PROVE  FaultsOK' /\ StopTried'
  BY <1>5, FaultAdds DEF StoreFault, StopTried, FaultKinds
<1>6. CASE /\ copy' = [copy EXCEPT ![2] = disk] /\ cur' = 2
           /\ fresh' = fresh \cup {2} /\ UNCHANGED disk /\ StoreFault("stop")
  <2>1. StoreInv'
    BY <1>1, <1>6 DEF StoreInv, StoreTypeOK, FreshStop
  <2>2. AllRecorded => AllRecorded'
    BY <1>1, <1>6 DEF AllRecorded
  <2> QED  BY <1>0, <1>5, <1>6, <2>1, <2>2 DEF StoreStepOK
<1>7. CASE /\ StoreFault("stop") /\ UNCHANGED <<copy, cur>>
           /\ (disk' = StopWritten /\ fresh' = {}) \/ UNCHANGED <<disk, fresh>>
  <2>1. StoreInv'
    BY <1>1, <1>3, <1>7 DEF StoreInv, StoreTypeOK, FreshStop
  <2>2. AllRecorded => AllRecorded'
    BY <1>1, <1>3, <1>7 DEF AllRecorded
  <2> QED  BY <1>0, <1>5, <1>7, <2>1, <2>2 DEF StoreStepOK
<1> QED  BY <1>4, <1>6, <1>7 DEF StopAndReload

\* The monitor writes the file and keeps no copy that matters here.
LEMMA FileStep ==
    ASSUME IInv, StateOK(disk'), disk.estop => disk'.estop,
           Recorded(disk) => Recorded(disk'), fresh' = {},
           UNCHANGED <<copy, cur, faults>>
    PROVE  StoreStepOK
  BY DEF IInv, StoreStepOK, StoreInv, StoreTypeOK, FreshStop, AllRecorded,
         StopTried, CallTypeOK, FaultsOK

\* What StoreStepOK leaves to show of a step.
LEMMA Combine ==
    ASSUME IInv, StoreStepOK, BrokerInv', CallTypeOK',
           pc' \in Early => cur' = 1,
           ChildPhase' => ChildPhase \/ AllRecorded',
           Stopped' => Stopped \/ StopTried'
    PROVE  IInv'
  BY DEF IInv, StoreStepOK

----------------------------------------------------------------------------
(* The edits of the program to its copies.                                 *)

\* The status of an order is one of these texts.
LEMMA SeenIsStatus == ASSUME NEW o PROVE Seen(o) \in SeenStatus
  BY DEF Seen, SeenStatus

LEMMA StatusRecordedOK ==
    ASSUME NEW s, StateOK(s), NEW status
    PROVE  /\ StateOK(StatusRecorded(s, status))
           /\ StatusRecorded(s, status).estop = s.estop
           /\ Recorded(StatusRecorded(s, status))
<1> DEFINE t == Payload(status[1], status[2])
<1>1. DOMAIN t \subseteq TradeKeys /\ "signal_id" \in DOMAIN t
      /\ t.signal_id = "new"
  BY DEF Payload, TradeKeys
<1>2. StatusRecorded(s, status)
        = [s EXCEPT !.orders = @ \cup {"entry"}, !.trade = t, !.signal = "new"]
  BY DEF StatusRecorded
<1> HIDE DEF t
<1> QED  BY <1>1, <1>2 DEF StateOK, Recorded, OrderSlot

LEMMA ProtectionRecordedOK ==
    ASSUME NEW s, StateOK(s), NEW S \in SUBSET Protective
    PROVE  /\ StateOK(ProtectionRecorded(s, S))
           /\ ProtectionRecorded(s, S).estop = s.estop
           /\ Recorded(s) => Recorded(ProtectionRecorded(s, S))
<1> DEFINE d == [protective_orders_confirmed |-> TRUE,
                 product_stop_price |-> TRUE, protective_orders |-> S]
<1>1. DOMAIN d \subseteq TradeKeys /\ "signal_id" \notin DOMAIN d
  BY DEF TradeKeys
<1>2. StateOK(WithTrade(s, d)) /\ WithTrade(s, d).estop = s.estop
      /\ (Recorded(s) => Recorded(WithTrade(s, d)))
  BY <1>1, WithTradeKeeps
<1>3. ProtectionRecorded(s, S)
        = [WithTrade(s, d) EXCEPT !.orders = @ \cup S]
  BY DEF ProtectionRecorded
<1> HIDE DEF d
<1> QED  BY <1>2, <1>3 DEF StateOK, Recorded, OrderSlot, Closing

\* A status of the entry, or none.
StatusType == SeenStatus \X (0..Qty)

LEMMA EventKeyIsStatus == ASSUME BrokerTypeOK PROVE EventKey \in StatusType
  BY SeenIsStatus DEF EventKey, StatusType, BrokerTypeOK

\* A forced status update of the entry.
LEMMA ProcessStep ==
    ASSUME IInv, NEW status \in StatusType, NEW a, NEW b,
           ProcessStatus(status, a, b), UNCHANGED cur
    PROVE  /\ StoreStepOK
           /\ cur = 1 => AllRecorded' \/ pc' = b
           /\ seen' \subseteq StatusType
           /\ pc' \in {a, b}
<1>1. cur \in {1, 2} /\ StateOK(copy[cur]) /\ DOMAIN copy = {1, 2}
  BY DEF IInv, StoreInv, StoreTypeOK
<1> DEFINE new == StatusRecorded(copy[cur], status)
<1>2. /\ seen' = seen \cup {status}
      /\ \/ SaveThen(new, a, b)
         \/ NoticeFault /\ SaveAs(cur, new) /\ pc' = b
  BY DEF ProcessStatus
<1>3. StateOK(new) /\ new.estop = copy[cur].estop /\ Recorded(new)
  BY <1>1, StatusRecordedOK
<1> HIDE DEF new
<1>6. seen' \subseteq StatusType /\ pc' \in {a, b}
  BY <1>2 DEF IInv, CallTypeOK, StatusType, SaveThen
<1>4. CASE SaveThen(new, a, b)
  <2>1. StoreStepOK /\ pc' \in {a, b} /\ (SaveAs(cur, new) \/ pc' = b)
    BY <1>3, <1>4, SaveThenStep
  <2>2. CASE SaveAs(cur, new) /\ pc' # b
    <3>1. SaveRaises(cur, new) /\ UNCHANGED faults
      BY <1>4, <2>2 DEF SaveRaises, SaveThen
    <3>2. Recorded(disk')
      BY <1>3, <2>2, <3>1, SaveStep DEF IInv, CallTypeOK, FaultsOK
    <3>3. copy'[cur] = new
      BY <1>1, <2>2 DEF SaveAs
    <3> QED  BY <1>3, <1>6, <2>1, <3>2, <3>3 DEF AllRecorded
  <2> QED  BY <1>6, <2>1, <2>2
<1>5. CASE NoticeFault /\ SaveAs(cur, new) /\ pc' = b
  <2>1. faults \subseteq faults' /\ FaultsOK'
    BY <1>5, FaultAdds, KindIsKind DEF NoticeFault
  <2> QED  BY <1>3, <1>5, <1>6, <2>1, SaveStep DEF SaveRaises
<1> QED  BY <1>2, <1>4, <1>5

\* Setting keys of active_trade other than signal_id.
LEMMA EditStep ==
    ASSUME IInv, NEW d, DOMAIN d \subseteq TradeKeys,
           "signal_id" \notin DOMAIN d, NEW a, NEW b,
           SaveThen(WithTrade(copy[cur], d), a, b), UNCHANGED cur
    PROVE  StoreStepOK /\ pc' \in {a, b}
<1>1. cur \in {1, 2} /\ StateOK(copy[cur])
  BY DEF IInv, StoreInv, StoreTypeOK
<1> DEFINE new == WithTrade(copy[cur], d)
<1>2. StateOK(new) /\ new.estop = copy[cur].estop
      /\ (Recorded(copy[cur]) => Recorded(new))
  BY <1>1, WithTradeKeeps
<1>3. SaveThen(new, a, b)
  OBVIOUS
<1> HIDE DEF new
<1> QED  BY <1>2, <1>3, SaveThenStep

\* Recording the protection in hand.
LEMMA ProtectionStep ==
    ASSUME IInv, NEW a, NEW b,
           SaveThen(ProtectionRecorded(copy[cur], handed), a, b),
           UNCHANGED cur
    PROVE  StoreStepOK /\ pc' \in {a, b}
<1>1. cur \in {1, 2} /\ StateOK(copy[cur]) /\ handed \in SUBSET Protective
  BY DEF IInv, StoreInv, StoreTypeOK, CallTypeOK
<1> DEFINE new == ProtectionRecorded(copy[cur], handed)
<1>2. StateOK(new) /\ new.estop = copy[cur].estop
      /\ (Recorded(copy[cur]) => Recorded(new))
  BY <1>1, ProtectionRecordedOK
<1>3. SaveThen(new, a, b)
  OBVIOUS
<1> HIDE DEF new
<1> QED  BY <1>2, <1>3, SaveThenStep

\* An alert is delivered, or the failure to deliver it is noted.
LEMMA AlertStep ==
    ASSUME IInv, NEW a, NEW b, Alert(a, b), UNCHANGED <<storeVars, cur>>
    PROVE  StoreStepOK /\ pc' \in {a, b}
  BY NoStoreStep, KindIsKind DEF Alert, NoticeFault

\* The variables of a call that goes on elsewhere keep their types.
LEMMA QuietCall ==
    ASSUME IInv, StoreStepOK, UNCHANGED callVars,
           pc' \in Awaiting \cup Over \cup Sync,
           pc' \notin {"fillWait", "cancelWait"}
    PROVE  CallTypeOK'
  BY DEF IInv, StoreStepOK, CallTypeOK, FaultsOK, callVars, failureVars

----------------------------------------------------------------------------
(* The broker's side of a step.                                            *)

Working == {"pending", "active", "filled"}

\* No placed child disappears and no entry starts working.
LEMMA BracketKept ==
    ASSUME BrokerInv, BrokerTypeOK', pc' # "placeTake",
           \A o \in Attached :
              ord[o] # "none" => ord'[o] # "none" /\ qty'[o] = qty[o],
           ord'["entry"] \in Working \/ filled' > 0
              => ord["entry"] \in Working \/ filled > 0
    PROVE  BrokerInv'
  BY DEF BrokerInv, BracketInv, BracketPlaced, Working

LEMMA NoBrokerStep ==
    ASSUME BrokerInv, UNCHANGED brokerVars, pc' # "placeTake"
    PROVE  BrokerInv'
  BY DEF BrokerInv, BracketInv, BracketPlaced, BrokerTypeOK, brokerVars

\* Every step that leaves the broker alone and is past the submission.
LEMMA QuietStep ==
    ASSUME IInv, UNCHANGED brokerVars, StoreStepOK, CallTypeOK',
           pc' \notin Early \cup {"placeStop", "placeTake"},
           pc' \in StoppedAt => pc \in StoppedAt \/ StopTried'
    PROVE  IInv'
<1>1. BrokerInv'
  BY NoBrokerStep DEF IInv
<1>2. (ChildPhase' => ChildPhase) /\ (Stopped' => Stopped \/ StopTried')
  BY DEF ChildPhase, Stopped, brokerVars
<1> QED  BY <1>1, <1>2, Combine

\* A step that at most asks for cancellations.
LEMMA CancelStep ==
    ASSUME IInv, UNCHANGED <<ord, filled, qty, pos>>,
           cancelReq' \subseteq OrderSlot \cup cancelReq, StoreStepOK,
           CallTypeOK', pc' \notin Early \cup {"placeStop", "placeTake"},
           pc' \in StoppedAt => pc \in StoppedAt \/ StopTried'
    PROVE  IInv'
<1>1. BrokerInv'
  BY BracketKept DEF IInv, BrokerInv, BrokerTypeOK
<1>2. (ChildPhase' => ChildPhase) /\ (Stopped' => Stopped \/ StopTried')
  BY DEF ChildPhase, Stopped
<1> QED  BY <1>1, <1>2, Combine

----------------------------------------------------------------------------
(* The steps of the call.                                                  *)

\* A forced status update leaves the call's own variables alone.
LEMMA ProcessCall ==
    ASSUME IInv, StoreStepOK, UNCHANGED <<failureVars, polled>>,
           seen' \subseteq StatusType,
           pc' \in Awaiting \cup Over \cup Sync,
           pc' \notin {"fillWait", "cancelWait"}
    PROVE  CallTypeOK'
  BY DEF IInv, StoreStepOK, CallTypeOK, FaultsOK, failureVars, StatusType

LEMMA SubmissionStep == ASSUME IInv, Submission PROVE IInv'
<1>1. CASE Refuse
  <2>1. StoreStepOK
    BY <1>1, NoStoreStep DEF Refuse, callVars
  <2>2. CallTypeOK' /\ pc' = "refused"
    BY <1>1, <2>1, QuietCall DEF Refuse, Over
  <2> QED  BY <1>1, <2>1, <2>2, QuietStep DEF Refuse, Early, StoppedAt
<1>2. CASE PlaceEntry
  <2>1. StoreStepOK
    BY <1>2, NoStoreStep DEF PlaceEntry, callVars
  <2>2. CallTypeOK' /\ pc' \in {"entryPlaced", "raised"} /\ cur' = cur
        /\ pc = "idle"
    BY <1>2, <2>1, QuietCall DEF PlaceEntry, callVars, Over, Awaiting
  <2>3. ord' \in {ord, [ord EXCEPT !["entry"] = "staged"]}
        /\ UNCHANGED <<filled, qty, pos, cancelReq>>
    BY <1>2 DEF PlaceEntry
  <2>4. BrokerTypeOK' /\ \A o \in Closing : ord'[o] = ord[o]
    BY <2>3 DEF IInv, BrokerInv, BrokerTypeOK, Status, OrderSlot, Closing,
                Protective, Attached, Replacement, Repair
  <2>5. ord'["entry"] \in {ord["entry"], "staged"}
    BY <2>3 DEF IInv, BrokerInv, BrokerTypeOK, OrderSlot
  <2>6. BrokerInv'
    BY <2>2, <2>3, <2>4, <2>5, BracketKept
       DEF IInv, Working, Closing, Protective
  <2>7. ord'["stop1"] = ord["stop1"] /\ ord'["exit"] = ord["exit"]
    BY <2>4 DEF Closing, Protective, Attached
  <2> QED  BY <2>1, <2>2, <2>6, <2>7, Combine
              DEF ChildPhase, Stopped, StoppedAt, Early, IInv
<1>3. CASE RecordSubmission
  <2>1. cur = 1 /\ UNCHANGED <<brokerVars, failureVars, polled, cur>>
    BY <1>3 DEF RecordSubmission, IInv, Early
  <2>2. StoreStepOK /\ (AllRecorded' \/ pc' = "failed")
        /\ pc' \in {"placeStop", "failed"} /\ seen' \subseteq StatusType
    BY <1>3, <2>1, ProcessStep, EventKeyIsStatus
    DEF RecordSubmission, ProcessEntryStatus, IInv, BrokerInv
  <2>3. CallTypeOK'
    BY <2>1, <2>2, ProcessCall DEF Sync
  <2>4. BrokerInv'
    BY <2>1, <2>2, NoBrokerStep DEF IInv
  <2>5. ChildPhase' => ChildPhase \/ AllRecorded'
    BY <2>1, <2>2 DEF ChildPhase, brokerVars
  <2> QED  BY <2>1, <2>2, <2>3, <2>4, <2>5, Combine
              DEF Stopped, StoppedAt, Early, brokerVars
<1>4. CASE PlaceStop
  <2>1. StoreStepOK
    BY <1>4, NoStoreStep DEF PlaceStop, callVars
  <2>2. CallTypeOK' /\ pc' \in {"placeTake", "failed"} /\ pc = "placeStop"
    BY <1>4, <2>1, QuietCall DEF PlaceStop, Sync
  <2>3. CASE pc' = "placeTake"
    <3>1. ord' = [ord EXCEPT !["stop1"] = "staged"]
          /\ qty' = [qty EXCEPT !["stop1"] = Qty]
          /\ UNCHANGED <<filled, pos, cancelReq>>
      BY <1>4, <2>3 DEF PlaceStop
    <3>2. BrokerTypeOK' /\ ord'["stop1"] = "staged" /\ qty'["stop1"] = Qty
          /\ ord'["entry"] = ord["entry"] /\ ord'["exit"] = ord["exit"]
          /\ ord'["take1"] = ord["take1"] /\ qty'["take1"] = qty["take1"]
      BY <3>1 DEF IInv, BrokerInv, BrokerTypeOK, Status, OrderSlot, Closing,
                  Protective, Attached, Replacement, Repair
    <3>3. BrokerInv'
      BY <3>1, <3>2 DEF IInv, BrokerInv, BracketInv, BracketPlaced, Attached
    <3> QED  BY <2>1, <2>2, <2>3, <3>2, <3>3, Combine
                DEF ChildPhase, Stopped, StoppedAt, Early
  <2>4. CASE pc' = "failed"
    <3>1. UNCHANGED brokerVars
      BY <1>4, <2>4 DEF PlaceStop, brokerVars
    <3> QED  BY <2>1, <2>2, <2>4, <3>1, QuietStep DEF Early, StoppedAt
  <2> QED  BY <2>2, <2>3, <2>4
<1>5. CASE PlaceTakeProfit
  <2>1. StoreStepOK
    BY <1>5, NoStoreStep DEF PlaceTakeProfit
  <2>0. Seen("entry")' \in SeenStatus /\ filled \in 0..Qty
    BY DEF Seen, SeenStatus, IInv, BrokerInv, BrokerTypeOK
  <2>2. CallTypeOK' /\ pc' \in {"fillWait", "failed"} /\ pc = "placeTake"
    BY <1>5, <2>0, <2>1
    DEF PlaceTakeProfit, IInv, CallTypeOK, Sync, Awaiting, Protective,
        StoreStepOK, FaultsOK
  <2>3. CASE pc' = "fillWait"
    <3>1. ord' = [Moved({"entry", "stop1"}, "pending")
                    EXCEPT !["take1"] = "pending"]
          /\ qty' = [qty EXCEPT !["take1"] = Qty]
          /\ UNCHANGED <<filled, pos, cancelReq>>
      BY <1>5, <2>3 DEF PlaceTakeProfit
    <3>2. BrokerTypeOK' /\ ord'["take1"] = "pending" /\ qty'["take1"] = Qty
          /\ ord'["exit"] = ord["exit"] /\ qty'["stop1"] = qty["stop1"]
          /\ ord'["stop1"] \in {ord["stop1"], "pending"}
      BY <3>1 DEF IInv, BrokerInv, BrokerTypeOK, Status, OrderSlot, Closing,
                  Protective, Attached, Replacement, Repair, Moved
    <3>3. BrokerInv'
      BY <2>2, <2>3, <3>1, <3>2
         DEF IInv, BrokerInv, BracketInv, BracketPlaced, Attached
    <3>4. ChildPhase
      BY <2>2 DEF IInv, BrokerInv, BracketInv, ChildPhase
    <3> QED  BY <2>1, <2>2, <2>3, <3>2, <3>3, <3>4, Combine
                DEF Stopped, StoppedAt, Early
  <2>4. CASE pc' = "failed"
    <3>1. UNCHANGED brokerVars
      BY <1>5, <2>4 DEF PlaceTakeProfit, brokerVars
    <3> QED  BY <2>1, <2>2, <2>4, <3>1, QuietStep DEF Early, StoppedAt
  <2> QED  BY <2>2, <2>3, <2>4
<1> QED  BY <1>1, <1>2, <1>3, <1>4, <1>5 DEF Submission

\* The same for a call that no longer waits for the entry.
LEMMA NotWaitingCall ==
    ASSUME IInv, StoreStepOK, UNCHANGED failureVars, polled' = <<>>,
           seen' \subseteq StatusType,
           pc' \in Awaiting \cup Over \cup Sync,
           pc' \notin {"fillWait", "cancelWait"}
    PROVE  CallTypeOK'
  BY DEF IInv, StoreStepOK, CallTypeOK, FaultsOK, failureVars, StatusType

LEMMA EntryWaitStep == ASSUME IInv, EntryWait PROVE IInv'
<1> USE DEF StoppedAt, Early
<1>0. EventKey \in StatusType
      /\ (pc \in {"fillWait", "cancelWait"} => polled \in StatusType)
  BY EventKeyIsStatus DEF IInv, BrokerInv, CallTypeOK, StatusType
<1>1. CASE Poll
  <2>1. StoreStepOK
    BY <1>1, NoStoreStep DEF Poll
  <2>2. polled' # <<>>
    BY <1>1 DEF Poll, EventKey
  <2>3. CallTypeOK'
    BY <1>0, <1>1, <2>1, <2>2
    DEF Poll, IInv, CallTypeOK, StatusType, failureVars
  <2> QED  BY <1>1, <2>1, <2>3, QuietStep DEF Poll
<1>2. CASE EntryFilled
  <2>1. UNCHANGED <<brokerVars, failureVars, cur>> /\ polled' = <<>>
    BY <1>2 DEF EntryFilled, NotWaiting
  <2>2. CASE ProcessEntryStatus("protectionWait", "failed")
    <3>1. StoreStepOK /\ seen' \subseteq StatusType
          /\ pc' \in {"protectionWait", "failed"}
      BY <1>0, <2>1, <2>2, ProcessStep DEF ProcessEntryStatus
    <3>2. CallTypeOK'
      BY <2>1, <3>1, NotWaitingCall DEF Awaiting, Sync
    <3> QED  BY <2>1, <3>1, <3>2, QuietStep
  <2>3. CASE pc' = "failed" /\ UNCHANGED <<seen, storeVars, faults>>
    <3>1. StoreStepOK
      BY <2>1, <2>3, NoStoreStep
    <3>2. CallTypeOK'
      BY <2>1, <2>3, <3>1, NotWaitingCall DEF IInv, CallTypeOK, StatusType, Sync
    <3> QED  BY <2>1, <2>3, <3>1, <3>2, QuietStep
  <2> QED  BY <1>2, <2>2, <2>3 DEF EntryFilled
<1>3. CASE EntryEndedPartly
  <2>1. StoreStepOK /\ seen' \subseteq StatusType /\ pc' \in {"partial", "failed"}
    BY <1>0, <1>3, ProcessStep DEF EntryEndedPartly, ProcessEntryStatus
  <2>2. CallTypeOK'
    BY <1>3, <2>1
    DEF EntryEndedPartly, NotWaiting, IInv, CallTypeOK, Sync, StoreStepOK,
        FaultsOK, StatusType
  <2> QED  BY <1>3, <2>1, <2>2, QuietStep DEF EntryEndedPartly
<1>4. CASE EntryEndedUnfilled
  <2>1. StoreStepOK
    BY <1>4, NoStoreStep DEF EntryEndedUnfilled
  <2>2. CallTypeOK' /\ pc' = "failed"
    BY <1>4, <2>1, NotWaitingCall
    DEF EntryEndedUnfilled, NotWaiting, IInv, CallTypeOK, StatusType, Sync
  <2> QED  BY <1>4, <2>1, <2>2, QuietStep DEF EntryEndedUnfilled
<1>5. CASE FillTimeoutPartly
  <2>1. StoreStepOK /\ seen' \subseteq StatusType
        /\ pc' \in {"cancelWait", "failed"}
    BY <1>0, <1>5, ProcessStep DEF FillTimeoutPartly
  <2>2. \/ polled' = <<>> /\ pc' = "failed"
        \/ polled' = EventKey /\ pc' = "cancelWait"
    BY <1>5, <2>1 DEF FillTimeoutPartly, NotWaiting
  <2>3. EventKey # <<>>
    BY DEF EventKey
  <2>4. CallTypeOK'
    BY <1>0, <1>5, <2>1, <2>2, <2>3
    DEF FillTimeoutPartly, IInv, CallTypeOK, Awaiting, Sync, StoreStepOK,
        FaultsOK, StatusType, failureVars
  <2>5. cancelReq' \in {cancelReq, cancelReq \cup {"entry"}}
    BY <1>5 DEF FillTimeoutPartly
  <2> QED  BY <1>5, <2>1, <2>4, <2>5, CancelStep DEF FillTimeoutPartly, OrderSlot
<1>6. CASE FillTimeoutUnfilled
  <2>1. StoreStepOK /\ seen' \subseteq StatusType /\ pc' = "failed"
    BY <1>0, <1>6, ProcessStep DEF FillTimeoutUnfilled
  <2>2. CallTypeOK'
    BY <1>6, <2>1, NotWaitingCall DEF FillTimeoutUnfilled, NotWaiting, Sync
  <2>3. cancelReq' = cancelReq \cup {"entry"}
    BY <1>6 DEF FillTimeoutUnfilled
  <2> QED  BY <1>6, <2>1, <2>2, <2>3, CancelStep
              DEF FillTimeoutUnfilled, OrderSlot
<1>7. CASE CancelTimeout
  <2>1. StoreStepOK /\ seen' \subseteq StatusType /\ pc' \in {"partial", "failed"}
    BY <1>0, <1>7, ProcessStep DEF CancelTimeout
  <2>2. CallTypeOK'
    BY <1>7, <2>1
    DEF CancelTimeout, NotWaiting, IInv, CallTypeOK, Sync, StoreStepOK,
        FaultsOK, StatusType
  <2> QED  BY <1>7, <2>1, <2>2, QuietStep DEF CancelTimeout
<1>8. CASE ConfirmProtection
  <2>1. StoreStepOK /\ pc' \in {"protected", "failed"}
    BY <1>8, ProtectionStep DEF ConfirmProtection, callVars
  <2>2. CallTypeOK'
    BY <1>8, <2>1, QuietCall DEF ConfirmProtection, Over, Sync
  <2> QED  BY <1>8, <2>1, <2>2, QuietStep DEF ConfirmProtection
<1>9. CASE ProtectionLost
  <2>1. StoreStepOK
    BY <1>9, NoStoreStep DEF ProtectionLost, callVars
  <2>2. CallTypeOK' /\ pc' = "failed"
    BY <1>9, <2>1, QuietCall DEF ProtectionLost, Sync
  <2> QED  BY <1>9, <2>1, <2>2, QuietStep DEF ProtectionLost
<1> QED  BY <1>1, <1>2, <1>3, <1>4, <1>5, <1>6, <1>7, <1>8, <1>9 DEF EntryWait

\* A replacement pair is placed, or part of it.
LEMMA PairStep ==
    ASSUME IInv, NEW n \in 0..Qty, NEW a, NEW b, PlacePair(n, a, b),
           UNCHANGED <<filled, pos>>, cancelReq' \subseteq OrderSlot,
           a # "placeTake", b # "placeTake"
    PROVE  /\ BrokerInv'
           /\ handed' \subseteq Protective
           /\ pc' \in {a, b}
           /\ ord'["stop1"] = ord["stop1"] /\ ord'["exit"] = ord["exit"]
<1>1. BrokerTypeOK /\ NextPair \subseteq Replacement
      /\ StopOf(NextPair) \subseteq Replacement
  BY DEF IInv, BrokerInv, NextPair, StopOf, Replacement, Repair
<1>2. PICK S \in SUBSET Replacement, s \in {"pending", "staged"} :
         \/ /\ ord' = [o \in OrderSlot |-> IF o \in S THEN s ELSE ord[o]]
            /\ qty' = [o \in Closing |-> IF o \in S THEN n ELSE qty[o]]
         \/ UNCHANGED <<ord, qty>>
  BY <1>1 DEF PlacePair
<1>3. BrokerTypeOK'
  BY <1>1, <1>2 DEF BrokerTypeOK, Status
<1>4. /\ \A o \in Attached \cup {"exit", "entry"} : ord'[o] = ord[o]
      /\ \A o \in Attached : qty'[o] = qty[o]
  BY <1>1, <1>2 DEF Attached, Replacement, Repair, OrderSlot, Closing, Protective,
                    BrokerTypeOK
<1>5. handed' \subseteq Protective /\ pc' \in {a, b}
  BY <1>1 DEF PlacePair, Protective
<1>6. BrokerInv'
  BY <1>3, <1>4, <1>5, BracketKept DEF IInv, Working
<1> QED  BY <1>4, <1>5, <1>6 DEF Attached

\* The same for a call that goes on with a copy loaded afresh.
LEMMA StopCall ==
    ASSUME IInv, StoreStepOK, UNCHANGED <<failureVars, polled, seen>>,
           pc' \in Over \cup Sync
    PROVE  CallTypeOK'
  BY DEF IInv, StoreStepOK, CallTypeOK, FaultsOK, failureVars, Over, Sync

LEMMA PartialFillStep == ASSUME IInv, PartialFill PROVE IInv'
<1> USE DEF StoppedAt, Early
<1>1. CASE PartialFillAlert
  <2>1. StoreStepOK
    BY <1>1, AlertStep DEF PartialFillAlert
  <2>2. pc' \in {"partialPlace", "childCancelWait", "failed", "raised"}
    BY <1>1 DEF PartialFillAlert, Alert
  <2>3. CallTypeOK'
    BY <1>1, <2>1, <2>2
    DEF PartialFillAlert, IInv, CallTypeOK, Awaiting, Sync, Over, StoreStepOK,
        FaultsOK
  <2>4. cancelReq' \subseteq OrderSlot \cup cancelReq
    BY <1>1 DEF PartialFillAlert, IInv, CallTypeOK, OrderSlot, Closing
  <2> QED  BY <1>1, <2>1, <2>2, <2>3, <2>4, CancelStep DEF PartialFillAlert
<1>2. CASE ChildrenCancelled
  <2>1. StoreStepOK
    BY <1>2, NoStoreStep DEF ChildrenCancelled, callVars
  <2>2. CallTypeOK' /\ pc' \in {"partialPlace", "failed"}
    BY <1>2, <2>1, QuietCall DEF ChildrenCancelled, Sync
  <2> QED  BY <1>2, <2>1, <2>2, QuietStep DEF ChildrenCancelled
<1>3. CASE PartialPlace
  <2>1. StoreStepOK
    BY <1>3, NoStoreStep DEF PartialPlace
  <2>2. /\ BrokerInv' /\ handed' \subseteq Protective
        /\ pc' \in {"partialWait", "failed"}
        /\ ord'["stop1"] = ord["stop1"] /\ ord'["exit"] = ord["exit"]
    BY <1>3, PairStep DEF PartialPlace, IInv, BrokerInv, BrokerTypeOK
  <2>3. CallTypeOK'
    BY <1>3, <2>1, <2>2
    DEF PartialPlace, IInv, CallTypeOK, Awaiting, Sync, StoreStepOK, FaultsOK
  <2>4. (ChildPhase' => ChildPhase) /\ (Stopped' => Stopped)
    BY <2>2 DEF ChildPhase, Stopped
  <2> QED  BY <2>1, <2>2, <2>3, <2>4, Combine
<1>4. CASE PartialConfirmed
  <2>1. StoreStepOK /\ pc' \in {"partialMark", "failed"}
    BY <1>4, ProtectionStep DEF PartialConfirmed
  <2>2. CallTypeOK'
    BY <1>4, <2>1
    DEF PartialConfirmed, IInv, CallTypeOK, Sync, StoreStepOK, FaultsOK
  <2> QED  BY <1>4, <2>1, <2>2, QuietStep DEF PartialConfirmed
<1>5. CASE PartialLost
  <2>1. StoreStepOK
    BY <1>5, NoStoreStep DEF PartialLost
  <2>2. CallTypeOK' /\ pc' = "failed"
    BY <1>5, <2>1
    DEF PartialLost, IInv, CallTypeOK, Sync, StoreStepOK, FaultsOK
  <2> QED  BY <1>5, <2>1, <2>2, QuietStep DEF PartialLost
<1>6. CASE PartialMark
  <2> DEFINE d == [status |-> Seen("entry"), filled |-> filled,
                   partial_fill_timeout |-> TRUE,
                   manual_reconciliation_required |-> TRUE]
  <2>1. DOMAIN d \subseteq TradeKeys /\ "signal_id" \notin DOMAIN d
    BY DEF TradeKeys
  <2>2. SaveThen(WithTrade(copy[cur], d), "partialStop", "raised")
        /\ UNCHANGED cur
    BY <1>6 DEF PartialMark, callVars
  <2> HIDE DEF d
  <2>3. StoreStepOK /\ pc' \in {"partialStop", "raised"}
    BY <2>1, <2>2, EditStep
  <2>4. CallTypeOK'
    BY <1>6, <2>3, QuietCall DEF PartialMark, Sync, Over
  <2> QED  BY <1>6, <2>3, <2>4, QuietStep DEF PartialMark
<1>7. CASE PartialStop
  <2>1. StoreStepOK /\ StopTried' /\ pc' \in {"partialProtected", "raised"}
    BY <1>7, StopStep DEF PartialStop
  <2>2. CallTypeOK'
    BY <1>7, <2>1, StopCall DEF PartialStop, Over
  <2> QED  BY <1>7, <2>1, <2>2, QuietStep DEF PartialStop
<1> QED  BY <1>1, <1>2, <1>3, <1>4, <1>5, <1>6, <1>7 DEF PartialFill

\* _mark_unprotected_entry
LEMMA UnprotectedStep ==
    ASSUME IInv, MarkUnprotected
    PROVE  StoreStepOK /\ pc' \in {"exposedAlert", "raised"}
<1> DEFINE d == [protective_orders_confirmed |-> FALSE,
                 protection_missing |-> TRUE,
                 product_stop_price |-> TRUE,
                 manual_reconciliation_required |-> TRUE]
           t == Overlay(Payload(Seen("entry"), exposure), d)
           new == [copy[cur] EXCEPT !.orders = @ \cup {"entry"}, !.trade = t]
<1>1. cur \in {1, 2} /\ StateOK(copy[cur])
  BY DEF IInv, StoreInv, StoreTypeOK
<1>2. DOMAIN t \subseteq TradeKeys /\ "signal_id" \in DOMAIN t
      /\ t.signal_id = "new"
  BY DEF Overlay, Payload, TradeKeys
<1>3. SaveThen(new, "exposedAlert", "raised") /\ UNCHANGED cur
  BY DEF MarkUnprotected, callVars
<1> HIDE DEF d, t
<1>4. StateOK(new) /\ new.estop = copy[cur].estop /\ Recorded(new)
  BY <1>1, <1>2 DEF StateOK, Recorded, OrderSlot
<1> HIDE DEF new
<1> QED  BY <1>1, <1>3, <1>4, SaveThenStep

LEMMA BracketFailureStep == ASSUME IInv, BracketFailure PROVE IInv'
<1> USE DEF StoppedAt, Early
<1>1. CASE FailureStatus
  <2>1. StoreStepOK /\ seen' \subseteq StatusType
        /\ pc' \in {"failedUnfilled", "failedExposed", "raised"}
    BY <1>1, ProcessStep, EventKeyIsStatus
    DEF FailureStatus, ProcessEntryStatus, IInv, BrokerInv
  <2>2. CallTypeOK'
    BY <1>1, <2>1
    DEF FailureStatus, IInv, BrokerInv, BrokerTypeOK, CallTypeOK, Sync, Over,
        StoreStepOK, FaultsOK, StatusType
  <2> QED  BY <1>1, <2>1, <2>2, QuietStep DEF FailureStatus
<1>2. CASE CancelledBracket
  <2> DEFINE d == [status |-> "Cancelled",
                   protective_orders_confirmed |-> FALSE]
  <2>1. DOMAIN d \subseteq TradeKeys /\ "signal_id" \notin DOMAIN d
    BY DEF TradeKeys
  <2>2. SaveThen(WithTrade(copy[cur], d), "raised", "raised")
        /\ UNCHANGED cur
    BY <1>2 DEF CancelledBracket, callVars
  <2> HIDE DEF d
  <2>3. StoreStepOK /\ pc' = "raised"
    BY <2>1, <2>2, EditStep
  <2>4. CallTypeOK'
    BY <1>2, <2>3, QuietCall DEF CancelledBracket, Over
  <2>5. cancelReq' \subseteq OrderSlot \cup cancelReq
    BY <1>2 DEF CancelledBracket, IInv, CallTypeOK, OrderSlot, Closing
  <2> QED  BY <1>2, <2>3, <2>4, <2>5, CancelStep DEF CancelledBracket
<1>3. CASE MarkUnprotected
  <2>1. StoreStepOK /\ pc' \in {"exposedAlert", "raised"}
    BY <1>3, UnprotectedStep
  <2>2. CallTypeOK'
    BY <1>3, <2>1, QuietCall DEF MarkUnprotected, Sync, Over
  <2> QED  BY <1>3, <2>1, <2>2, QuietStep DEF MarkUnprotected
<1>4. CASE ExposedAlert
  <2>1. StoreStepOK /\ pc' \in {"exposedStop", "raised"}
    BY <1>4, AlertStep DEF ExposedAlert, callVars
  <2>2. CallTypeOK'
    BY <1>4, <2>1, QuietCall DEF ExposedAlert, Sync, Over
  <2> QED  BY <1>4, <2>1, <2>2, QuietStep DEF ExposedAlert
<1>5. CASE ExposedStop
  <2>1. StoreStepOK /\ StopTried' /\ pc' \in {"replace", "raised"}
    BY <1>5, StopStep DEF ExposedStop
  <2>2. CallTypeOK'
    BY <1>5, <2>1, StopCall DEF ExposedStop, Over, Sync
  <2> QED  BY <1>5, <2>1, <2>2, QuietStep DEF ExposedStop
<1>6. CASE Replace
  <2>1. StoreStepOK
    BY <1>6, NoStoreStep DEF Replace
  <2>2. cancelReq' \subseteq OrderSlot
    BY <1>6 DEF Replace, IInv, CallTypeOK, BrokerInv, BrokerTypeOK, OrderSlot,
                Closing
  <2>3. /\ BrokerInv' /\ handed' \subseteq Protective
        /\ pc' \in {"replaceWait", "exitAlert"} /\ pc = "replace"
        /\ ord'["stop1"] = ord["stop1"] /\ ord'["exit"] = ord["exit"]
    BY <1>6, <2>2, PairStep DEF Replace, IInv, CallTypeOK
  <2>4. CallTypeOK'
    BY <1>6, <2>1, <2>3
    DEF Replace, IInv, CallTypeOK, Awaiting, Sync, StoreStepOK, FaultsOK
  <2>5. (ChildPhase' => ChildPhase) /\ (Stopped' => Stopped)
    BY <2>3 DEF ChildPhase, Stopped
  <2> QED  BY <2>1, <2>3, <2>4, <2>5, Combine
<1>7. CASE ReplaceConfirmed
  <2>1. StoreStepOK /\ pc' \in {"replaceMark", "exitAlert"}
    BY <1>7, ProtectionStep DEF ReplaceConfirmed, callVars
  <2>2. CallTypeOK'
    BY <1>7, <2>1, QuietCall DEF ReplaceConfirmed, Sync
  <2> QED  BY <1>7, <2>1, <2>2, QuietStep DEF ReplaceConfirmed
<1>8. CASE ReplaceLost
  <2>1. StoreStepOK
    BY <1>8, NoStoreStep DEF ReplaceLost, callVars
  <2>2. CallTypeOK' /\ pc' = "exitAlert"
    BY <1>8, <2>1, QuietCall DEF ReplaceLost, Sync
  <2> QED  BY <1>8, <2>1, <2>2, QuietStep DEF ReplaceLost
<1>9. CASE ReplaceMark
  <2> DEFINE d == [protection_missing |-> FALSE,
                   protective_orders_confirmed |-> TRUE,
                   protection_resubmitted_after_failure |-> TRUE,
                   manual_reconciliation_required |-> TRUE]
  <2>1. DOMAIN d \subseteq TradeKeys /\ "signal_id" \notin DOMAIN d
    BY DEF TradeKeys
  <2>2. SaveThen(WithTrade(copy[cur], d), "replaceAlert", "exitAlert")
        /\ UNCHANGED cur
    BY <1>9 DEF ReplaceMark, callVars
  <2> HIDE DEF d
  <2>3. StoreStepOK /\ pc' \in {"replaceAlert", "exitAlert"}
    BY <2>1, <2>2, EditStep
  <2>4. CallTypeOK'
    BY <1>9, <2>3, QuietCall DEF ReplaceMark, Sync
  <2> QED  BY <1>9, <2>3, <2>4, QuietStep DEF ReplaceMark
<1>10. CASE ReplaceAlert
  <2>1. StoreStepOK /\ pc' \in {"repaired", "raised", "exitAlert"}
    BY <1>10, AlertStep DEF ReplaceAlert, Handled, callVars
  <2>2. CallTypeOK'
    BY <1>10, <2>1, QuietCall DEF ReplaceAlert, Sync, Over
  <2> QED  BY <1>10, <2>1, <2>2, QuietStep DEF ReplaceAlert
<1> QED  BY <1>1, <1>2, <1>3, <1>4, <1>5, <1>6, <1>7, <1>8, <1>9, <1>10
         DEF BracketFailure

\* _record_defensive_exit_status
LEMMA ExitRecordedStep ==
    ASSUME IInv, ExitRecord
    PROVE  StoreStepOK /\ pc' \in {"exited", "raised"}
<1>1. PICK last \in {Seen("exit"), "Submitted"} :
         \/ SaveThen(
              [WithTrade(copy[cur],
                  IF last = "Filled"
                  THEN [defensive_exit |-> "confirmed",
                        status |-> "Closed",
                        manual_reconciliation_required |-> FALSE]
                  ELSE [defensive_exit |-> "submitted",
                        manual_reconciliation_required |-> TRUE])
                 EXCEPT !.orders = @ \cup {"exit"}],
              Handled("exited"), "raised")
         \/ /\ NoticeFault \/ StoreFault("other")
            /\ pc' = "raised"
            /\ UNCHANGED storeVars
  BY DEF ExitRecord
<1> DEFINE d == IF last = "Filled"
                THEN [defensive_exit |-> "confirmed",
                      status |-> "Closed",
                      manual_reconciliation_required |-> FALSE]
                ELSE [defensive_exit |-> "submitted",
                      manual_reconciliation_required |-> TRUE]
           new == [WithTrade(copy[cur], d) EXCEPT !.orders = @ \cup {"exit"}]
<1>2. cur \in {1, 2} /\ StateOK(copy[cur]) /\ UNCHANGED cur
  BY DEF IInv, StoreInv, StoreTypeOK, ExitRecord, callVars
<1>3. DOMAIN d \subseteq TradeKeys /\ "signal_id" \notin DOMAIN d
  BY DEF TradeKeys
<1>4. \/ SaveThen(new, Handled("exited"), "raised")
      \/ /\ NoticeFault \/ StoreFault("other")
         /\ pc' = "raised" /\ UNCHANGED storeVars
  BY <1>1
<1> HIDE DEF d
<1>5. StateOK(WithTrade(copy[cur], d))
      /\ WithTrade(copy[cur], d).estop = copy[cur].estop
      /\ (Recorded(copy[cur]) => Recorded(WithTrade(copy[cur], d)))
  BY <1>2, <1>3, WithTradeKeeps
<1>6. StateOK(new) /\ new.estop = copy[cur].estop
      /\ (Recorded(copy[cur]) => Recorded(new))
  BY <1>5 DEF StateOK, Recorded, OrderSlot, Closing
<1> HIDE DEF new
<1>7. CASE SaveThen(new, Handled("exited"), "raised")
  BY <1>2, <1>6, <1>7, SaveThenStep DEF Handled
<1>8. CASE /\ NoticeFault \/ StoreFault("other")
           /\ pc' = "raised" /\ UNCHANGED storeVars
  <2>1. \E kind \in FaultKinds : Fault(kind)
    BY <1>8, KindIsKind DEF NoticeFault, StoreFault, FaultKinds
  <2> QED  BY <1>2, <1>8, <2>1, NoStoreStep
<1> QED  BY <1>4, <1>7, <1>8

LEMMA DefensiveExitStep == ASSUME IInv, DefensiveExit PROVE IInv'
<1> USE DEF StoppedAt, Early
<1>1. CASE ExitAlert
  <2>1. StoreStepOK /\ pc' \in {"exit", "raised"}
    BY <1>1, AlertStep DEF ExitAlert, callVars
  <2>2. CallTypeOK'
    BY <1>1, <2>1, QuietCall DEF ExitAlert, Sync, Over
  <2> QED  BY <1>1, <2>1, <2>2, QuietStep DEF ExitAlert
<1>2. CASE PlaceExit
  <2>1. StoreStepOK
    BY <1>2, NoStoreStep DEF PlaceExit, callVars
  <2>2. CallTypeOK' /\ pc' \in {"exitWait", "exitFailed"} /\ pc = "exit"
    BY <1>2, <2>1, QuietCall DEF PlaceExit, Awaiting, Sync
  <2>3. /\ UNCHANGED <<filled, pos, cancelReq>>
        /\ ord' \in {ord, [ord EXCEPT !["exit"] = "pending"]}
        /\ qty' \in {qty, [qty EXCEPT !["exit"] = exposure]}
    BY <1>2 DEF PlaceExit
  <2>4. BrokerTypeOK /\ exposure \in 0..Qty
    BY DEF IInv, BrokerInv, CallTypeOK
  <2>5. BrokerTypeOK'
    BY <2>3, <2>4 DEF BrokerTypeOK, Status, OrderSlot, Closing
  <2>6. /\ \A o \in Attached : ord'[o] = ord[o] /\ qty'[o] = qty[o]
        /\ ord'["entry"] = ord["entry"]
    BY <2>3, <2>4 DEF BrokerTypeOK, OrderSlot, Closing, Protective, Attached
  <2>7. BrokerInv'
    BY <2>2, <2>3, <2>5, <2>6, BracketKept DEF IInv, Working
  <2>8. (ChildPhase' => ChildPhase) /\ Stopped
    BY <2>2, <2>6 DEF ChildPhase, Stopped, Attached
  <2> QED  BY <2>1, <2>2, <2>7, <2>8, Combine
<1>3. CASE ExitFailed
  <2> DEFINE d == [defensive_exit |-> "not submitted",
                   manual_reconciliation_required |-> TRUE]
  <2>1. DOMAIN d \subseteq TradeKeys /\ "signal_id" \notin DOMAIN d
    BY DEF TradeKeys
  <2> DEFINE a == IF "protection_resubmitted_after_failure"
                        \in DOMAIN copy[cur].trade
                   THEN Handled("repaired") ELSE "raised"
  <2>2. \/ SaveThen(WithTrade(copy[cur], d), a, "raised")
        \/ NoticeFault /\ pc' = "raised" /\ UNCHANGED storeVars
    BY <1>3 DEF ExitFailed
  <2>3. UNCHANGED cur
    BY <1>3 DEF ExitFailed, callVars
  <2>4. a \in {"repaired", "raised"}
    BY DEF Handled
  <2> HIDE DEF a, d
  <2>5. StoreStepOK /\ pc' \in {"repaired", "raised"}
    <3>1. CASE SaveThen(WithTrade(copy[cur], d), a, "raised")
      BY <2>1, <2>3, <2>4, <3>1, EditStep
    <3>2. CASE NoticeFault /\ pc' = "raised" /\ UNCHANGED storeVars
      BY <2>3, <3>2, NoStoreStep, KindIsKind DEF NoticeFault
    <3> QED  BY <2>2, <3>1, <3>2
  <2>6. CallTypeOK'
    BY <1>3, <2>5, QuietCall DEF ExitFailed, Over
  <2> QED  BY <1>3, <2>5, <2>6, QuietStep DEF ExitFailed
<1>4. CASE ExitRecord
  <2>1. StoreStepOK /\ pc' \in {"exited", "raised"}
    BY <1>4, ExitRecordedStep
  <2>2. CallTypeOK'
    BY <1>4, <2>1, QuietCall DEF ExitRecord, Over
  <2> QED  BY <1>4, <2>1, <2>2, QuietStep DEF ExitRecord
<1> QED  BY <1>1, <1>2, <1>3, <1>4 DEF DefensiveExit

----------------------------------------------------------------------------
(* What happens around the call.                                           *)

\* Nothing the broker does to the entry makes an unplaced order placed.
LEMMA EntryChangesOK ==
    ASSUME BrokerInv, EntryChanges, pc # "placeTake", UNCHANGED pc
    PROVE  BrokerInv' /\ \A o \in Closing : ord[o] = "none" <=> ord'[o] = "none"
<1>1. BrokerTypeOK
  BY DEF BrokerInv
<1>2. CASE EntryAccepted
  <2>1. ord' = [ord EXCEPT !["entry"] = "active"]
        /\ UNCHANGED <<filled, qty, pos, cancelReq>> /\ ord["entry"] = "pending"
    BY <1>2 DEF EntryAccepted
  <2>2. BrokerTypeOK' /\ \A o \in Closing : ord'[o] = ord[o]
    BY <1>1, <2>1 DEF BrokerTypeOK, Status, OrderSlot, Closing, Protective,
                      Attached, Replacement, Repair
  <2>3. BrokerInv'
    BY <2>1, <2>2, BracketKept DEF Working, Closing, Protective
  <2> QED  BY <2>2, <2>3
<1>3. ASSUME NEW n \in 1..Qty, EntryFills(n)
      PROVE  BrokerInv' /\ \A o \in Closing : ord[o] = "none" <=> ord'[o] = "none"
  <2>1. /\ ord["entry"] = "active" /\ filled' = filled + n /\ pos' = pos + n
        /\ n \in 1..(Qty - filled) /\ UNCHANGED <<qty, cancelReq>>
        /\ ord' \in {ord, [ord EXCEPT !["entry"] = "filled"]}
    BY <1>3 DEF EntryFills
  <2>2. filled' \in 0..Qty /\ pos' \in Int
    BY <1>1, <2>1 DEF BrokerTypeOK
  <2>3. BrokerTypeOK' /\ \A o \in Closing : ord'[o] = ord[o]
    BY <1>1, <2>1, <2>2 DEF BrokerTypeOK, Status, OrderSlot, Closing,
                            Protective, Attached, Replacement, Repair
  <2>4. BrokerInv'
    BY <2>1, <2>3, BracketKept DEF Working, Closing, Protective
  <2> QED  BY <2>3, <2>4
<1>4. ASSUME NEW s \in {"cancelled", "rejected"}, EntryEnds(s)
      PROVE  BrokerInv' /\ \A o \in Closing : ord[o] = "none" <=> ord'[o] = "none"
  <2>1. PICK S \in {Attached, {}} :
           ord' = [Moved(S, "cancelled") EXCEPT !["entry"] = s]
           /\ UNCHANGED <<filled, qty, pos, cancelReq>>
    BY <1>4 DEF EntryEnds
  <2>2. BrokerTypeOK' /\ ord'["entry"] = s
        /\ \A o \in Closing : ord[o] = "none" <=> ord'[o] = "none"
    BY <1>1, <2>1 DEF BrokerTypeOK, Status, OrderSlot, Closing, Protective,
                      Attached, Replacement, Repair, Moved, Live
  <2>3. BrokerInv'
    BY <2>1, <2>2, BracketKept DEF Working, Closing, Protective
  <2> QED  BY <2>2, <2>3
<1> QED  BY <1>2, <1>3, <1>4 DEF EntryChanges

LEMMA ClosingChangesOK ==
    ASSUME BrokerInv, pc # "placeTake", UNCHANGED pc,
           \/ \E o \in Closing : ClosingAccepted(o) \/ ClosingCancelled(o)
                                  \/ ClosingRejected(o)
           \/ \E o \in Protective : ProtectiveFills(o)
           \/ ExitFills
    PROVE  BrokerInv' /\ \A o \in Closing : ord[o] = "none" <=> ord'[o] = "none"
<1>1. BrokerTypeOK /\ qty \in [Closing -> 0..Qty] /\ pos \in Int
      /\ Closing \subseteq OrderSlot /\ "entry" \notin Closing
      /\ Protective \subseteq Closing /\ "exit" \in Closing
  BY DEF BrokerInv, BrokerTypeOK, OrderSlot, Closing, Protective, Attached,
         Replacement, Repair
<1>2. PICK o \in Closing, s \in {"active", "cancelled", "filled"} :
         /\ ord[o] # "none"
         /\ \/ ord' = [ord EXCEPT ![o] = s]
            \/ ord' = [Moved(Protective, "cancelled") EXCEPT ![o] = s]
         /\ pos' \in {pos, pos - qty[o]}
         /\ UNCHANGED <<filled, qty, cancelReq>>
  <2>1. ASSUME NEW o \in Closing, ClosingAccepted(o)
        PROVE  ord[o] # "none" /\ ord' = [ord EXCEPT ![o] = "active"]
               /\ UNCHANGED <<filled, qty, pos, cancelReq>>
    BY <2>1 DEF ClosingAccepted
  <2>2. ASSUME NEW o \in Closing, ClosingCancelled(o)
        PROVE  ord[o] # "none" /\ ord' = [ord EXCEPT ![o] = "cancelled"]
               /\ UNCHANGED <<filled, qty, pos, cancelReq>>
    BY <2>2 DEF ClosingCancelled, Live
  <2>3. ASSUME NEW o \in Closing, ClosingRejected(o)
        PROVE  ord[o] # "none" /\ ord' = [ord EXCEPT ![o] = "cancelled"]
               /\ UNCHANGED <<filled, qty, pos, cancelReq>>
    BY <2>3 DEF ClosingRejected
  <2>4. ASSUME NEW o \in Protective, ProtectiveFills(o)
        PROVE  ord[o] # "none"
               /\ ord' = [Moved(Protective, "cancelled") EXCEPT ![o] = "filled"]
               /\ pos' = pos - qty[o] /\ UNCHANGED <<filled, qty, cancelReq>>
    BY <2>4 DEF ProtectiveFills
  <2>5. ASSUME ExitFills
        PROVE  ord["exit"] # "none" /\ ord' = [ord EXCEPT !["exit"] = "filled"]
               /\ pos' = pos - qty["exit"] /\ UNCHANGED <<filled, qty, cancelReq>>
    BY <2>5 DEF ExitFills
  <2> QED  BY <1>1, <2>1, <2>2, <2>3, <2>4, <2>5
<1>3. Moved(Protective, "cancelled") \in [OrderSlot -> Status]
      /\ \A p \in Closing : ord[p] = "none"
                              <=> Moved(Protective, "cancelled")[p] = "none"
  BY <1>1 DEF Moved, BrokerTypeOK, Status, Live
<1>4. Moved(Protective, "cancelled")["entry"] = ord["entry"]
  BY <1>1 DEF Moved, OrderSlot
<1>5. BrokerTypeOK' /\ ord'["entry"] = ord["entry"]
      /\ \A p \in Closing : ord[p] = "none" <=> ord'[p] = "none"
  <2>1. ord' \in [OrderSlot -> Status] /\ ord'["entry"] = ord["entry"]
        /\ \A p \in Closing : ord[p] = "none" <=> ord'[p] = "none"
    <3>1. CASE ord' = [ord EXCEPT ![o] = s]
      BY <1>1, <1>2, <3>1 DEF BrokerTypeOK, Status, OrderSlot
    <3>2. CASE ord' = [Moved(Protective, "cancelled") EXCEPT ![o] = s]
      BY <1>1, <1>2, <1>3, <1>4, <3>2 DEF Status, OrderSlot
    <3> QED  BY <1>2, <3>1, <3>2
  <2>2. pos' \in Int
    BY <1>1, <1>2
  <2> QED  BY <1>1, <1>2, <2>1, <2>2 DEF BrokerTypeOK
<1>6. BrokerInv'
  BY <1>1, <1>2, <1>5, BracketKept DEF Working, Protective
<1> QED  BY <1>5, <1>6

\* on_status_update, on_fill_update: the event's status is recorded, or not.
LEMMA EventStep ==
    ASSUME IInv, BrokerTypeOK', HandleEntryEvent, UNCHANGED cur
    PROVE  StoreStepOK /\ seen' \subseteq StatusType
<1> DEFINE status == EventKey'
           new == StatusRecorded(copy[1], status)
<1>1. status \in StatusType
  <2>1. Seen("entry")' \in SeenStatus /\ filled' \in 0..Qty
    BY DEF Seen, SeenStatus, BrokerTypeOK
  <2> QED  BY <2>1 DEF EventKey, StatusType
<1>2. CASE UNCHANGED <<storeVars, seen, faults>>
  BY <1>2, NoStoreStep DEF IInv, CallTypeOK, StatusType
<1>3. CASE /\ seen' = seen \cup {status}
           /\ \/ SaveAs(1, new) /\ UNCHANGED faults
              \/ SaveRaises(1, new) /\ StoreFault("other")
  <2>1. StateOK(copy[1])
    BY DEF IInv, StoreInv, StoreTypeOK
  <2>2. StateOK(new) /\ new.estop = copy[1].estop /\ Recorded(new)
    BY <2>1, StatusRecordedOK
  <2>3. SaveRaises(1, new) /\ faults \subseteq faults' /\ FaultsOK'
    BY <1>3, FaultAdds
    DEF SaveRaises, StoreFault, FaultKinds, IInv, CallTypeOK, FaultsOK
  <2> HIDE DEF new
  <2>4. StoreStepOK
    BY <2>2, <2>3, SaveStep
  <2> QED  BY <1>1, <1>3, <2>4 DEF IInv, CallTypeOK, StatusType
<1> QED  BY <1>2, <1>3 DEF HandleEntryEvent

LEMMA EntryEventStep == ASSUME IInv, EntryEvent PROVE IInv'
<1>1. EntryChanges /\ UNCHANGED pc /\ HandleEntryEvent
      /\ UNCHANGED <<failureVars, polled, cur>>
      /\ pc \in Awaiting \cup Over
  BY DEF EntryEvent, Listening
<1>2. pc # "placeTake" /\ pc # "placeStop"
  BY <1>1 DEF Awaiting, Over
<1>3. BrokerInv' /\ \A o \in Closing : ord[o] = "none" <=> ord'[o] = "none"
  BY <1>1, <1>2, EntryChangesOK DEF IInv
<1>4. StoreStepOK /\ seen' \subseteq StatusType
  BY <1>1, <1>3, EventStep DEF BrokerInv
<1>5. CallTypeOK'
  BY <1>1, <1>4
  DEF IInv, CallTypeOK, StoreStepOK, FaultsOK, StatusType, failureVars
<1>6. (ChildPhase' => ChildPhase) /\ (Stopped' => Stopped)
  BY <1>1, <1>3 DEF ChildPhase, Stopped, Closing, Protective, Attached
<1> QED  BY <1>1, <1>3, <1>4, <1>5, <1>6, Combine DEF IInv

LEMMA ClosingEventStep == ASSUME IInv, ClosingEvent PROVE IInv'
<1>1. UNCHANGED <<pc, callVars, storeVars>> /\ pc \in Awaiting \cup Over
  BY DEF ClosingEvent, Listening
<1>2. pc # "placeTake" /\ pc # "placeStop"
  BY <1>1 DEF Awaiting, Over
<1>3. BrokerInv' /\ \A o \in Closing : ord[o] = "none" <=> ord'[o] = "none"
  <2>1. \/ \E o \in Closing : ClosingAccepted(o) \/ ClosingCancelled(o)
                               \/ ClosingRejected(o)
        \/ \E o \in Protective : ProtectiveFills(o)
        \/ ExitFills
    BY DEF ClosingEvent
  <2> QED  BY <1>1, <1>2, <2>1, ClosingChangesOK DEF IInv
<1>4. StoreStepOK
  <2>1. UNCHANGED <<storeVars, cur>> /\ faults \subseteq faults' /\ FaultsOK'
    BY <1>1 DEF callVars, ClosingEvent, IInv, CallTypeOK, FaultsOK
  <2> QED
    BY <2>1 DEF IInv, StoreStepOK, StoreInv, StoreTypeOK, FreshStop,
                AllRecorded, storeVars, StopTried
<1>5. CallTypeOK' /\ UNCHANGED cur
  BY <1>1, <1>4
  DEF IInv, CallTypeOK, callVars, failureVars, StoreStepOK, FaultsOK
<1>6. (ChildPhase' => ChildPhase) /\ (Stopped' => Stopped)
  BY <1>1, <1>3 DEF ChildPhase, Stopped, Closing, Protective, Attached
<1> QED  BY <1>1, <1>3, <1>4, <1>5, <1>6, Combine DEF IInv

LEMMA MonitorStep ==
    ASSUME IInv, MonitorRecordsQuote \/ MonitorStops PROVE IInv'
<1> USE DEF Early, StoppedAt
<1>1. UNCHANGED <<brokerVars, callVars, copy, pc, faults>> /\ pc \in Awaiting
      /\ fresh' = {} /\ UNCHANGED cur
  BY DEF MonitorRecordsQuote, MonitorStops, callVars
<1>2. StateOK(disk)
  BY DEF IInv, StoreInv, StoreTypeOK
<1>3. StateOK(disk') /\ (disk.estop => disk'.estop)
      /\ (Recorded(disk) => Recorded(disk'))
  <2>1. CASE MonitorRecordsQuote
    <3> DEFINE d == [monitor_last_bid |-> TRUE]
    <3>1. DOMAIN d \subseteq TradeKeys /\ "signal_id" \notin DOMAIN d
      BY DEF TradeKeys
    <3>2. disk' = WithTrade(disk, d)
      BY <2>1 DEF MonitorRecordsQuote
    <3> HIDE DEF d
    <3> QED  BY <1>2, <3>1, <3>2, WithTradeKeeps
  <2>2. CASE MonitorStops
    <3> DEFINE d == [emergency_stop_reason |-> "quote"]
    <3>1. DOMAIN d \subseteq TradeKeys /\ "signal_id" \notin DOMAIN d
      BY DEF TradeKeys
    <3>2. disk' = [WithTrade(disk, d) EXCEPT !.estop = TRUE]
      BY <2>2 DEF MonitorStops
    <3> HIDE DEF d
    <3> QED  BY <1>2, <3>1, <3>2, StopKeeps
  <2> QED  BY <2>1, <2>2
<1>4. StoreStepOK
  BY <1>1, <1>3, FileStep
<1>5. CallTypeOK'
  BY <1>1 DEF IInv, CallTypeOK, callVars, failureVars
<1>6. BrokerInv'
  BY <1>1, NoBrokerStep DEF IInv, Awaiting
<1>7. (ChildPhase' => ChildPhase) /\ (Stopped' => Stopped)
  BY <1>1 DEF ChildPhase, Stopped, brokerVars
<1> QED  BY <1>1, <1>4, <1>5, <1>6, <1>7, Combine DEF IInv

LEMMA ZeroInRange == 0 \in 0..Qty
  OBVIOUS

LEMMA CrashStep == ASSUME IInv, Crash PROVE IInv'
<1>1. /\ UNCHANGED brokerVars /\ UNCHANGED <<disk, faults>>
      /\ copy' = [i \in {1, 2} |-> disk] /\ fresh' = {} /\ cur' = 1
      /\ pc' = "crashed"
  BY DEF Crash
<1>2. StateOK(disk)
  BY DEF IInv, StoreInv, StoreTypeOK
<1>3. StoreInv' /\ (AllRecorded => AllRecorded')
  BY <1>1, <1>2 DEF StoreInv, StoreTypeOK, FreshStop, AllRecorded
<1>4. StoreStepOK
  BY <1>1, <1>3 DEF StoreStepOK, FaultsOK, StopTried, IInv, CallTypeOK
<1>5. CallTypeOK'
  BY <1>1, ZeroInRange DEF Crash, IInv, CallTypeOK, Over
<1> QED  BY <1>1, <1>4, <1>5, QuietStep DEF Early, StoppedAt

LEMMA StutterStep == ASSUME IInv, UNCHANGED vars PROVE IInv'
<1>1. StoreStepOK /\ UNCHANGED <<brokerVars, callVars, pc, cur, faults>>
  BY NoStoreStep DEF vars, callVars
<1>2. BrokerInv' /\ CallTypeOK'
  BY <1>1 DEF IInv, BrokerInv, BracketInv, BracketPlaced, BrokerTypeOK,
              brokerVars, CallTypeOK, callVars, failureVars
<1>3. (ChildPhase' => ChildPhase) /\ (Stopped' => Stopped)
  BY <1>1 DEF ChildPhase, Stopped, brokerVars
<1> QED  BY <1>1, <1>2, <1>3, Combine DEF IInv

----------------------------------------------------------------------------
(* The record of a whole fill.                                             *)

\* The trade of s has the keys of dict, with its values.
Knows(s, dict) ==
    \A k \in DOMAIN dict : k \in DOMAIN s.trade /\ s.trade[k] = dict[k]

FillKnown == Payload("Filled", Qty)
PairKnown == [protective_orders |-> Attached]

\* The locations before the call works on another copy than the handlers'.
BeforeStop ==
    {"idle", "entryPlaced", "placeStop", "placeTake", "fillWait",
     "cancelWait", "protectionWait"}

BracketInHand == {"fillWait", "cancelWait", "protectionWait"}

\* From the moment the call has seen the whole fill, the file and the copy it
\* will save next know it; nobody writes the trade of a filled entry.
FillInv ==
    /\ ord["entry"] = "filled" => filled = Qty
    /\ pc \in BeforeStop => cur = 1
    /\ pc \in BracketInHand => handed = Attached
    /\ pc \in {"protectionWait", "protected"}
         => ord["entry"] = "filled" /\ Knows(disk, FillKnown)
    /\ pc = "protectionWait" => Knows(copy[1], FillKnown)
    /\ pc = "protected" => /\ Knows(disk, PairKnown)
                           /\ {"entry"} \cup Attached \subseteq disk.orders

\* What a saved copy knows is in the file, merged or not.
LEMMA SaveTells ==
    ASSUME IInv, NEW i \in {1, 2}, NEW new, SaveAs(i, new),
           NEW dict, DOMAIN dict # {}, Knows(new, dict)
    PROVE  /\ Knows(disk', dict)
           /\ new.orders \subseteq disk'.orders
           /\ copy'[i] = new
<1>1. copy'[i] = new
  BY DEF SaveAs, IInv, StoreInv, StoreTypeOK
<1>2. disk' \in {new, MergeConcurrentState(disk, new)}
  BY DEF SaveAs, Saved
<1> DEFINE t == MergeActiveTrade(disk.trade, new.trade)
<1>3. new.trade # NoTrade
  BY DEF Knows, NoTrade
<1>4. t \in {new.trade, Overlay(disk.trade, new.trade)}
  BY <1>3 DEF MergeActiveTrade
<1>5. \A k \in DOMAIN dict : k \in DOMAIN t /\ t[k] = dict[k]
  BY <1>4 DEF Overlay, Knows
<1>6. /\ MergeConcurrentState(disk, new).trade = t
      /\ new.orders \subseteq MergeConcurrentState(disk, new).orders
  BY DEF MergeConcurrentState
<1> HIDE DEF t
<1> QED  BY <1>1, <1>2, <1>5, <1>6 DEF Knows

\* The rest of the call meets FillInv again by where it goes: to no location
\* that FillInv speaks of, or among the first of them with the first copy.
LEMMA ElsewhereKeeps ==
    ASSUME IInv, FillInv, UNCHANGED filled,
           ord'["entry"] = "filled" => ord["entry"] = "filled",
           pc' \notin {"protectionWait", "protected"},
           pc' \in BeforeStop => pc \in BeforeStop /\ UNCHANGED cur,
           pc' \in BracketInHand
             => handed' = Attached \/ (pc \in BracketInHand /\ UNCHANGED handed)
    PROVE  FillInv'
  BY DEF FillInv

LEMMA FilledRecorded ==
    ASSUME IInv, FillInv, EntryFilled PROVE FillInv'
<1>1. /\ pc \in {"fillWait", "cancelWait"} /\ ord["entry"] = "filled"
      /\ filled = Qty /\ cur = 1 /\ handed = Attached
      /\ UNCHANGED <<brokerVars, handed, cur>>
      /\ pc' \in {"protectionWait", "failed"}
  BY DEF EntryFilled, FillInv, BracketInHand, BeforeStop, ProcessEntryStatus,
         ProcessStatus, SaveThen, failureVars
<1>2. CASE pc' = "failed"
  BY <1>1, <1>2, ElsewhereKeeps DEF BeforeStop, BracketInHand, brokerVars
<1>3. CASE pc' = "protectionWait"
  <2>1. SaveAs(1, StatusRecorded(copy[1], EventKey))
    BY <1>1, <1>3 DEF EntryFilled, ProcessEntryStatus, ProcessStatus, SaveThen
  <2> DEFINE new == StatusRecorded(copy[1], EventKey)
  <2>2. StateOK(copy[1])
    BY DEF IInv, StoreInv, StoreTypeOK
  <2>3. new.trade = FillKnown
    BY <1>1, <2>2 DEF StatusRecorded, StateOK, FillKnown, Seen, EventKey
  <2>4. Knows(new, FillKnown) /\ DOMAIN FillKnown # {}
    BY <2>3 DEF Knows, FillKnown, Payload
  <2> HIDE DEF new
  <2>5. SaveAs(1, new)
    BY <2>1 DEF new
  <2>6. Knows(disk', FillKnown) /\ copy'[1] = new
    BY <2>4, <2>5, SaveTells
  <2> QED
    BY <1>1, <1>3, <2>4, <2>6
    DEF FillInv, brokerVars, BeforeStop, BracketInHand, Knows
<1> QED  BY <1>1, <1>2, <1>3

LEMMA ProtectionKnown ==
    ASSUME IInv, FillInv, ConfirmProtection PROVE FillInv'
<1>0. UNCHANGED <<brokerVars, handed, cur>> /\ pc' \in {"protected", "failed"}
  BY DEF ConfirmProtection, SaveThen, callVars, failureVars
<1>a. CASE pc' = "failed"
  BY <1>0, <1>a, ElsewhereKeeps DEF BeforeStop, BracketInHand, brokerVars
<1>b. SUFFICES ASSUME pc' = "protected" PROVE FillInv'
  BY <1>0, <1>a
<1>1. /\ pc = "protectionWait" /\ pc' = "protected"
      /\ ord["entry"] = "filled" /\ filled = Qty
      /\ cur = 1 /\ handed = Attached
      /\ Knows(copy[1], FillKnown)
      /\ UNCHANGED <<brokerVars, handed, cur>>
      /\ SaveAs(1, ProtectionRecorded(copy[1], Attached))
  BY <1>0, <1>b
  DEF ConfirmProtection, FillInv, BracketInHand, BeforeStop, SaveThen
<1> DEFINE d == [protective_orders_confirmed |-> TRUE,
                 product_stop_price |-> TRUE, protective_orders |-> Attached]
           new == ProtectionRecorded(copy[1], Attached)
<1>2. StateOK(copy[1]) /\ StateOK(disk)
  BY DEF IInv, StoreInv, StoreTypeOK
<1>3. /\ new.trade = Overlay(copy[1].trade, d)
      /\ new.orders = copy[1].orders \cup Attached
  BY <1>2 DEF ProtectionRecorded, WithTrade, StateOK
<1>4. Knows(new, FillKnown) /\ DOMAIN FillKnown # {}
  <2>1. DOMAIN FillKnown = {"signal_id", "status", "filled"}
    BY DEF FillKnown, Payload
  <2>2. DOMAIN FillKnown \cap DOMAIN d = {}
    BY <2>1
  <2> HIDE DEF d
  <2> QED  BY <1>1, <1>3, <2>1, <2>2 DEF Knows, Overlay
<1>5. Knows(new, PairKnown) /\ DOMAIN PairKnown # {}
  <2>1. DOMAIN PairKnown = {"protective_orders"} /\ PairKnown.protective_orders = Attached
    BY DEF PairKnown
  <2> QED  BY <1>3, <2>1 DEF Knows, Overlay
<1> HIDE DEF new
<1>6. SaveAs(1, new)
  BY <1>1 DEF new
<1>7. Knows(disk', FillKnown) /\ Knows(disk', PairKnown)
      /\ Attached \subseteq disk'.orders
  BY <1>3, <1>4, <1>5, <1>6, SaveTells
<1>8. "entry" \in disk'.orders
  <2>1. Recorded(copy[1])
    <3>1. BracketPlaced
      BY <1>1 DEF IInv, BrokerInv, BracketInv
    <3>2. ord["stop1"] # "none"
      BY <3>1 DEF BracketPlaced, Attached
    <3> QED  BY <3>2 DEF IInv, ChildPhase, AllRecorded
  <2>2. new.orders \subseteq disk'.orders
    BY <1>4, <1>6, SaveTells
  <2> QED  BY <1>3, <2>1, <2>2 DEF Recorded
<1> QED
  BY <1>1, <1>7, <1>8 DEF FillInv, brokerVars, BeforeStop, BracketInHand

LEMMA SubmissionFill == ASSUME IInv, FillInv, Submission PROVE FillInv'
<1> USE DEF BeforeStop, BracketInHand
<1>0. ord \in [OrderSlot -> Status] /\ "entry" \in OrderSlot
      /\ "entry" \notin Closing
  BY DEF IInv, BrokerInv, BrokerTypeOK, OrderSlot, Closing, Protective,
     Attached, Replacement, Repair
<1>1. CASE Refuse
  BY <1>1, ElsewhereKeeps DEF Refuse, brokerVars, callVars, failureVars
<1>2. CASE PlaceEntry
  BY <1>0, <1>2, ElsewhereKeeps DEF PlaceEntry, callVars, failureVars
<1>3. CASE RecordSubmission
  BY <1>3, ElsewhereKeeps
  DEF RecordSubmission, ProcessEntryStatus, ProcessStatus, SaveThen,
      failureVars, brokerVars
<1>4. CASE PlaceStop
  BY <1>0, <1>4, ElsewhereKeeps DEF PlaceStop, callVars, failureVars
<1>5. CASE PlaceTakeProfit
  <2>1. ord'["entry"] = "filled" => ord["entry"] = "filled"
    BY <1>0, <1>5 DEF PlaceTakeProfit, Moved
  <2>2. /\ UNCHANGED <<filled, cur>> /\ pc = "placeTake"
        /\ (pc' = "fillWait" /\ handed' = Attached) \/ pc' = "failed"
    BY <1>5 DEF PlaceTakeProfit
  <2>3. CASE pc' = "fillWait" /\ handed' = Attached
    BY <2>1, <2>2, <2>3 DEF FillInv
  <2>4. CASE pc' = "failed"
    BY <2>1, <2>2, <2>4, ElsewhereKeeps
  <2> QED  BY <2>2, <2>3, <2>4
<1> QED  BY <1>1, <1>2, <1>3, <1>4, <1>5 DEF Submission

LEMMA EntryWaitFill == ASSUME IInv, FillInv, EntryWait PROVE FillInv'
<1> USE DEF BeforeStop, BracketInHand
<1>1. CASE EntryFilled  BY <1>1, FilledRecorded
<1>2. CASE ConfirmProtection  BY <1>2, ProtectionKnown
<1>3. CASE EntryEndedPartly
  BY <1>3, ElsewhereKeeps
  DEF EntryEndedPartly, ProcessEntryStatus, ProcessStatus, SaveThen, brokerVars
<1>4. CASE FillTimeoutPartly
  BY <1>4, ElsewhereKeeps
  DEF FillTimeoutPartly, ProcessStatus, SaveThen, failureVars
<1>5. CASE FillTimeoutUnfilled
  BY <1>5, ElsewhereKeeps
  DEF FillTimeoutUnfilled, ProcessStatus, SaveThen, failureVars
<1>6. CASE CancelTimeout
  BY <1>6, ElsewhereKeeps DEF CancelTimeout, ProcessStatus, SaveThen, brokerVars
<1>7. CASE EntryEndedUnfilled \/ ProtectionLost
  BY <1>7, ElsewhereKeeps
  DEF EntryEndedUnfilled, ProtectionLost, brokerVars, callVars, failureVars
<1>8. CASE Poll
  BY <1>8 DEF Poll, FillInv, brokerVars, failureVars, storeVars
<1> QED  BY <1>1, <1>2, <1>3, <1>4, <1>5, <1>6, <1>7, <1>8 DEF EntryWait

\* A replacement or an exit leaves the entry alone.
LEMMA PairLeavesEntry ==
    ASSUME IInv, NEW n, NEW a, NEW b, PlacePair(n, a, b)
    PROVE  ord'["entry"] = ord["entry"] /\ pc' \in {a, b}
<1>1. "entry" \notin NextPair /\ "entry" \notin StopOf(NextPair)
      /\ "entry" \in OrderSlot
  BY DEF NextPair, StopOf, OrderSlot
<1> QED  BY <1>1 DEF PlacePair

LEMMA FailureFill ==
    ASSUME IInv, FillInv, PartialFill \/ BracketFailure \/ DefensiveExit
    PROVE  FillInv'
<1> USE DEF BeforeStop, BracketInHand
<1>1. CASE PartialFill
  <2>1. CASE PartialFillAlert
    BY <2>1, ElsewhereKeeps DEF PartialFillAlert, Alert
  <2>2. CASE PartialPlace
    BY <2>2, PairLeavesEntry, ElsewhereKeeps DEF PartialPlace
  <2>3. CASE ChildrenCancelled \/ PartialConfirmed \/ PartialLost
               \/ PartialMark \/ PartialStop
    BY <2>3, ElsewhereKeeps
    DEF ChildrenCancelled, PartialConfirmed, PartialLost, PartialMark,
        PartialStop, SaveThen, StopAndReload, brokerVars
  <2> QED  BY <1>1, <2>1, <2>2, <2>3 DEF PartialFill
<1>2. CASE BracketFailure
  <2>1. CASE FailureStatus
    BY <2>1, ElsewhereKeeps
    DEF FailureStatus, ProcessEntryStatus, ProcessStatus, SaveThen, brokerVars
  <2>2. CASE Replace
    BY <2>2, PairLeavesEntry, ElsewhereKeeps DEF Replace
  <2>3. CASE CancelledBracket \/ MarkUnprotected \/ ExposedAlert
               \/ ExposedStop \/ ReplaceConfirmed \/ ReplaceLost \/ ReplaceMark
    BY <2>3, ElsewhereKeeps
    DEF CancelledBracket, MarkUnprotected, ExposedAlert, Alert, ExposedStop,
        ReplaceConfirmed, ReplaceLost, ReplaceMark, SaveThen, StopAndReload,
        brokerVars
  <2>4. CASE ReplaceAlert
    BY <2>4, ElsewhereKeeps DEF ReplaceAlert, Alert, Handled, brokerVars
  <2> QED  BY <1>2, <2>1, <2>2, <2>3, <2>4 DEF BracketFailure
<1>3. CASE DefensiveExit
  <2>1. CASE PlaceExit
    <3>1. ord'["entry"] = ord["entry"]
      BY <2>1 DEF PlaceExit, IInv, BrokerInv, BrokerTypeOK, OrderSlot
    <3> QED  BY <2>1, <3>1, ElsewhereKeeps DEF PlaceExit
  <2>2. CASE ExitAlert \/ ExitFailed
    BY <2>2, ElsewhereKeeps
    DEF ExitAlert, Alert, ExitFailed, SaveThen, Handled, brokerVars
  <2>3. CASE ExitRecord
    BY <2>3, ExitRecordedStep, ElsewhereKeeps DEF ExitRecord, brokerVars
  <2> QED  BY <1>3, <2>1, <2>2, <2>3 DEF DefensiveExit
<1> QED  BY <1>1, <1>2, <1>3

\* An entry that is filled changes no more, so no handler writes its trade;
\* the monitor passes over a trade that is Filled.
LEMMA AroundFill ==
    ASSUME IInv, FillInv,
           EntryEvent \/ ClosingEvent \/ MonitorRecordsQuote \/ MonitorStops
           \/ Crash
    PROVE  FillInv'
<1>1. ord \in [OrderSlot -> Status] /\ "entry" \in OrderSlot
      /\ "entry" \notin Closing /\ Protective \subseteq Closing
      /\ "exit" \in Closing /\ Attached \subseteq Protective
  BY DEF IInv, BrokerInv, BrokerTypeOK, OrderSlot, Closing, Protective,
     Attached, Replacement, Repair
<1>2. CASE EntryEvent
  <2>1. UNCHANGED <<pc, handed, cur>> /\ ord["entry"] # "filled"
    BY <1>2 DEF EntryEvent, EntryChanges, EntryAccepted, EntryFills, EntryEnds,
       Live, failureVars
  <2>2. ord'["entry"] = "filled" => filled' = Qty
    <3>1. CASE EntryAccepted
      BY <1>1, <3>1 DEF EntryAccepted
    <3>2. ASSUME NEW n \in 1..Qty, EntryFills(n)
          PROVE  ord'["entry"] = "filled" => filled' = Qty
      BY <3>2 DEF EntryFills
    <3>3. ASSUME NEW e \in {"cancelled", "rejected"}, EntryEnds(e)
          PROVE  ord'["entry"] # "filled"
      BY <1>1, <3>3 DEF EntryEnds, Moved
    <3> QED  BY <1>2, <3>1, <3>2, <3>3 DEF EntryEvent, EntryChanges
  <2> QED  BY <2>1, <2>2 DEF FillInv
<1>3. CASE ClosingEvent
  <2>1. UNCHANGED <<pc, handed, cur, disk, copy, filled>>
    BY <1>3 DEF ClosingEvent, callVars, failureVars, storeVars, ClosingAccepted,
       ClosingRejected, ClosingCancelled, ProtectiveFills, ExitFills
  <2>2. ord'["entry"] = ord["entry"]
    <3>1. ASSUME NEW o \in Closing,
                 ClosingAccepted(o) \/ ClosingRejected(o) \/ ClosingCancelled(o)
          PROVE  ord'["entry"] = ord["entry"]
      BY <1>1, <3>1 DEF ClosingAccepted, ClosingRejected, ClosingCancelled
    <3>2. ASSUME NEW o \in Protective, ProtectiveFills(o)
          PROVE  ord'["entry"] = ord["entry"]
      BY <1>1, <3>2 DEF ProtectiveFills, Moved
    <3>3. CASE ExitFills
      BY <1>1, <3>3 DEF ExitFills
    <3> QED  BY <1>3, <3>1, <3>2, <3>3 DEF ClosingEvent
  <2> QED  BY <2>1, <2>2 DEF FillInv
<1>4. CASE MonitorRecordsQuote \/ MonitorStops
  <2>1. /\ UNCHANGED <<pc, handed, cur, copy, filled, ord>>
        /\ pc \in Awaiting
        /\ disk.trade.status = "Submitted"
    BY <1>4 DEF MonitorRecordsQuote, MonitorStops, Monitorable, brokerVars,
       callVars, failureVars
  <2>2. ~Knows(disk, FillKnown)
    BY <2>1 DEF Knows, FillKnown, Payload
  <2> QED  BY <2>1, <2>2 DEF FillInv, Awaiting
<1>5. CASE Crash
  BY <1>5 DEF Crash, FillInv, BeforeStop, BracketInHand, brokerVars
<1> QED  BY <1>2, <1>3, <1>4, <1>5

LEMMA FillStep == IInv /\ FillInv /\ [Next]_vars => FillInv'
<1> SUFFICES ASSUME IInv, FillInv, [Next]_vars PROVE FillInv'
  OBVIOUS
<1>1. CASE Call
  BY <1>1, SubmissionFill, EntryWaitFill, FailureFill DEF Call
<1>2. CASE UNCHANGED vars
  BY <1>2 DEF vars, brokerVars, callVars, failureVars, storeVars, FillInv, Knows
<1> QED  BY <1>1, <1>2, AroundFill DEF Next

----------------------------------------------------------------------------
(* The theorems.                                                           *)

LEMMA InitEstablishes == Init => IInv
<1> SUFFICES ASSUME Init PROVE IInv
  OBVIOUS
<1>1. PICK t \in InitialTrades : disk = [BlankState EXCEPT !.trade = t]
  BY DEF Init
<1>2. DOMAIN t \subseteq TradeKeys
  BY DEF InitialTrades, NoTrade, TradeKeys
<1>3. StateOK(disk) /\ disk.estop = FALSE
  BY <1>1, <1>2 DEF StateOK, BlankState
<1>4. StoreInv
  <2>1. StateOK(BlankState)
    BY DEF StateOK, BlankState, NoTrade
  <2>2. /\ copy = [i \in {1, 2} |-> IF i = 1 THEN disk ELSE BlankState]
        /\ fresh \subseteq {1} /\ cur = 1
    BY DEF Init
  <2> QED  BY <1>3, <2>1, <2>2 DEF StoreInv, StoreTypeOK, FreshStop
<1>5. BrokerInv
  BY DEF Init, BrokerInit, BrokerInv, BrokerTypeOK, BracketInv, Status,
         OrderSlot, Closing, Protective
<1>6. CallTypeOK /\ pc = "idle" /\ cur = 1
  <2>1. /\ pc = "idle" /\ cur = 1 /\ handed = {} /\ seen = {}
        /\ polled = <<>> /\ faults = {}
        /\ exposure = 0 /\ mustRaise = FALSE /\ confirmed = FALSE
    BY DEF Init
  <2> QED  BY <2>1, ZeroInRange DEF CallTypeOK, Sync
<1>7. ~ChildPhase /\ ~Stopped
  BY <1>6 DEF Init, BrokerInit, ChildPhase, Stopped, StoppedAt, OrderSlot,
              Closing, Protective, Attached
<1> QED  BY <1>4, <1>5, <1>6, <1>7 DEF IInv

LEMMA NextKeeps == IInv /\ [Next]_vars => IInv'
<1> SUFFICES ASSUME IInv, [Next]_vars PROVE IInv'
  OBVIOUS
<1>1. CASE Call
  BY <1>1, SubmissionStep, EntryWaitStep, PartialFillStep, BracketFailureStep,
     DefensiveExitStep DEF Call
<1> QED  BY <1>1, EntryEventStep, ClosingEventStep, MonitorStep, CrashStep,
            StutterStep DEF Next

\* The inductive invariant holds in every reachable state.
THEOREM Invariance == Spec => []IInv
  BY InitEstablishes, NextKeeps, PTL DEF Spec

\* Every variable of a submission keeps its type.
THEOREM TypeCorrect == Spec => []TypeOK
<1>1. IInv => TypeOK
  BY DEF IInv, TypeOK, BrokerInv, StoreInv
<1> QED  BY <1>1, Invariance, PTL

\* submit_order_set: however it fails or crashes, nothing of the entry fills
\* before both protective children are with the broker for the whole quantity.
THEOREM BracketFirst == Spec => []BracketBeforeExposure
<1>1. IInv => BracketBeforeExposure
  BY DEF IInv, BrokerInv, BracketInv, BracketPlaced, BracketBeforeExposure
<1> QED  BY <1>1, Invariance, PTL

\* submit_order_set: whatever fails, crashes or writes the state meanwhile, a
\* fill is never news to the state file.
THEOREM ExposureRecorded == Spec => []ExposureIsOnDisk
<1>1. IInv => ExposureIsOnDisk
  BY DEF IInv, BrokerInv, BracketInv, BracketPlaced, ChildPhase, AllRecorded,
         Recorded, ExposureIsOnDisk, Attached
<1> QED  BY <1>1, Invariance, PTL

\* _handle_bracket_failure: no exit is placed and no failure counts as handled
\* before the emergency stop is on disk, and no stale save takes it back;
\* unless writing the stop has failed, the one error the code goes on after.
THEOREM StopFirst == Spec => []StopBeforeExit
<1>1. IInv => StopBeforeExit
  BY DEF IInv, Stopped, StoppedAt, StopBeforeExit, StopTried
<1> QED  BY <1>1, Invariance, PTL

\* submit_order_set returning normally: the state file knows the whole fill and
\* both protective orders, whatever the handlers and the monitor wrote.
THEOREM ReturnRecorded == Spec => []ProtectedIsRecorded
<1>1. Init => FillInv
  BY DEF Init, BrokerInit, FillInv, BracketInHand, OrderSlot
<1>2. FillInv => ProtectedIsRecorded
  BY DEF FillInv, ProtectedIsRecorded, Knows, FillKnown, PairKnown, Payload
<1> QED  BY <1>1, <1>2, Invariance, FillStep, PTL DEF Spec
----------------------------------------------------------------------------
(* The call beside the monitor.  What the two of them keep is shown without *)
(* the invariant above, which knows no monitor that closes the trade.      *)

\* A state, as far as the emergency stop is concerned.
Shape(s) == DOMAIN s = DOMAIN BlankState /\ s.estop \in BOOLEAN

\* What no write may lose: the emergency stop and the known orders.
Keeps(old, new) == (old.estop => new.estop) /\ old.orders \subseteq new.orders

StoreShape ==
    /\ Shape(disk)
    /\ DOMAIN copy = {1, 2} /\ \A i \in {1, 2} : Shape(copy[i])
    /\ fresh \subseteq {1, 2} /\ cur \in {1, 2}
    /\ \A i \in fresh : Keeps(disk, copy[i])

BrokerShape ==
    /\ ord \in [OrderSlot -> Status] /\ filled \in 0..Qty
    /\ qty \in [Closing -> Nat] /\ pos \in Int /\ cancelReq \subseteq OrderSlot

PassShape ==
    /\ mpc \in Watch!Awaiting \cup Watch!Idle \cup {"place"}
    /\ sawPos \in Int /\ sawLive \subseteq Protective

BothShape ==
    /\ BrokerShape /\ StoreShape /\ PassShape
    /\ pc \in Awaiting \cup Over \cup Sync
    /\ handed \subseteq Protective /\ exposure \in 0..filled

\* Copy i is saved after an edit that takes nothing of this back.
Edited(i, new) ==
    /\ Shape(new) /\ Keeps(copy[i], new)
    /\ SaveRaises(i, new) /\ UNCHANGED cur

\* All the call does to the file and its copies.
StoreMoves ==
    \/ UNCHANGED <<storeVars, cur>>
    \/ \E next : StopAndReload(next)
    \/ \E i \in {1, 2} : \E new : Edited(i, new)

LEMMA MergedShape ==
    ASSUME NEW c, Shape(c), NEW s, Shape(s)
    PROVE  /\ Shape(MergeConcurrentState(c, s))
           /\ Keeps(c, MergeConcurrentState(c, s))
           /\ Keeps(s, MergeConcurrentState(c, s))
  BY DEF Shape, BlankState, MergeConcurrentState, Keeps

\* The emergency stop is written, or the failure of its write is noted.
LEMMA StopMoves ==
    ASSUME StoreShape, NEW next, StopAndReload(next)
    PROVE  /\ StoreShape' /\ Keeps(disk, disk')
           /\ StopTried' /\ pc' \in {next, "raised"}
<1>1. Shape(StopWritten) /\ Keeps(disk, StopWritten) /\ StopWritten.estop
  BY DEF Shape, StoreShape, WithTrade, BlankState, Keeps, StopWritten
<1>2. Keeps(StopWritten, StopWritten) /\ Keeps(disk, disk)
  BY DEF Keeps
<1>3. StoreFault("stop") => "stop" \in faults'
  BY DEF StoreFault, Fault
<1>4. /\ pc' \in {next, "raised"}
      /\ disk' = StopWritten \/ (disk' = disk /\ StoreFault("stop"))
  BY DEF StopAndReload
<1>5. /\ DOMAIN copy' = {1, 2} /\ cur' \in {1, 2} /\ fresh' \subseteq {1, 2}
      /\ copy'[1] = copy[1]
      /\ \/ /\ copy'[2] = disk'
            /\ 1 \in fresh' => 1 \in fresh /\ disk' = disk
         \/ copy'[2] = copy[2] /\ fresh' = {}
         \/ copy'[2] = copy[2] /\ fresh' = fresh /\ disk' = disk
  <2>1. /\ DOMAIN copy = {1, 2} /\ cur \in {1, 2} /\ fresh \subseteq {1, 2}
        /\ StopAndReload(next)
    BY DEF StoreShape
  <2>2. CASE /\ copy' = [copy EXCEPT ![2] = disk'] /\ fresh' = {2} /\ cur' = 2
    BY <2>1, <2>2
  <2>3. CASE /\ copy' = [copy EXCEPT ![2] = disk] /\ fresh' = fresh \cup {2}
             /\ cur' = 2 /\ UNCHANGED disk
    BY <2>1, <2>3
  <2>4. CASE /\ UNCHANGED <<copy, cur>>
             /\ fresh' = {} \/ UNCHANGED <<disk, fresh>>
    BY <2>1, <2>4
  <2> QED  BY <2>1, <2>2, <2>3, <2>4 DEF StopAndReload
<1>6. StoreShape'
  BY <1>1, <1>2, <1>4, <1>5 DEF StoreShape
<1> QED  BY <1>1, <1>2, <1>3, <1>4, <1>6 DEF StopTried

\* No such step takes the emergency stop, or an order, back.
LEMMA StoreMovesKeep ==
    ASSUME StoreShape, StoreMoves
    PROVE  StoreShape' /\ Keeps(disk, disk')
<1>1. CASE UNCHANGED <<storeVars, cur>>
  <2>1. UNCHANGED <<disk, copy, fresh, cur>>
    BY <1>1 DEF storeVars
  <2> QED  BY <2>1 DEF StoreShape, Keeps
<1>2. CASE \E next : StopAndReload(next)
  BY <1>2, StopMoves
<1>3. ASSUME NEW i \in {1, 2}, NEW new, Edited(i, new)
      PROVE  StoreShape' /\ Keeps(disk, disk')
  <2>1. /\ cur' = cur /\ DOMAIN copy' = {1, 2}
        /\ \A j \in {1, 2} : copy'[j] = IF j = i THEN new ELSE copy[j]
        /\ Shape(new) /\ Keeps(copy[i], new)
    BY <1>3 DEF Edited, SaveRaises, SaveAs, StoreShape
  <2>2. \/ /\ disk' = IF i \in fresh THEN new
                      ELSE MergeConcurrentState(disk, new)
           /\ fresh' = fresh \cap {i}
        \/ disk' = disk /\ fresh' = fresh \ {i}
    BY <1>3 DEF Edited, SaveRaises, SaveAs, Saved
  <2>3. Shape(disk') /\ Keeps(disk, disk')
    BY <2>1, <2>2, MergedShape DEF StoreShape, Keeps
  <2>4. ASSUME NEW j \in fresh'
        PROVE  Keeps(disk', copy'[j])
    <3>1. j \in fresh /\ j \in {1, 2} /\ Keeps(disk, copy[j])
      BY <2>2, <2>4 DEF StoreShape
    <3>2. CASE j = i
      <4>1. disk' = new /\ copy'[j] = new
        BY <2>1, <2>2, <2>4, <3>1, <3>2
      <4> QED  BY <4>1 DEF Keeps
    <3>3. CASE j # i
      <4>1. disk' = disk /\ copy'[j] = copy[j]
        BY <2>1, <2>2, <2>4, <3>1, <3>3
      <4> QED  BY <3>1, <4>1
    <3> QED  BY <3>2, <3>3
  <2> QED  BY <2>1, <2>2, <2>3, <2>4 DEF StoreShape
<1> QED  BY <1>1, <1>2, <1>3 DEF StoreMoves

\* The edits of the code take nothing back.
LEMMA EditShapes ==
    ASSUME NEW s, Shape(s), NEW d, NEW S
    PROVE  /\ Shape(WithTrade(s, d)) /\ Keeps(s, WithTrade(s, d))
           /\ Shape(StatusRecorded(s, d)) /\ Keeps(s, StatusRecorded(s, d))
           /\ Shape(ProtectionRecorded(s, S))
           /\ Keeps(s, ProtectionRecorded(s, S))
           /\ LET new == [s EXCEPT !.orders = @ \cup S, !.trade = d]
              IN  Shape(new) /\ Keeps(s, new)
           /\ LET new == [WithTrade(s, d) EXCEPT !.orders = @ \cup S]
              IN  Shape(new) /\ Keeps(s, new)
  BY DEF Shape, WithTrade, StatusRecorded, ProtectionRecorded, BlankState, Keeps

\* A save of the call after such an edit, whether or not save() raises.
LEMMA SaveMoves ==
    ASSUME StoreShape, NEW new, Shape(new), Keeps(copy[cur], new),
           NEW a, NEW b, SaveThen(new, a, b) \/ SaveAs(cur, new), UNCHANGED cur
    PROVE  StoreMoves
<1>1. cur \in {1, 2} /\ Edited(cur, new)
  BY DEF SaveThen, SaveRaises, Edited, StoreShape
<1> QED  BY <1>1 DEF StoreMoves

LEMMA ProcessMoves ==
    ASSUME StoreShape, NEW status, NEW a, NEW b, ProcessStatus(status, a, b),
           UNCHANGED cur
    PROVE  StoreMoves
<1>1. /\ Shape(StatusRecorded(copy[cur], status))
      /\ Keeps(copy[cur], StatusRecorded(copy[cur], status))
  BY EditShapes DEF StoreShape
<1> QED  BY <1>1, SaveMoves DEF ProcessStatus

LEMMA CallMoves == ASSUME StoreShape, Call PROVE StoreMoves
<1> DEFINE s == copy[cur]
<1>1. cur \in {1, 2} /\ Shape(s)
  BY DEF StoreShape
<1>2. ASSUME NEW new, Shape(new), Keeps(s, new), NEW a, NEW b,
             SaveThen(new, a, b), UNCHANGED cur
      PROVE  StoreMoves
  BY <1>2, SaveMoves
<1>3. CASE RecordSubmission \/ EntryFilled \/ EntryEndedPartly
           \/ FillTimeoutPartly \/ FillTimeoutUnfilled \/ CancelTimeout
           \/ FailureStatus
  <2>1. CASE UNCHANGED storeVars
    BY <1>3, <2>1
    DEF StoreMoves, RecordSubmission, EntryFilled, EntryEndedPartly,
        FillTimeoutPartly, FillTimeoutUnfilled, CancelTimeout, FailureStatus
  <2>2. CASE \E status, a, b : ProcessStatus(status, a, b)
    BY <1>3, <2>2, ProcessMoves
    DEF RecordSubmission, EntryFilled, EntryEndedPartly, FillTimeoutPartly,
        FillTimeoutUnfilled, CancelTimeout, FailureStatus
  <2> QED
    BY <1>3, <2>1, <2>2
    DEF RecordSubmission, EntryFilled, EntryEndedPartly, FillTimeoutPartly,
        FillTimeoutUnfilled, CancelTimeout, FailureStatus, ProcessEntryStatus
<1>4. CASE ConfirmProtection \/ PartialConfirmed \/ ReplaceConfirmed
  <2>1. \E a, b : SaveThen(ProtectionRecorded(s, handed), a, b)
    BY <1>4 DEF ConfirmProtection, PartialConfirmed, ReplaceConfirmed
  <2>2. UNCHANGED cur
    BY <1>4
    DEF ConfirmProtection, PartialConfirmed, ReplaceConfirmed, callVars
  <2> QED  BY <1>1, <1>2, <2>1, <2>2, EditShapes
<1>5. CASE PartialMark \/ CancelledBracket \/ ReplaceMark
  <2>1. \E d, a, b : SaveThen(WithTrade(s, d), a, b)
    BY <1>5 DEF PartialMark, CancelledBracket, ReplaceMark
  <2>2. UNCHANGED cur
    BY <1>5 DEF PartialMark, CancelledBracket, ReplaceMark, callVars
  <2> QED  BY <1>1, <1>2, <2>1, <2>2, EditShapes
<1>6. CASE MarkUnprotected
  <2>1. \E d, a, b :
           SaveThen([s EXCEPT !.orders = @ \cup {"entry"}, !.trade = d], a, b)
    BY <1>6 DEF MarkUnprotected
  <2>2. UNCHANGED cur
    BY <1>6 DEF MarkUnprotected, callVars
  <2> QED  BY <1>1, <1>2, <2>1, <2>2, EditShapes
<1>7. CASE ExitFailed
  <2>1. \/ \E d, a, b : SaveThen(WithTrade(s, d), a, b)
        \/ UNCHANGED storeVars
    BY <1>7 DEF ExitFailed
  <2>2. UNCHANGED cur
    BY <1>7 DEF ExitFailed, callVars
  <2> QED  BY <1>1, <1>2, <2>1, <2>2, EditShapes DEF StoreMoves
<1>8. CASE ExitRecord
  <2>1. \/ \E d, a, b : SaveThen([WithTrade(s, d)
                                    EXCEPT !.orders = @ \cup {"exit"}], a, b)
        \/ UNCHANGED storeVars
    BY <1>8 DEF ExitRecord
  <2>2. UNCHANGED cur
    BY <1>8 DEF ExitRecord, callVars
  <2> QED  BY <1>1, <1>2, <2>1, <2>2, EditShapes DEF StoreMoves
<1>9. CASE PartialStop \/ ExposedStop
  BY <1>9 DEF PartialStop, ExposedStop, StoreMoves
<1>10. CASE Refuse \/ PlaceEntry \/ PlaceStop \/ PlaceTakeProfit \/ Poll
            \/ EntryEndedUnfilled \/ ProtectionLost \/ PartialFillAlert
            \/ ChildrenCancelled \/ PartialPlace \/ PartialLost
            \/ ExposedAlert \/ Replace \/ ReplaceLost \/ ReplaceAlert
            \/ ExitAlert \/ PlaceExit
  BY <1>10
  DEF Refuse, PlaceEntry, PlaceStop, PlaceTakeProfit, Poll,
      EntryEndedUnfilled, ProtectionLost, PartialFillAlert, ChildrenCancelled,
      PartialPlace, PartialLost, ExposedAlert, Replace, ReplaceLost,
      ReplaceAlert, ExitAlert, PlaceExit, callVars, StoreMoves
<1> QED
  BY <1>3, <1>4, <1>5, <1>6, <1>7, <1>8, <1>9, <1>10
  DEF Call, Submission, EntryWait, PartialFill, BracketFailure, DefensiveExit

LEMMA EventMoves ==
    ASSUME StoreShape, HandleEntryEvent, UNCHANGED cur PROVE StoreMoves
<1> DEFINE new == StatusRecorded(copy[1], EventKey)
<1>1. Shape(StatusRecorded(copy[1], EventKey'))
      /\ Keeps(copy[1], StatusRecorded(copy[1], EventKey'))
  BY EditShapes DEF StoreShape
<1>2. \/ SaveRaises(1, StatusRecorded(copy[1], EventKey'))
      \/ UNCHANGED storeVars
  BY DEF HandleEntryEvent, SaveRaises
<1> QED  BY <1>1, <1>2 DEF StoreMoves, Edited

\* Errors are noted for good.
LEMMA FaultsGrow == ASSUME Call PROVE faults \subseteq faults'
<1>1. CASE Submission
  BY <1>1
  DEF Submission, Refuse, PlaceEntry, RecordSubmission, PlaceStop,
      PlaceTakeProfit, ProcessEntryStatus, ProcessStatus, SaveThen, StoreFault,
      NoticeFault, Fault
<1>2. CASE EntryWait
  BY <1>2
  DEF EntryWait, Poll, EntryFilled, EntryEndedPartly, EntryEndedUnfilled,
      FillTimeoutPartly, FillTimeoutUnfilled, CancelTimeout, ConfirmProtection,
      ProtectionLost, ProcessEntryStatus, ProcessStatus, SaveThen, StoreFault,
      NoticeFault, Fault
<1>3. CASE PartialFill
  BY <1>3
  DEF PartialFill, PartialFillAlert, ChildrenCancelled, PartialPlace,
      PartialConfirmed, PartialLost, PartialMark, PartialStop, Alert,
      StopAndReload, SaveThen, StoreFault, NoticeFault, Fault
<1>4. CASE BracketFailure
  BY <1>4
  DEF BracketFailure, FailureStatus, CancelledBracket, MarkUnprotected,
      ExposedAlert, ExposedStop, Replace, ReplaceConfirmed, ReplaceLost,
      ReplaceMark, ReplaceAlert, ProcessEntryStatus, ProcessStatus, Alert,
      StopAndReload, SaveThen, StoreFault, NoticeFault, Fault
<1>5. CASE DefensiveExit
  BY <1>5
  DEF DefensiveExit, ExitAlert, PlaceExit, ExitFailed, ExitRecord, Alert,
      SaveThen, StoreFault, NoticeFault, Fault
<1> QED  BY <1>1, <1>2, <1>3, <1>4, <1>5 DEF Call

----------------------------------------------------------------------------
(* What a step of the monitor and of the broker is to the call.            *)

Mate(o) == IF o = "stop4" THEN "stop1" ELSE "take1"

\* A step of a pass: the broker's orders change only in the slots of the
\* monitor's repairs, the file keeps the emergency stop and the
\* known orders.
PassEffect ==
    /\ UNCHANGED <<filled, pos, cancelReq, callVars, copy, pc, faults>>
    /\ pc \in Awaiting \cup Over /\ pc # "crashed"
    /\ StoreShape' /\ PassShape' /\ Keeps(disk, disk')
    /\ ord' \in [OrderSlot -> Status] /\ qty' \in [Closing -> Nat]
    /\ \A o \in OrderSlot \ Repair : ord'[o] = ord[o]
    /\ \A o \in Closing \ Repair : qty'[o] = qty[o]

\* The two modules speak of the same orders and of the same states.
LEMMA SameNames ==
    /\ Watch!OrderSlot = OrderSlot /\ Watch!Closing = Closing
    /\ Watch!Protective = Protective /\ Watch!Live = Live
    /\ \A s, d : Watch!WithTrade(s, d) = WithTrade(s, d)
    /\ Watch!NoTrade = NoTrade
  BY DEF Watch!OrderSlot, OrderSlot, Watch!Closing, Closing, Watch!Protective,
         Protective, Watch!Attached, Attached, Watch!Replacement, Replacement,
         Watch!Repair, Repair, Watch!Live, Live, Watch!WithTrade, WithTrade,
         Watch!Overlay, Overlay, Watch!NoTrade, NoTrade

\* The monitor writes the file, or leaves it.
LEMMA FileMoves ==
    ASSUME StoreShape, UNCHANGED <<copy, cur>>,
           \/ UNCHANGED <<disk, fresh>>
           \/ Shape(disk') /\ Keeps(disk, disk') /\ fresh' = {}
    PROVE  StoreShape' /\ Keeps(disk, disk')
  BY DEF StoreShape, Keeps

\* A transaction of the monitor: it raises before the file is replaced or after.
LEMMA TransactMoves ==
    ASSUME NEW new, NEW next, Watch!Transact(new, next)
    PROVE  /\ (disk' = new /\ fresh' = {}) \/ UNCHANGED <<disk, fresh>>
           /\ mpc' \in {next, "lost"}
           /\ mpc' # "lost" => disk' = new
  BY DEF Watch!Transact, Watch!Write

LEMMA EscalateMoves ==
    ASSUME StoreShape, Watch!Escalate
    PROVE  /\ \/ UNCHANGED <<disk, fresh>>
              \/ Shape(disk') /\ Keeps(disk, disk') /\ fresh' = {}
           /\ \/ disk' = disk
              \/ disk' = Watch!Stopped
           /\ mpc' \in Watch!Idle /\ UNCHANGED <<held, sawPos, sawLive>>
<1>1. Shape(Watch!Stopped) /\ Keeps(disk, Watch!Stopped)
  BY SameNames DEF Watch!Stopped, StoreShape, Shape, WithTrade, BlankState, Keeps
<1>2. /\ (disk' = Watch!Stopped /\ fresh' = {}) \/ UNCHANGED <<disk, fresh>>
      /\ mpc' \in {"sleep", "dead", "lost"}
      /\ UNCHANGED <<held, sawPos, sawLive>>
  BY DEF Watch!Escalate, Watch!Write, Watch!Transact
<1> QED  BY <1>1, <1>2 DEF Watch!Idle

LEMMA PlaceMoves ==
    ASSUME BrokerShape, PassShape, NEW S \in SUBSET Repair,
           NEW s \in {"pending", "staged"}, Watch!Place(S, s)
    PROVE  /\ ord' \in [OrderSlot -> Status] /\ qty' \in [Closing -> Nat]
           /\ \A o \in OrderSlot \ S : ord'[o] = ord[o]
           /\ \A o \in Closing \ S : qty'[o] = qty[o]
           /\ UNCHANGED <<filled, pos, cancelReq>>
<1>1. /\ ord' = [o \in OrderSlot |-> IF o \in S THEN s ELSE ord[o]]
      /\ qty' = [o \in Closing |->
                    IF o \in S THEN (IF sawPos > 0 THEN sawPos ELSE -sawPos)
                               ELSE qty[o]]
      /\ UNCHANGED <<filled, pos, cancelReq>>
  BY SameNames DEF Watch!Place
<1>2. (IF sawPos > 0 THEN sawPos ELSE -sawPos) \in Nat
  BY DEF PassShape
<1> QED  BY <1>1, <1>2 DEF BrokerShape, Status

LEMMA PassIsEffect == ASSUME BothShape, PassStep PROVE PassEffect
<1>1. /\ Watch!Monitor /\ UNCHANGED <<callVars, copy, pc, cur, faults>>
      /\ pc \in Awaiting \cup Over /\ pc # "crashed"
      /\ BrokerShape /\ StoreShape /\ PassShape
  BY DEF PassStep, callVars, BothShape
<1>2. ASSUME UNCHANGED brokerVars, PassShape',
             \/ UNCHANGED <<disk, fresh>>
             \/ Shape(disk') /\ Keeps(disk, disk') /\ fresh' = {}
      PROVE  PassEffect
  <2>1. StoreShape' /\ Keeps(disk, disk')
    BY <1>1, <1>2, FileMoves
  <2> QED  BY <1>1, <1>2, <2>1 DEF PassEffect, brokerVars, BrokerShape
<1>3. Watch!brokerVars = brokerVars
  BY DEF Watch!brokerVars, brokerVars
<1>4. CASE Watch!QuoteFails \/ Watch!SnapshotFails \/ Watch!MissingWithoutFill
           \/ Watch!StillMissing \/ Watch!NotConfirmed
  <2>1. Watch!Escalate /\ UNCHANGED brokerVars
    BY <1>4
    DEF Watch!QuoteFails, Watch!SnapshotFails, Watch!MissingWithoutFill,
        Watch!StillMissing, Watch!NotConfirmed, Watch!brokerVars, brokerVars
  <2>2. PassShape'
    BY <1>1, <2>1, EscalateMoves DEF PassShape, Watch!Idle
  <2> QED  BY <1>1, <1>2, <2>1, <2>2, EscalateMoves
<1>5. CASE Watch!QuoteRecorded \/ Watch!ClosedByProtection
           \/ Watch!ProtectionWhole \/ Watch!MarkResubmit
           \/ Watch!RepairRecorded
  <2>1. UNCHANGED brokerVars /\ UNCHANGED <<sawPos, sawLive>>
    BY <1>5
    DEF Watch!QuoteRecorded, Watch!ClosedByProtection, Watch!ProtectionWhole,
        Watch!MarkResubmit, Watch!RepairRecorded, Watch!brokerVars, brokerVars
  <2>2. \/ UNCHANGED <<disk, fresh>> /\ mpc' \in {"sleep", "lost"}
        \/ \E t : \E next \in {"positions", "sleep", "place", "lost"} :
               Watch!Transact([disk EXCEPT !.trade = t], next)
    <3>1. CASE Watch!QuoteRecorded \/ Watch!MarkResubmit
      BY <3>1, SameNames
      DEF Watch!QuoteRecorded, Watch!MarkResubmit, WithTrade
    <3>2. CASE Watch!ClosedByProtection \/ Watch!RepairRecorded
      BY <3>2
      DEF Watch!ClosedByProtection, Watch!RepairRecorded, Watch!AfterNotice
    <3>3. CASE Watch!ProtectionWhole
      BY <3>3, SameNames DEF Watch!ProtectionWhole, WithTrade
    <3> QED  BY <1>5, <3>1, <3>2, <3>3
  <2>3. /\ \/ UNCHANGED <<disk, fresh>>
           \/ fresh' = {} /\ \E t : disk' = [disk EXCEPT !.trade = t]
        /\ mpc' \in {"positions", "sleep", "place", "lost"}
    BY <2>2, TransactMoves
  <2>4. PassShape'
    BY <1>1, <2>1, <2>3 DEF PassShape, Watch!Idle, Watch!Awaiting
  <2>5. \A t : /\ Shape([disk EXCEPT !.trade = t])
               /\ Keeps(disk, [disk EXCEPT !.trade = t])
    BY <1>1 DEF StoreShape, Shape, BlankState, Keeps
  <2> QED  BY <1>2, <2>1, <2>3, <2>4, <2>5
<1>6. CASE Watch!StartPass \/ Watch!ReadPositions \/ Watch!ReadOrders
           \/ Watch!PricesUnknown \/ Watch!Confirmed \/ Watch!LoadFails
  <2>1. /\ UNCHANGED brokerVars /\ UNCHANGED <<disk, fresh>>
        /\ mpc' \in {"quote", "orders", "executions", "lost", "recheck"}
        /\ sawPos' \in {sawPos, pos}
        /\ sawLive' \in {sawLive, Watch!LiveProtection}
    BY <1>6
    DEF Watch!StartPass, Watch!ReadPositions, Watch!ReadOrders,
        Watch!PricesUnknown, Watch!Confirmed, Watch!LoadFails,
        Watch!brokerVars, brokerVars
  <2>2. PassShape'
    BY <1>1, <2>1, SameNames
    DEF PassShape, BrokerShape, Watch!Idle, Watch!Awaiting,
        Watch!LiveProtection
  <2> QED  BY <1>2, <2>1, <2>2
<1>7. ASSUME NEW S \in SUBSET Repair, NEW s \in {"pending", "staged"},
             Watch!Place(S, s), PassShape',
             \/ UNCHANGED <<disk, fresh>>
             \/ Shape(disk') /\ Keeps(disk, disk') /\ fresh' = {}
      PROVE  PassEffect
  <2>1. StoreShape' /\ Keeps(disk, disk')
    BY <1>1, <1>7, FileMoves
  <2>2. /\ ord' \in [OrderSlot -> Status] /\ qty' \in [Closing -> Nat]
        /\ \A o \in OrderSlot \ S : ord'[o] = ord[o]
        /\ \A o \in Closing \ S : qty'[o] = qty[o]
        /\ UNCHANGED <<filled, pos, cancelReq>>
    BY <1>1, <1>7, PlaceMoves
  <2> QED  BY <1>1, <1>7, <2>1, <2>2 DEF PassEffect
<1>8. CASE Watch!PlaceRepair
  <2>1. {Watch!RepairOf(k) : k \in Watch!Missing(sawLive)} \in SUBSET Repair
    BY DEF Watch!RepairOf, Repair
  <2>2. PassShape'
    BY <1>1, <1>8 DEF Watch!PlaceRepair, PassShape, Watch!Awaiting
  <2> QED  BY <1>7, <1>8, <2>1, <2>2 DEF Watch!PlaceRepair
<1>9. CASE Watch!PlaceFails
  <2>1. Watch!Escalate /\ (UNCHANGED brokerVars \/ Watch!Place({"stop4"}, "staged"))
    BY <1>9 DEF Watch!PlaceFails, Watch!brokerVars, brokerVars
  <2>2. PassShape'
    BY <1>1, <2>1, EscalateMoves DEF PassShape, Watch!Idle
  <2>3. {"stop4"} \in SUBSET Repair
    BY DEF Repair
  <2> QED  BY <1>1, <1>2, <1>7, <2>1, <2>2, <2>3, EscalateMoves
<1> QED
  BY <1>1, <1>4, <1>5, <1>6, <1>8, <1>9 DEF Watch!Monitor

\* What the broker does to the entry: it fills by n more or it ends.
EntryEffect(n) ==
    /\ filled' = filled + n /\ pos' = pos + n
    /\ UNCHANGED <<qty, cancelReq, pc, handed, exposure, cur>>
    /\ ord["entry"] \in {"staged", "pending", "active"}
    /\ n > 0 => /\ ord["entry"] = "active"
                /\ LateFill \/ "entry" \notin cancelReq \/ filled > 0
    /\ ord'["entry"] \in {"active", "filled"} => ord["entry"] # "staged"
    /\ ord'["entry"] \notin {"none", "staged", "pending"}
    /\ \A o \in Closing \ Attached : ord'[o] = ord[o]
    /\ ord'["entry"] = "filled" => filled' = Qty
    /\ \A o \in Attached : \/ ord'[o] = ord[o]
                           \/ /\ filled = 0 /\ ord[o] \in Live
                              /\ ord'[o] = "cancelled"

\* What it does to a closing order: no unplaced one is placed, no dead one
\* revived.
NoRevival ==
    \A o \in Closing : /\ ord[o] = "none" <=> ord'[o] = "none"
                       /\ ord'[o] \in Live => ord[o] \in Live

BrokerEffect == BrokerShape' /\ NoRevival

LEMMA EntryIsEffect ==
    ASSUME BothShape, EntryEvent
    PROVE  /\ BrokerEffect /\ faults \subseteq faults'
           /\ \E n \in 0..Qty : EntryEffect(n)
<1>1. /\ BrokerShape /\ EntryChanges
      /\ UNCHANGED <<pc, handed, exposure, cur>>
      /\ "entry" \in OrderSlot /\ "entry" \notin Closing
      /\ Closing \subseteq OrderSlot /\ Attached \subseteq Closing
  BY DEF EntryEvent, failureVars, BothShape, OrderSlot, Closing, Protective,
         Attached, Replacement, Repair
<1>0. faults \subseteq faults'
  BY DEF EntryEvent, HandleEntryEvent, StoreFault, Fault
<1>2. CASE EntryAccepted
  <2>1. /\ ord' = [ord EXCEPT !["entry"] = "active"] /\ ord["entry"] = "pending"
        /\ UNCHANGED <<filled, qty, pos, cancelReq>>
    BY <1>2 DEF EntryAccepted
  <2>2. BrokerEffect /\ EntryEffect(0)
    BY <1>1, <2>1
    DEF BrokerEffect, BrokerShape, NoRevival, EntryEffect, Status
  <2> QED  BY <1>0, <2>2, ZeroInRange
<1>3. ASSUME NEW n \in 1..Qty, EntryFills(n)
      PROVE  BrokerEffect /\ EntryEffect(n)
  <2>1. /\ ord["entry"] = "active" /\ filled' = filled + n /\ pos' = pos + n
        /\ n \in 1..(Qty - filled) /\ UNCHANGED <<qty, cancelReq>>
        /\ LateFill \/ "entry" \notin cancelReq \/ filled > 0
        /\ ord' = IF filled + n = Qty THEN [ord EXCEPT !["entry"] = "filled"]
                                      ELSE ord
    BY <1>3 DEF EntryFills
  <2>2. filled' \in 0..Qty /\ pos' \in Int
    BY <1>1, <2>1 DEF BrokerShape
  <2> QED
    BY <1>1, <2>1, <2>2
    DEF BrokerEffect, BrokerShape, NoRevival, EntryEffect, Status
<1>4. ASSUME NEW s \in {"cancelled", "rejected"}, EntryEnds(s)
      PROVE  BrokerEffect /\ EntryEffect(0)
  <2>1. PICK S \in {Attached, {}} :
           /\ ord' = [Moved(S, "cancelled") EXCEPT !["entry"] = s]
           /\ filled > 0 => S = {}
           /\ UNCHANGED <<filled, qty, pos, cancelReq>>
           /\ ord["entry"] \in {"staged", "pending", "active"}
    BY <1>1, <1>4 DEF EntryEnds, Live, BrokerShape
  <2>2. /\ ord' \in [OrderSlot -> Status] /\ ord'["entry"] = s
        /\ \A o \in Closing :
              ord'[o] = IF o \in S /\ ord[o] \in Live THEN "cancelled"
                                                      ELSE ord[o]
    BY <1>1, <2>1 DEF BrokerShape, Moved, Status, Live
  <2> QED
    BY <1>1, <2>1, <2>2
    DEF BrokerEffect, BrokerShape, NoRevival, EntryEffect, Live
<1> QED  BY <1>0, <1>1, <1>2, <1>3, <1>4, ZeroInRange DEF EntryChanges

\* Closing order o moves.
ClosingEffect(o) ==
    \/ /\ ord[o] = "pending" /\ ord' = [ord EXCEPT ![o] = "active"]
       /\ o \in Protective => ~GroupFilled
       /\ UNCHANGED pos
    \/ /\ ord[o] \in Live
       /\ o \in cancelReq \/ pc \notin Over \/ "lateReject" \in faults'
       /\ ord' = [ord EXCEPT ![o] = "cancelled"] /\ UNCHANGED pos
    \/ /\ o \in Protective /\ ord[o] = "active"
       /\ o \in Attached => ord["entry"] = "filled"
       /\ ord' = [Moved(Protective, "cancelled") EXCEPT ![o] = "filled"]
       /\ pos' = pos - qty[o]
    \/ /\ o = "exit" /\ ord[o] = "active"
       /\ ord' = [ord EXCEPT !["exit"] = "filled"] /\ pos' = pos - qty["exit"]

LEMMA ClosingIsEffect ==
    ASSUME BothShape, ClosingEvent
    PROVE  /\ BrokerEffect /\ ord'["entry"] = ord["entry"] /\ pos' <= pos
           /\ UNCHANGED <<pc, callVars, storeVars, filled, qty, cancelReq>>
           /\ faults \subseteq faults'
           /\ \E o \in Closing : ClosingEffect(o)
<1>1. /\ BrokerShape /\ UNCHANGED <<pc, callVars, storeVars>>
      /\ Closing \subseteq OrderSlot /\ "entry" \notin Closing
      /\ Protective \subseteq Closing /\ "exit" \in Closing
      /\ "exit" \notin Protective
      /\ faults \subseteq faults'
  BY DEF ClosingEvent, BothShape, OrderSlot, Closing, Protective, Attached,
         Replacement, Repair
<1>2. UNCHANGED <<filled, qty, cancelReq>> /\ \E o \in Closing : ClosingEffect(o)
  BY <1>1
  DEF ClosingEvent, ClosingAccepted, ClosingCancelled, ClosingRejected,
      ProtectiveFills, ExitFills, ClosingEffect, Live
<1>3. PICK o \in Closing : ClosingEffect(o)
  BY <1>2
<1>4. pos' \in {pos, pos - qty[o]} /\ qty[o] \in Nat
  BY <1>1, <1>3 DEF ClosingEffect, BrokerShape
<1>5. pos' \in Int /\ pos' <= pos
  BY <1>1, <1>4 DEF BrokerShape
<1>6. /\ ord' \in [OrderSlot -> Status] /\ ord'["entry"] = ord["entry"]
      /\ NoRevival
  <2>1. /\ Moved(Protective, "cancelled") \in [OrderSlot -> Status]
        /\ \A p \in OrderSlot : Moved(Protective, "cancelled")[p] =
              IF p \in Protective /\ ord[p] \in Live THEN "cancelled" ELSE ord[p]
    BY <1>1 DEF Moved, BrokerShape, Status
  <2>2. PICK s \in {"active", "cancelled", "filled"} :
           /\ ord[o] # "none" /\ (s = "active" => ord[o] = "pending")
           /\ \/ ord' = [ord EXCEPT ![o] = s]
              \/ ord' = [Moved(Protective, "cancelled") EXCEPT ![o] = s]
    BY <1>3 DEF ClosingEffect, Live
  <2>3. CASE ord' = [ord EXCEPT ![o] = s]
    BY <1>1, <2>2, <2>3 DEF BrokerShape, NoRevival, Status, Live, OrderSlot
  <2>4. CASE ord' = [Moved(Protective, "cancelled") EXCEPT ![o] = s]
    BY <1>1, <2>1, <2>2, <2>4 DEF NoRevival, Status, Live, OrderSlot
  <2> QED  BY <2>2, <2>3, <2>4
<1> QED  BY <1>1, <1>2, <1>5, <1>6 DEF BrokerEffect, BrokerShape

----------------------------------------------------------------------------
(* The types of the two together.                                          *)

\* What the call does to the broker's orders, wherever it is.
CallEffect ==
    /\ UNCHANGED <<filled, pos, passVars>> /\ faults \subseteq faults'
    /\ BrokerShape' /\ cancelReq \subseteq cancelReq'
    /\ pc' \in Over \cup Awaiting \cup Sync
    /\ handed' \subseteq Protective /\ exposure' \in {exposure, filled}
    /\ \A o \in Repair : ord'[o] = ord[o]

\* Placing a pair changes the orders of the pair only.
PairPlaced(S, n) ==
    /\ ord' \in [OrderSlot -> Status] /\ qty' \in [Closing -> Nat]
    /\ \A o \in OrderSlot \ NextPair : ord'[o] = ord[o]
    /\ \A o \in Closing \ NextPair : qty'[o] = qty[o]
    /\ \/ S = NextPair /\ \A o \in S : ord'[o] = "pending" /\ qty'[o] = n
       \/ /\ S = {}
          /\ \/ ord' = ord
             \/ \A o \in NextPair : ord'[o] = IF o \in {"stop2", "stop3"}
                                              THEN "staged" ELSE ord[o]

LEMMA PairIsPlaced ==
    ASSUME BrokerShape, NEW n \in Nat, NEW a, NEW b, PlacePair(n, a, b)
    PROVE  /\ PairPlaced(handed', n) /\ NextPair \subseteq Replacement
           /\ handed' = {} => pc' = b
           /\ handed' # {} => pc' = a
<1>1. /\ NextPair \subseteq Replacement /\ NextPair \subseteq Closing
      /\ NextPair \subseteq OrderSlot /\ NextPair # {}
      /\ StopOf(NextPair) \subseteq NextPair
      /\ \A o \in NextPair : o \in StopOf(NextPair) <=> o \in {"stop2", "stop3"}
  BY DEF NextPair, StopOf, Replacement, OrderSlot, Closing, Protective
<1> HIDE DEF NextPair
<1>2. \/ /\ ord' = [o \in OrderSlot |-> IF o \in NextPair THEN "pending"
                                                          ELSE ord[o]]
         /\ qty' = [o \in Closing |-> IF o \in NextPair THEN n ELSE qty[o]]
         /\ handed' = NextPair /\ pc' = a
      \/ /\ ord' = [o \in OrderSlot |-> IF o \in StopOf(NextPair) THEN "staged"
                                                                ELSE ord[o]]
         /\ qty' = [o \in Closing |-> IF o \in StopOf(NextPair) THEN n
                                                                ELSE qty[o]]
         /\ handed' = {} /\ pc' = b
      \/ handed' = {} /\ pc' = b /\ UNCHANGED <<ord, qty>>
  BY DEF PlacePair
<1> QED  BY <1>1, <1>2 DEF PairPlaced, BrokerShape, Status

LEMMA CallIsEffect == ASSUME BothShape, CallStep PROVE CallEffect
<1>1. /\ BrokerShape /\ Call /\ UNCHANGED passVars
      /\ handed \subseteq Protective /\ Protective \subseteq OrderSlot
      /\ Attached \subseteq Protective /\ Replacement \subseteq Protective
      /\ "entry" \in OrderSlot /\ exposure \in Nat /\ filled \in Nat /\ Qty \in Nat
      /\ pc \in Awaiting \cup Over \cup Sync
      /\ Repair \cap (Attached \cup Replacement \cup {"entry", "exit"}) = {}
      /\ Repair \subseteq OrderSlot /\ faults \subseteq faults'
  BY FaultsGrow
  DEF BothShape, BrokerShape, CallStep, OrderSlot, Closing, Protective,
         Attached, Replacement, Repair
<1> USE DEF Awaiting, Over, Sync
<1>2. ASSUME UNCHANGED <<brokerVars, handed>>, exposure' \in {exposure, filled},
             pc' \in Over \cup Awaiting \cup Sync
      PROVE  CallEffect
  BY <1>1, <1>2 DEF CallEffect, brokerVars, BrokerShape
<1>3. ASSUME UNCHANGED <<ord, filled, qty, pos, exposure, handed>>,
             NEW S \in SUBSET OrderSlot, cancelReq' = cancelReq \cup S,
             pc' \in Over \cup Awaiting \cup Sync
      PROVE  CallEffect
  BY <1>1, <1>3 DEF CallEffect, BrokerShape
<1>4. ASSUME NEW o \in {"entry", "stop1", "exit"}, NEW s \in {"staged", "pending"},
             ord' = [ord EXCEPT ![o] = s], qty' \in [Closing -> Nat],
             UNCHANGED <<filled, pos, cancelReq, exposure, handed>>,
             pc' \in Over \cup Awaiting \cup Sync
      PROVE  CallEffect
  BY <1>1, <1>4 DEF CallEffect, BrokerShape, Status, Attached
<1>5. ASSUME Submission PROVE CallEffect
  <2>1. CASE Refuse
    BY <1>2, <2>1 DEF Refuse, callVars, failureVars
  <2>2. CASE PlaceEntry
    BY <1>1, <1>2, <1>4, <2>2 DEF PlaceEntry, callVars, failureVars,
       brokerVars, BrokerShape
  <2>3. CASE RecordSubmission
    BY <1>2, <2>3 DEF RecordSubmission, failureVars, ProcessEntryStatus,
       ProcessStatus, SaveThen
  <2>4. CASE PlaceStop
    BY <1>1, <1>2, <1>4, <2>4 DEF PlaceStop, callVars, failureVars,
       brokerVars, BrokerShape
  <2>5. CASE PlaceTakeProfit
    <3>1. CASE UNCHANGED <<ord, qty, handed>>
      BY <1>2, <2>5, <3>1 DEF PlaceTakeProfit, brokerVars
    <3>2. CASE /\ ord' = [Moved({"entry", "stop1"}, "pending")
                             EXCEPT !["take1"] = "pending"]
               /\ qty' = [qty EXCEPT !["take1"] = Qty]
               /\ handed' = Attached /\ pc' = "fillWait"
      <4>1. Moved({"entry", "stop1"}, "pending") \in [OrderSlot -> Status]
            /\ \A o \in Repair : Moved({"entry", "stop1"}, "pending")[o] = ord[o]
        BY <1>1 DEF Moved, BrokerShape, Status, Attached
      <4>2. ord' \in [OrderSlot -> Status] /\ \A o \in Repair : ord'[o] = ord[o]
        BY <1>1, <3>2, <4>1 DEF Status, Attached
      <4>3. qty' \in [Closing -> Nat]
        BY <1>1, <3>2 DEF BrokerShape
      <4> QED
        BY <1>1, <2>5, <3>2, <4>2, <4>3
        DEF PlaceTakeProfit, CallEffect, BrokerShape
    <3> QED  BY <2>5, <3>1, <3>2 DEF PlaceTakeProfit
  <2> QED  BY <1>5, <2>1, <2>2, <2>3, <2>4, <2>5 DEF Submission
<1>6. ASSUME EntryWait PROVE CallEffect
  <2>1. CASE EntryFilled \/ EntryEndedPartly \/ EntryEndedUnfilled
             \/ CancelTimeout \/ ConfirmProtection \/ ProtectionLost \/ Poll
    BY <1>1, <1>2, <2>1
    DEF EntryFilled, EntryEndedPartly, EntryEndedUnfilled, CancelTimeout,
        ConfirmProtection, ProtectionLost, Poll, ProcessEntryStatus,
        ProcessStatus, SaveThen, callVars, failureVars
  <2>2. CASE FillTimeoutPartly \/ FillTimeoutUnfilled
    <3>1. \E S \in {{}, {"entry"}} : cancelReq' = cancelReq \cup S
      BY <2>2 DEF FillTimeoutPartly, FillTimeoutUnfilled
    <3>2. /\ UNCHANGED <<ord, filled, qty, pos, exposure, handed>>
          /\ pc' \in Over \cup Awaiting \cup Sync
      BY <2>2
      DEF FillTimeoutPartly, FillTimeoutUnfilled, ProcessStatus, SaveThen,
          failureVars
    <3> QED  BY <1>1, <1>3, <3>1, <3>2
  <2> QED  BY <1>6, <2>1, <2>2 DEF EntryWait
<1>7. ASSUME PartialFill PROVE CallEffect
  <2>1. CASE PartialFillAlert
    <3>1. \E S \in {{}, handed} : cancelReq' = cancelReq \cup S
      BY <2>1 DEF PartialFillAlert
    <3> QED  BY <1>1, <1>3, <2>1, <3>1 DEF PartialFillAlert, Alert
  <2>2. CASE ChildrenCancelled \/ PartialMark \/ PartialStop
    BY <1>2, <2>2
    DEF ChildrenCancelled, PartialMark, PartialStop, SaveThen, StopAndReload,
        callVars, failureVars
  <2>3. CASE PartialPlace
    <3>1. PairPlaced(handed', filled) /\ NextPair \subseteq Replacement
          /\ pc' \in {"partialWait", "failed"}
      BY <1>1, <2>3, PairIsPlaced DEF PartialPlace
    <3> QED
      BY <1>1, <2>3, <3>1 DEF PartialPlace, PairPlaced, CallEffect, BrokerShape
  <2>4. CASE PartialConfirmed \/ PartialLost
    BY <1>1, <2>4
    DEF PartialConfirmed, PartialLost, SaveThen, CallEffect, brokerVars,
        BrokerShape
  <2> QED  BY <1>7, <2>1, <2>2, <2>3, <2>4 DEF PartialFill
<1>8. ASSUME BracketFailure PROVE CallEffect
  <2>1. CASE FailureStatus \/ MarkUnprotected \/ ExposedAlert \/ ExposedStop
             \/ ReplaceConfirmed \/ ReplaceLost \/ ReplaceMark \/ ReplaceAlert
    BY <1>2, <2>1
    DEF FailureStatus, MarkUnprotected, ExposedAlert, ExposedStop,
        ReplaceConfirmed, ReplaceLost, ReplaceMark, ReplaceAlert,
        ProcessEntryStatus, ProcessStatus, SaveThen, StopAndReload, Alert,
        Handled, callVars, failureVars
  <2>2. CASE CancelledBracket
    <3>1. /\ cancelReq' = cancelReq \cup (handed \cup {"entry"})
          /\ handed \cup {"entry"} \in SUBSET OrderSlot
      BY <1>1, <2>2 DEF CancelledBracket
    <3> QED
      BY <1>3, <2>2, <3>1 DEF CancelledBracket, SaveThen, callVars, failureVars
  <2>3. CASE Replace
    <3>1. PairPlaced(handed', exposure) /\ NextPair \subseteq Replacement
          /\ pc' \in {"replaceWait", "exitAlert"}
      BY <1>1, <2>3, PairIsPlaced DEF Replace
    <3> QED
      BY <1>1, <2>3, <3>1 DEF Replace, PairPlaced, CallEffect, BrokerShape
  <2> QED  BY <1>8, <2>1, <2>2, <2>3 DEF BracketFailure
<1>9. ASSUME DefensiveExit PROVE CallEffect
  <2>1. CASE ExitAlert \/ ExitFailed \/ ExitRecord
    BY <1>2, <2>1
    DEF ExitAlert, ExitFailed, ExitRecord, Alert, Handled, SaveThen, callVars,
        failureVars
  <2>2. CASE PlaceExit
    BY <1>1, <1>2, <1>4, <2>2 DEF PlaceExit, callVars, failureVars,
       brokerVars, BrokerShape
  <2> QED  BY <1>9, <2>1, <2>2 DEF DefensiveExit
<1> QED  BY <1>1, <1>5, <1>6, <1>7, <1>8, <1>9 DEF Call

LEMMA BothShapeStep ==
    ASSUME BothShape, [BothNext]_bothVars
    PROVE  /\ BothShape' /\ Keeps(disk, disk')
           /\ StopTried => StopTried'
<1>0. ASSUME Keeps(disk, disk'), faults \subseteq faults'
      PROVE  StopTried => StopTried'
  BY <1>0 DEF Keeps, StopTried
<1>1. CASE CallStep
  <2>1. CallEffect
    BY <1>1, CallIsEffect
  <2>2. StoreShape' /\ Keeps(disk, disk')
    BY <1>1, CallMoves, StoreMovesKeep DEF CallStep, BothShape
  <2> QED
    BY <1>0, <2>1, <2>2 DEF CallEffect, BothShape, PassShape, passVars
<1>2. CASE BrokerStep
  <2>1. UNCHANGED passVars /\ (EntryEvent \/ ClosingEvent)
    BY <1>2 DEF BrokerStep
  <2>2. CASE EntryEvent
    <3>1. PICK n \in 0..Qty : EntryEffect(n)
      BY <2>2, EntryIsEffect
    <3>2. /\ BrokerShape' /\ UNCHANGED <<pc, handed, exposure, cur>>
          /\ faults \subseteq faults'
      BY <2>2, <3>1, EntryIsEffect DEF BrokerEffect, EntryEffect
    <3>3. StoreShape' /\ Keeps(disk, disk')
      BY <2>2, <3>2, EventMoves, StoreMovesKeep DEF EntryEvent, BothShape
    <3>4. exposure \in 0..filled'
      BY <3>1 DEF BothShape, BrokerShape, EntryEffect
    <3> QED
      BY <1>0, <2>1, <3>2, <3>3, <3>4 DEF BothShape, PassShape, passVars
  <2>3. CASE ClosingEvent
    <3>1. /\ BrokerShape' /\ UNCHANGED <<pc, callVars, storeVars, filled>>
          /\ faults \subseteq faults'
      BY <2>3, ClosingIsEffect DEF BrokerEffect
    <3>2. Keeps(disk, disk')
      BY <3>1 DEF storeVars, Keeps
    <3> QED
      BY <1>0, <2>1, <3>1, <3>2
      DEF BothShape, StoreShape, PassShape, passVars, callVars, failureVars,
          storeVars
  <2> QED  BY <2>1, <2>2, <2>3
<1>3. CASE PassStep
  <2>1. PassEffect
    BY <1>3, PassIsEffect
  <2> QED
    BY <1>0, <2>1
    DEF PassEffect, BothShape, BrokerShape, callVars, failureVars
<1>4. CASE ProcessDies
  <2>1. /\ UNCHANGED <<brokerVars, disk, passVars, faults>> /\ pc' = "crashed"
        /\ handed' = {} /\ exposure' = 0 /\ cur' = 1 /\ fresh' = {}
        /\ copy' = [i \in {1, 2} |-> disk] /\ filled \in Nat
    BY <1>4 DEF ProcessDies, Crash, BothShape, BrokerShape
  <2>2. BrokerShape' /\ PassShape' /\ exposure' \in 0..filled'
    BY <2>1 DEF BothShape, BrokerShape, PassShape, brokerVars, passVars
  <2>3. StoreShape' /\ Keeps(disk, disk')
    BY <2>1 DEF BothShape, StoreShape, Keeps
  <2> QED  BY <1>0, <2>1, <2>2, <2>3 DEF BothShape, Over
<1>5. CASE UNCHANGED bothVars
  <2>1. UNCHANGED <<brokerVars, callVars, storeVars, passVars, pc, faults>>
    BY <1>5 DEF bothVars, vars
  <2>2. BothShape'
    BY <2>1
    DEF BothShape, BrokerShape, StoreShape, PassShape, brokerVars, callVars,
        failureVars, storeVars, passVars
  <2> QED  BY <1>0, <2>1, <2>2 DEF storeVars, Keeps
<1> QED  BY <1>1, <1>2, <1>3, <1>4, <1>5 DEF BothNext

----------------------------------------------------------------------------
(* The call's ways.                                                        *)

BeforeBracket == {"idle", "entryPlaced", "placeStop", "placeTake"}
MainPath ==
    BeforeBracket \cup {"fillWait", "cancelWait", "protectionWait", "protected"}
PartialPath == {"partial", "childCancelWait", "partialPlace"}
FailurePath ==
    {"failed", "failedUnfilled", "failedExposed", "exposedAlert",
     "exposedStop", "replace"}
ReplacePath == {"replaceWait", "replaceMark", "replaceAlert", "exitAlert", "exit"}
ExitPath == {"exitWait", "exitFailed"}

\* Where each place was come to from.
LEMMA CallWays ==
    ASSUME Call
    PROVE  /\ pc \notin Over /\ pc' # "idle"
           /\ pc' \in BeforeBracket => PlaceEntry \/ RecordSubmission \/ PlaceStop
           /\ pc' = "fillWait" => PlaceTakeProfit \/ (Poll /\ pc' = pc)
           /\ pc' = "cancelWait" => FillTimeoutPartly \/ (Poll /\ pc' = pc)
           /\ pc' = "protectionWait" => EntryFilled
           /\ pc' = "protected" => ConfirmProtection
           /\ pc' = "failedUnfilled" => FailureStatus
           /\ pc' = "refused" => Refuse
           /\ pc' = "raised" => \/ PlaceEntry \/ CancelledBracket
                                \/ pc \in StoppedAt
                                \/ faults' \cap {"handling", "stop"} # {}
           /\ pc' \in StoppedAt => pc \in StoppedAt \/ PartialStop \/ ExposedStop
           /\ pc' \in PartialPath => \/ pc \in {"fillWait", "cancelWait"}
                                     \/ pc \in PartialPath /\ pc # "partialPlace"
           /\ pc' = "partialWait" => PartialPlace
           /\ pc' = "failed" => \/ pc \in MainPath
                                \/ pc \in {"partial", "childCancelWait"}
                                \/ PartialPlace \/ PartialLost
                                \/ PartialConfirmed /\ "replacement" \in faults'
           /\ pc' \in FailurePath \ {"failed"} => pc \in FailurePath \ {"replace"}
           /\ pc' = "replaceWait" => Replace
           /\ pc' = "exitAlert" => \/ Replace \/ ReplaceLost
                                   \/ "replacement" \in faults'
           /\ pc' = "exit" => ExitAlert
           /\ pc' \in ExitPath => PlaceExit
           /\ pc \in ExitPath => pc' \in Over
           /\ pc = "exit" => pc' \in ExitPath
           /\ pc \in ReplacePath => pc' \in ReplacePath \cup ExitPath \cup Over
           /\ pc' \in MainPath => pc \in MainPath
           /\ pc = "idle" => PlaceEntry \/ Refuse
           /\ pc = "placeStop" => PlaceStop
           /\ pc = "placeTake" => PlaceTakeProfit
           /\ pc = "partialPlace" => PartialPlace
           /\ pc = "replace" => Replace
           /\ pc \in {"partialMark", "exposedAlert"} => PartialMark \/ ExposedAlert
           /\ pc \in {"partialStop", "exposedStop"} => PartialStop \/ ExposedStop
<1> USE DEF BeforeBracket, MainPath, PartialPath, FailurePath, ReplacePath,
            ExitPath, StoppedAt, Over
<1>1. CASE Refuse  BY <1>1 DEF Refuse
<1>2. CASE PlaceEntry  BY <1>2 DEF PlaceEntry
<1>3. CASE RecordSubmission
  BY <1>3 DEF RecordSubmission, ProcessEntryStatus, ProcessStatus, SaveThen
<1>4. CASE PlaceStop  BY <1>4 DEF PlaceStop
<1>5. CASE PlaceTakeProfit  BY <1>5 DEF PlaceTakeProfit
<1>6. CASE Poll  BY <1>6 DEF Poll
<1>7. CASE EntryFilled
  BY <1>7 DEF EntryFilled, ProcessEntryStatus, ProcessStatus, SaveThen
<1>8. CASE EntryEndedPartly
  BY <1>8 DEF EntryEndedPartly, ProcessEntryStatus, ProcessStatus, SaveThen
<1>9. CASE EntryEndedUnfilled  BY <1>9 DEF EntryEndedUnfilled
<1>10. CASE FillTimeoutPartly
  BY <1>10 DEF FillTimeoutPartly, ProcessEntryStatus, ProcessStatus, SaveThen
<1>11. CASE FillTimeoutUnfilled
  BY <1>11 DEF FillTimeoutUnfilled, ProcessEntryStatus, ProcessStatus,
     SaveThen
<1>12. CASE CancelTimeout
  BY <1>12 DEF CancelTimeout, ProcessEntryStatus, ProcessStatus, SaveThen
<1>13. CASE ConfirmProtection
  BY <1>13 DEF ConfirmProtection, SaveThen
<1>14. CASE ProtectionLost  BY <1>14 DEF ProtectionLost
<1>15. CASE PartialFillAlert
  BY <1>15 DEF PartialFillAlert, Alert, StoreFault, NoticeFault, Fault,
     FaultKind
<1>16. CASE ChildrenCancelled  BY <1>16 DEF ChildrenCancelled
<1>17. CASE PartialPlace
  <2>1. pc = "partialPlace" /\ pc' \in {"partialWait", "failed"}
    BY <1>17 DEF PartialPlace, PlacePair
  <2> QED  BY <1>17, <2>1
<1>18. CASE PartialConfirmed
  BY <1>18 DEF PartialConfirmed, SaveThen, StoreFault, NoticeFault, Fault,
     FaultKind
<1>19. CASE PartialLost  BY <1>19 DEF PartialLost
<1>20. CASE PartialMark
  BY <1>20 DEF PartialMark, SaveThen, StoreFault, NoticeFault, Fault,
     FaultKind
<1>21. CASE PartialStop
  BY <1>21 DEF PartialStop, StopAndReload, StoreFault, Fault
<1>22. CASE FailureStatus
  BY <1>22 DEF FailureStatus, ProcessEntryStatus, ProcessStatus, SaveThen,
     StoreFault, NoticeFault, Fault, FaultKind
<1>23. CASE CancelledBracket
  BY <1>23 DEF CancelledBracket, SaveThen
<1>24. CASE MarkUnprotected
  BY <1>24 DEF MarkUnprotected, SaveThen, StoreFault, NoticeFault, Fault,
     FaultKind
<1>25. CASE ExposedAlert
  BY <1>25 DEF ExposedAlert, Alert, StoreFault, NoticeFault, Fault, FaultKind
<1>26. CASE ExposedStop
  BY <1>26 DEF ExposedStop, StopAndReload, StoreFault, Fault
<1>27. CASE Replace
  <2>1. pc = "replace" /\ pc' \in {"replaceWait", "exitAlert"}
    BY <1>27 DEF Replace, PlacePair
  <2> QED  BY <1>27, <2>1
<1>28. CASE ReplaceConfirmed
  BY <1>28 DEF ReplaceConfirmed, SaveThen, StoreFault, NoticeFault, Fault,
     FaultKind
<1>29. CASE ReplaceLost  BY <1>29 DEF ReplaceLost
<1>30. CASE ReplaceMark
  BY <1>30 DEF ReplaceMark, SaveThen, StoreFault, NoticeFault, Fault,
     FaultKind
<1>31. CASE ReplaceAlert
  BY <1>31 DEF ReplaceAlert, Alert, Handled, StoreFault, NoticeFault, Fault,
     FaultKind
<1>32. CASE ExitAlert
  BY <1>32 DEF ExitAlert, Alert
<1>33. CASE PlaceExit  BY <1>33 DEF PlaceExit
<1>34. CASE ExitFailed
  BY <1>34 DEF ExitFailed, SaveThen, Handled
<1>35. CASE ExitRecord
  BY <1>35 DEF ExitRecord, SaveThen, Handled
<1> QED
  BY <1>1, <1>2, <1>3, <1>4, <1>5, <1>6, <1>7, <1>8, <1>9, <1>10, <1>11,
     <1>12, <1>13, <1>14, <1>15, <1>16, <1>17, <1>18, <1>19, <1>20, <1>21,
     <1>22, <1>23, <1>24, <1>25, <1>26, <1>27, <1>28, <1>29, <1>30, <1>31,
     <1>32, <1>33, <1>34, <1>35
  DEF Call, Submission, EntryWait, PartialFill, BracketFailure, DefensiveExit

\* What it changes there.
LEMMA CallOrders ==
    ASSUME BothShape, CallStep
    PROVE  /\ pc \notin {"idle", "placeTake"} => ord'["entry"] = ord["entry"]
           /\ pc \notin {"placeStop", "placeTake"} =>
                 \A o \in Attached : ord'[o] = ord[o] /\ qty'[o] = qty[o]
           /\ pc \notin {"partialPlace", "replace"} =>
                 \A o \in Replacement : ord'[o] = ord[o]
           /\ pc # "exit" => ord'["exit"] = ord["exit"]
           /\ pc \notin {"fillWait", "partial", "failedUnfilled", "replace"} =>
                 cancelReq' = cancelReq
           /\ pc = "fillWait" => cancelReq' \subseteq cancelReq \cup {"entry"}
           /\ pc \notin {"placeTake", "partialPlace", "partialWait", "replace"} =>
                 handed' = handed
<1>1. /\ BrokerShape /\ Call /\ handed \subseteq Protective
      /\ OrderSlot = Attached \cup Replacement \cup Repair \cup {"entry", "exit"}
      /\ Closing = Attached \cup Replacement \cup Repair \cup {"exit"}
      /\ "exit" \notin Attached \cup Replacement
      /\ "entry" \notin Attached \cup Replacement
      /\ Attached \cap Replacement = {}
      /\ exposure \in Nat /\ filled \in Nat
  BY DEF BothShape, BrokerShape, CallStep, OrderSlot, Closing, Protective,
         Attached, Replacement, Repair
<1>2. CASE Refuse \/ RecordSubmission \/ EntryFilled \/ EntryEndedPartly \/ Poll
           \/ EntryEndedUnfilled \/ CancelTimeout \/ ConfirmProtection
           \/ ProtectionLost \/ ChildrenCancelled \/ PartialConfirmed
           \/ PartialLost \/ PartialMark \/ PartialStop \/ FailureStatus
           \/ MarkUnprotected \/ ExposedAlert \/ ExposedStop
  <2>1. UNCHANGED brokerVars /\ (pc # "partialWait" => handed' = handed)
    BY <1>2
    DEF Refuse, RecordSubmission, EntryFilled, EntryEndedPartly,
        EntryEndedUnfilled, CancelTimeout, ConfirmProtection, ProtectionLost,
        ChildrenCancelled, PartialConfirmed, PartialLost, PartialMark,
        PartialStop, FailureStatus, MarkUnprotected, ExposedAlert,
        ExposedStop, Poll, callVars, failureVars
  <2> QED  BY <2>1 DEF brokerVars
<1>3. CASE ReplaceConfirmed \/ ReplaceLost \/ ReplaceMark \/ ReplaceAlert
           \/ ExitAlert \/ ExitFailed \/ ExitRecord
  BY <1>3
  DEF ReplaceConfirmed, ReplaceLost, ReplaceMark, ReplaceAlert, ExitAlert,
      ExitFailed, ExitRecord, callVars, failureVars, brokerVars
<1>4. CASE PlaceEntry
  BY <1>1, <1>4 DEF PlaceEntry, BrokerShape, callVars, failureVars
<1>5. CASE PlaceStop
  BY <1>1, <1>5 DEF PlaceStop, BrokerShape, callVars, failureVars, Attached
<1>6. CASE PlaceTakeProfit
  <2>1. /\ pc = "placeTake" /\ UNCHANGED cancelReq
        /\ \/ UNCHANGED ord
           \/ ord' = [Moved({"entry", "stop1"}, "pending")
                        EXCEPT !["take1"] = "pending"]
    BY <1>6 DEF PlaceTakeProfit
  <2>2. /\ {"entry", "stop1", "take1"} \cap (Replacement \cup {"exit"}) = {}
        /\ DOMAIN Moved({"entry", "stop1"}, "pending") = OrderSlot
        /\ \A o \in OrderSlot \ {"entry", "stop1"} :
              Moved({"entry", "stop1"}, "pending")[o] = ord[o]
    BY <1>1 DEF Moved, Attached, Replacement
  <2>3. \A o \in Replacement \cup {"exit"} : ord'[o] = ord[o]
    BY <1>1, <2>1, <2>2
  <2> QED  BY <2>1, <2>3
<1>7. CASE FillTimeoutPartly \/ FillTimeoutUnfilled
  BY <1>7 DEF FillTimeoutPartly, FillTimeoutUnfilled, failureVars
<1>8. CASE PartialFillAlert \/ CancelledBracket
  BY <1>8 DEF PartialFillAlert, CancelledBracket, callVars, failureVars
<1>9. CASE PartialPlace
  <2>1. PairPlaced(handed', filled) /\ NextPair \subseteq Replacement
    BY <1>1, <1>9, PairIsPlaced DEF PartialPlace
  <2> QED  BY <1>1, <1>9, <2>1 DEF PartialPlace, PairPlaced
<1>10. CASE Replace
  <2>1. PairPlaced(handed', exposure) /\ NextPair \subseteq Replacement
    BY <1>1, <1>10, PairIsPlaced DEF Replace
  <2> QED  BY <1>1, <1>10, <2>1 DEF Replace, PairPlaced
<1>11. CASE PlaceExit
  BY <1>1, <1>11 DEF PlaceExit, BrokerShape, callVars, failureVars
<1> QED
  BY <1>1, <1>2, <1>3, <1>4, <1>5, <1>6, <1>7, <1>8, <1>9, <1>10, <1>11
  DEF Call, Submission, EntryWait, PartialFill, BracketFailure, DefensiveExit

----------------------------------------------------------------------------
(* No exit on top of a replacement.                                        *)

Pair2 == {"stop2", "take2"}
Pair3 == {"stop3", "take3"}
Unplaced(S) == \A o \in S : ord[o] = "none"

\* A replacement in force was not recorded, or not announced.
Spoilt == "replacement" \in faults

PairInv ==
    /\ ord["stop2"] = "none" => ord["take2"] = "none"
    /\ pc \notin Over \cup ExitPath \cup ReplacePath => Unplaced(Pair3)
    /\ pc \in MainPath \cup PartialPath => Unplaced(Pair2)
    /\ pc = "partialWait" => handed = Pair2
    /\ pc \in FailurePath => Spoilt \/ ~AllLive(Pair2)
    /\ pc = "replaceWait" => \/ handed = Pair2 /\ Unplaced(Pair3)
                             \/ handed = Pair3 /\ (Spoilt \/ ~AllLive(Pair2))
    /\ pc \in {"exitAlert", "exit"} =>
          Spoilt \/ (~AllLive(Pair2) /\ ~AllLive(Pair3))

LEMMA PairPlacement ==
    ASSUME NEW n, PairPlaced(handed', n), ord["stop2"] = "none" => Unplaced(Pair2),
           Unplaced(Pair3), Spoilt \/ ~AllLive(Pair2)
    PROVE  /\ ord'["stop2"] = "none" => ord'["take2"] = "none"
           /\ \/ /\ handed' = {}
                 /\ Spoilt \/ (~AllLive(Pair2)' /\ ~AllLive(Pair3)')
              \/ handed' = Pair2 /\ Unplaced(Pair3)'
              \/ handed' = Pair3 /\ (Spoilt \/ ~AllLive(Pair2)')
           /\ ord["stop2"] = "none" =>
                 /\ handed' \in {{}, Pair2} /\ Unplaced(Pair3)'
                 /\ handed' = {} => ~AllLive(Pair2)'
<1>1. /\ "stop2" \in OrderSlot /\ "take2" \in OrderSlot /\ "stop3" \in OrderSlot
      /\ "take3" \in OrderSlot
  BY DEF OrderSlot, Closing, Protective, Replacement
<1>2. CASE ord["stop2"] = "none"
  BY <1>1, <1>2
  DEF PairPlaced, NextPair, Pair2, Pair3, Unplaced, AllLive, Live
<1>3. CASE ord["stop2"] # "none"
  BY <1>1, <1>3
  DEF PairPlaced, NextPair, Pair2, Pair3, Unplaced, AllLive, Live
<1> QED  BY <1>2, <1>3

LEMMA PairInvCall ==
    ASSUME BothShape, PairInv, CallStep PROVE PairInv'
<1>1. /\ Call /\ BrokerShape /\ Pair2 \subseteq Replacement
      /\ Pair3 \subseteq Replacement /\ Pair2 # {} /\ Pair3 # {}
      /\ "stop2" \in Pair2 /\ "take2" \in Pair2
      /\ exposure \in Nat /\ filled \in Nat /\ (Spoilt => Spoilt')
  BY FaultsGrow
  DEF CallStep, BothShape, BrokerShape, Pair2, Pair3, Replacement, Spoilt
<1>2. \A S : S # {} /\ Unplaced(S) => ~AllLive(S)
  BY DEF Unplaced, AllLive, Live
<1>3. CASE pc = "partialPlace"
  <2>1. PairPlaced(handed', filled) /\ (handed' = {} => pc' = "failed")
        /\ (handed' # {} => pc' = "partialWait")
    <3>1. PartialPlace
      BY <1>1, <1>3, CallWays
    <3> QED  BY <1>1, <3>1, PairIsPlaced DEF PartialPlace
  <2>2. Unplaced(Pair2) /\ Unplaced(Pair3) /\ ord["stop2"] = "none"
    BY <1>1, <1>3 DEF PairInv, PartialPath, Over, ExitPath, ReplacePath, Unplaced
  <2>3. /\ ord'["stop2"] = "none" => ord'["take2"] = "none"
        /\ handed' \in {{}, Pair2} /\ Unplaced(Pair3)'
        /\ handed' = {} => ~AllLive(Pair2)'
    BY <1>1, <1>2, <2>1, <2>2, PairPlacement
  <2> QED
    BY <1>1, <2>1, <2>3
    DEF PairInv, MainPath, BeforeBracket, PartialPath, FailurePath
<1>4. CASE pc = "replace"
  <2>1. PairPlaced(handed', exposure) /\ (handed' = {} => pc' = "exitAlert")
        /\ (handed' # {} => pc' = "replaceWait")
    <3>1. Replace
      BY <1>1, <1>4, CallWays
    <3> QED  BY <1>1, <3>1, PairIsPlaced DEF Replace
  <2>2. /\ Spoilt \/ ~AllLive(Pair2)
        /\ Unplaced(Pair3)
        /\ ord["stop2"] = "none" => Unplaced(Pair2)
    BY <1>4
    DEF PairInv, FailurePath, Over, ExitPath, ReplacePath, Unplaced, Pair2
  <2>3. /\ ord'["stop2"] = "none" => ord'["take2"] = "none"
        /\ \/ /\ handed' = {}
              /\ Spoilt \/ (~AllLive(Pair2)' /\ ~AllLive(Pair3)')
           \/ handed' = Pair2 /\ Unplaced(Pair3)'
           \/ handed' = Pair3 /\ (Spoilt \/ ~AllLive(Pair2)')
    BY <2>1, <2>2, PairPlacement
  <2> QED
    BY <1>1, <2>1, <2>3
    DEF PairInv, MainPath, BeforeBracket, PartialPath, FailurePath, ReplacePath
<1>5. CASE pc \notin {"partialPlace", "replace"}
  <2>1. \A o \in Pair2 \cup Pair3 : ord'[o] = ord[o]
    BY <1>1, <1>5, CallOrders
  <2>2. /\ Unplaced(Pair2)' <=> Unplaced(Pair2)
        /\ Unplaced(Pair3)' <=> Unplaced(Pair3)
        /\ AllLive(Pair2)' <=> AllLive(Pair2)
        /\ AllLive(Pair3)' <=> AllLive(Pair3)
        /\ ord'["stop2"] = ord["stop2"] /\ ord'["take2"] = ord["take2"]
    BY <1>1, <2>1 DEF Unplaced, AllLive
  <2>3. pc' \notin Over \cup ExitPath \cup ReplacePath => Unplaced(Pair3)'
    BY <1>1, <2>2, CallWays DEF PairInv
  <2>4. pc' \in MainPath \cup PartialPath => Unplaced(Pair2)'
    BY <1>1, <2>2, CallWays DEF PairInv, MainPath
  <2>5. pc' \in FailurePath => Spoilt' \/ ~AllLive(Pair2)'
    <3>1. CASE pc' = "failed"
      <4>1. \/ pc \in MainPath \cup PartialPath
            \/ pc = "partialWait" /\ ~AllLive(handed)
            \/ Spoilt'
        BY <1>1, <1>5, <3>1, CallWays
        DEF PartialPath, PartialPlace, PartialLost, Spoilt
      <4> QED  BY <1>1, <1>2, <2>2, <4>1 DEF PairInv
    <3> QED  BY <1>1, <2>2, <3>1, CallWays DEF PairInv
  <2>6. pc' \in {"exitAlert", "exit"} =>
           Spoilt' \/ (~AllLive(Pair2)' /\ ~AllLive(Pair3)')
    <3>1. CASE pc' = "exitAlert"
      <4>1. (pc = "replaceWait" /\ ~AllLive(handed)) \/ Spoilt'
        BY <1>1, <1>5, <3>1, CallWays DEF Replace, ReplaceLost, Spoilt
      <4> QED  BY <1>1, <1>2, <2>2, <4>1 DEF PairInv
    <3>2. CASE pc' = "exit"
      BY <1>1, <2>2, <3>2, CallWays DEF PairInv, ExitAlert
    <3> QED  BY <3>1, <3>2
  <2>7. pc' # "partialWait" /\ pc' # "replaceWait"
    BY <1>1, <1>5, CallWays DEF PartialPlace, Replace
  <2> QED
    BY <2>2, <2>3, <2>4, <2>5, <2>6, <2>7 DEF PairInv
<1> QED  BY <1>3, <1>4, <1>5

LEMMA PairInvStep ==
    ASSUME BothShape, PairInv, [BothNext]_bothVars
    PROVE  PairInv'
<1>1. /\ Pair2 \subseteq Replacement /\ Pair3 \subseteq Replacement
      /\ "stop2" \in Pair2 /\ "take2" \in Pair2
      /\ Replacement \subseteq Closing /\ Replacement \subseteq OrderSlot \ Repair
  BY DEF Pair2, Pair3, Replacement, Repair, OrderSlot, Closing, Protective
<1>2. ASSUME (pc' = pc /\ handed' = handed) \/ pc' = "crashed",
             Spoilt => Spoilt',
             \A o \in Replacement : /\ ord[o] = "none" <=> ord'[o] = "none"
                                    /\ ord'[o] \in Live => ord[o] \in Live
      PROVE  PairInv'
  <2>1. /\ Unplaced(Pair2)' <=> Unplaced(Pair2)
        /\ Unplaced(Pair3)' <=> Unplaced(Pair3)
        /\ AllLive(Pair2)' => AllLive(Pair2)
        /\ AllLive(Pair3)' => AllLive(Pair3)
    BY <1>1, <1>2 DEF Unplaced, AllLive
  <2>2. ord'["stop2"] = "none" => ord'["take2"] = "none"
    BY <1>1, <1>2 DEF PairInv
  <2>3. CASE pc' = pc
    BY <1>2, <2>1, <2>2, <2>3 DEF PairInv
  <2>4. CASE pc' = "crashed"
    BY <2>2, <2>4
    DEF PairInv, Over, MainPath, BeforeBracket, PartialPath, FailurePath
  <2> QED  BY <1>2, <2>3, <2>4
<1>3. CASE CallStep
  BY <1>3, PairInvCall
<1>4. CASE BrokerStep
  <2>1. BrokerEffect /\ UNCHANGED <<pc, handed>> /\ (Spoilt => Spoilt')
    BY <1>4, EntryIsEffect, ClosingIsEffect
    DEF BrokerStep, EntryEvent, ClosingEvent, callVars, failureVars, Spoilt
  <2> QED  BY <1>1, <1>2, <2>1 DEF BrokerEffect, NoRevival
<1>5. CASE PassStep
  <2>1. PassEffect
    BY <1>5, PassIsEffect
  <2> QED  BY <1>1, <1>2, <2>1 DEF PassEffect, callVars, failureVars, Spoilt
<1>6. CASE ProcessDies \/ UNCHANGED bothVars
  BY <1>2, <1>6
  DEF ProcessDies, Crash, brokerVars, callVars, failureVars, bothVars, vars,
      Spoilt
<1> QED  BY <1>3, <1>4, <1>5, <1>6 DEF BothNext

LEMMA ExitReplacesNothing ==
    ASSUME PairInv, PlaceExit
    PROVE  \/ ~\E pair \in Pairs \ {Attached} : AllLive(pair)
           \/ "replacement" \in faults
  BY DEF PairInv, PlaceExit, Pairs, Pair2, Pair3, Spoilt

----------------------------------------------------------------------------
(* No repair beside the call, unless trading was stopped.                  *)

StopInv == pc \in StoppedAt => StopTried

LEMMA StopInvStep ==
    ASSUME BothShape, StopInv, [BothNext]_bothVars PROVE StopInv'
<1>1. StopTried => StopTried'
  BY BothShapeStep
<1>2. CASE CallStep
  <2>1. PartialStop \/ ExposedStop => StopTried'
    BY StopMoves DEF BothShape, PartialStop, ExposedStop
  <2>2. pc' \in StoppedAt => pc \in StoppedAt \/ PartialStop \/ ExposedStop
    BY <1>2, CallWays DEF CallStep
  <2> QED  BY <1>1, <2>1, <2>2 DEF StopInv
<1>3. CASE BrokerStep \/ PassStep \/ UNCHANGED bothVars
  <2>1. pc' = pc
    BY <1>3
    DEF BrokerStep, EntryEvent, ClosingEvent, PassStep, bothVars, vars
  <2> QED  BY <1>1, <2>1 DEF StopInv
<1>4. CASE ProcessDies
  BY <1>4 DEF ProcessDies, Crash, StopInv, StoppedAt
<1> QED  BY <1>2, <1>3, <1>4 DEF BothNext

\* The price of the protective stop is in the trade: before that the monitor
\* has nothing to judge a snapshot by.
Priced(s) == "product_stop_price" \in DOMAIN s.trade

Unpriced == ~Priced(disk) /\ \A i \in {1, 2} : ~Priced(copy[i])

\* The call on its way to the emergency stop, or to its end.
Marked ==
    {"partialMark", "partialStop", "failed", "failedUnfilled",
     "failedExposed", "exposedAlert", "exposedStop"}

PriceInv ==
    /\ mpc = "place" => Priced(held)
    /\ \/ StopTried
       \/ pc \in Over \cup Marked
       \/ Unpriced /\ (mpc \notin Watch!Idle => ~Priced(held))

LEMMA SavePrices ==
    ASSUME StoreShape, Unpriced, NEW i \in {1, 2}, NEW new, ~Priced(new),
           SaveRaises(i, new)
    PROVE  Unpriced'
<1>1. ~Priced(MergeConcurrentState(disk, new))
  BY DEF Unpriced, Priced, MergeConcurrentState, MergeActiveTrade, Overlay
<1>2. /\ disk' \in {disk, new, MergeConcurrentState(disk, new)}
      /\ \A j \in {1, 2} : copy'[j] \in {copy[j], new}
  BY DEF SaveRaises, SaveAs, Saved, StoreShape
<1> QED  BY <1>1, <1>2 DEF Unpriced

LEMMA StatusUnpriced ==
    ASSUME NEW s, Shape(s), NEW status PROVE ~Priced(StatusRecorded(s, status))
  BY DEF Shape, BlankState, Priced, StatusRecorded, Payload

\* The call records the price only where it has protection in hand, or has
\* met a failure.
LEMMA CallPrices ==
    ASSUME StoreShape, Unpriced, Call, pc \notin StoppedAt
    PROVE  Unpriced' \/ StopTried' \/ pc' \in Over \cup Marked
<1> DEFINE s == copy[cur]
<1>1. cur \in {1, 2} /\ Shape(s) /\ ~Priced(s)
  BY DEF StoreShape, Unpriced
<1>2. UNCHANGED storeVars => Unpriced'
  BY DEF storeVars, Unpriced
<1>3. CASE RecordSubmission \/ EntryFilled \/ EntryEndedPartly
           \/ FillTimeoutPartly \/ FillTimeoutUnfilled \/ CancelTimeout
           \/ FailureStatus
  <2>1. (\E status : SaveRaises(cur, StatusRecorded(s, status)))
        \/ UNCHANGED storeVars
    BY <1>3
    DEF RecordSubmission, EntryFilled, EntryEndedPartly, FillTimeoutPartly,
        FillTimeoutUnfilled, CancelTimeout, FailureStatus, ProcessEntryStatus,
        ProcessStatus, SaveThen, SaveRaises
  <2> QED  BY <1>1, <1>2, <2>1, SavePrices, StatusUnpriced
<1>4. CASE ConfirmProtection \/ PartialConfirmed \/ PartialMark
           \/ MarkUnprotected \/ CancelledBracket
  BY <1>4
  DEF ConfirmProtection, PartialConfirmed, PartialMark, MarkUnprotected,
      CancelledBracket, SaveThen, Over, Marked
<1>5. CASE ReplaceConfirmed \/ ReplaceMark \/ ExitFailed \/ ExitRecord
  BY <1>5 DEF ReplaceConfirmed, ReplaceMark, ExitFailed, ExitRecord, StoppedAt
<1>6. CASE PartialStop \/ ExposedStop
  BY <1>6, StopMoves DEF PartialStop, ExposedStop
<1>7. CASE Refuse \/ PlaceEntry \/ PlaceStop \/ PlaceTakeProfit \/ Poll
           \/ EntryEndedUnfilled \/ ProtectionLost \/ PartialFillAlert
           \/ ChildrenCancelled \/ PartialPlace \/ PartialLost
           \/ ExposedAlert \/ Replace \/ ReplaceLost \/ ReplaceAlert
           \/ ExitAlert \/ PlaceExit
  <2>1. UNCHANGED storeVars
    BY <1>7
    DEF Refuse, PlaceEntry, PlaceStop, PlaceTakeProfit, Poll,
        EntryEndedUnfilled, ProtectionLost, PartialFillAlert,
        ChildrenCancelled, PartialPlace, PartialLost, ExposedAlert, Replace,
        ReplaceLost, ReplaceAlert, ExitAlert, PlaceExit
  <2> QED  BY <1>2, <2>1
<1> QED
  BY <1>3, <1>4, <1>5, <1>6, <1>7
  DEF Call, Submission, EntryWait, PartialFill, BracketFailure, DefensiveExit

\* From there it goes to the emergency stop, or ends.
LEMMA MarkedWays ==
    ASSUME Call, StoreShape, pc \in Marked
    PROVE  StopTried' \/ pc' \in Over \cup Marked
<1>1. CASE PartialStop \/ ExposedStop
  BY <1>1, StopMoves DEF PartialStop, ExposedStop
<1>2. CASE PartialMark \/ ExposedAlert \/ FailureStatus \/ CancelledBracket
           \/ MarkUnprotected
  BY <1>2
  DEF PartialMark, ExposedAlert, FailureStatus, CancelledBracket,
      MarkUnprotected, ProcessEntryStatus, ProcessStatus, SaveThen, Alert,
      Marked, Over
<1>3. CASE Submission \/ EntryWait \/ DefensiveExit
  BY <1>3
  DEF Submission, EntryWait, DefensiveExit, Refuse, PlaceEntry,
      RecordSubmission, PlaceStop, PlaceTakeProfit, Poll, EntryFilled,
      EntryEndedPartly, EntryEndedUnfilled, FillTimeoutPartly,
      FillTimeoutUnfilled, CancelTimeout, ConfirmProtection, ProtectionLost,
      ExitAlert, PlaceExit, ExitFailed, ExitRecord, Marked
<1>4. CASE PartialFillAlert \/ ChildrenCancelled \/ PartialPlace
           \/ PartialConfirmed \/ PartialLost \/ Replace
           \/ ReplaceConfirmed \/ ReplaceLost \/ ReplaceMark \/ ReplaceAlert
  BY <1>4
  DEF PartialFillAlert, ChildrenCancelled, PartialPlace, PartialConfirmed,
      PartialLost, Replace, ReplaceConfirmed, ReplaceLost, ReplaceMark,
      ReplaceAlert, Marked
<1> QED
  BY <1>1, <1>2, <1>3, <1>4 DEF Call, PartialFill, BracketFailure

LEMMA PassPrices == ASSUME BothShape, PriceInv, PassStep PROVE PriceInv'
<1>1. /\ Watch!Monitor /\ UNCHANGED <<copy, pc>> /\ (StopTried => StopTried')
      /\ StoreShape /\ DOMAIN disk = {"candle", "signal", "trade", "orders", "estop"}
  BY PassIsEffect DEF PassStep, PassEffect, BothShape, StoreShape, Shape,
                      BlankState, Keeps, StopTried
<1>2. ASSUME mpc' \in Watch!Idle, disk' = disk \/ disk'.estop
      PROVE  PriceInv'
  BY <1>1, <1>2 DEF PriceInv, Unpriced, StopTried, Watch!Idle
<1>3. CASE Watch!QuoteFails \/ Watch!SnapshotFails \/ Watch!MissingWithoutFill
           \/ Watch!StillMissing \/ Watch!NotConfirmed \/ Watch!PlaceFails
  <2>1. Watch!Escalate
    BY <1>3
    DEF Watch!QuoteFails, Watch!SnapshotFails, Watch!MissingWithoutFill,
        Watch!StillMissing, Watch!NotConfirmed, Watch!PlaceFails
  <2>2. Watch!Stopped.estop
    BY <1>1, SameNames DEF Watch!Stopped, WithTrade
  <2> QED  BY <1>1, <1>2, <2>1, <2>2, EscalateMoves
<1>4. CASE Watch!StartPass \/ Watch!ReadPositions \/ Watch!ReadOrders
           \/ Watch!Confirmed
  <2>1. /\ UNCHANGED disk /\ mpc' # "place"
        /\ held' = disk \/ (held' = held /\ mpc \notin Watch!Idle)
    BY <1>4
    DEF Watch!StartPass, Watch!ReadPositions, Watch!ReadOrders,
        Watch!Confirmed, Watch!Idle
  <2> QED  BY <1>1, <2>1 DEF PriceInv, Unpriced
<1>5. CASE Watch!LoadFails \/ Watch!PricesUnknown
  BY <1>2, <1>5 DEF Watch!LoadFails, Watch!PricesUnknown, Watch!Idle
<1>6. CASE Watch!QuoteRecorded
  <2>1. /\ disk' \in {disk, WithTrade(disk, [monitor_last_bid |-> TRUE])}
        /\ held' = disk' /\ mpc' \in {"positions", "lost"}
    BY <1>6, SameNames, TransactMoves DEF Watch!QuoteRecorded
  <2>2. ~Priced(disk) => ~Priced(disk')
    BY <1>1, <2>1 DEF Priced, WithTrade, Overlay
  <2> QED  BY <1>1, <2>1, <2>2 DEF PriceInv, Unpriced
<1>7. CASE Watch!ClosedByProtection \/ Watch!RepairRecorded
  <2>1. mpc' \in Watch!Idle
    BY <1>7, TransactMoves
    DEF Watch!ClosedByProtection, Watch!RepairRecorded, Watch!AfterNotice,
        Watch!Idle
  <2>2. ~Priced(disk) => ~Priced(disk')
    <3>1. CASE Watch!ClosedByProtection
      <4>1. disk' \in {disk, [disk EXCEPT !.trade = NoTrade]}
        BY <3>1, SameNames, TransactMoves DEF Watch!ClosedByProtection
      <4> QED  BY <1>1, <4>1 DEF Priced, NoTrade
    <3>2. CASE Watch!RepairRecorded
      <4>1. PICK S : disk' \in {disk, [disk EXCEPT !.trade =
                   Watch!Without(Watch!Overlay(@,
                       [protective_orders_confirmed |-> TRUE,
                        protective_orders |-> S]),
                       "protective_resubmit_issue_key")]}
        BY <3>2, TransactMoves DEF Watch!RepairRecorded
      <4> QED
        BY <1>1, <4>1 DEF Priced, Watch!Without, Watch!Overlay
    <3> QED  BY <1>7, <3>1, <3>2
  <2> QED  BY <1>1, <2>1, <2>2 DEF PriceInv, Unpriced, Watch!Idle
<1>8. CASE Watch!ProtectionWhole \/ Watch!MarkResubmit \/ Watch!PlaceRepair
  <2>1. Priced(held) /\ mpc \notin Watch!Idle
    BY <1>8
    DEF Watch!ProtectionWhole, Watch!MarkResubmit, Watch!PlaceRepair,
        Watch!Judging, PriceInv, Priced, Watch!Idle
  <2>2. mpc' = "place" => Priced(held')
    <3>1. CASE Watch!MarkResubmit
      <4>1. /\ held' = disk'
            /\ mpc' # "lost" => disk' = WithTrade(disk, Watch!Overlay(held.trade,
                [protective_resubmit_issue_key |-> Watch!Missing(sawLive)]))
        BY <3>1, SameNames, TransactMoves DEF Watch!MarkResubmit
      <4> QED
        BY <1>1, <2>1, <4>1 DEF Priced, WithTrade, Overlay, Watch!Overlay
    <3>2. CASE Watch!ProtectionWhole
      <4>1. mpc' \in {"sleep", "lost"}
        BY <3>2 DEF Watch!ProtectionWhole, Watch!Transact
      <4> QED  BY <4>1
    <3> QED
      BY <1>8, <3>1, <3>2 DEF Watch!PlaceRepair
  <2> QED  BY <1>1, <2>1, <2>2 DEF PriceInv
<1> QED
  BY <1>1, <1>3, <1>4, <1>5, <1>6, <1>7, <1>8 DEF Watch!Monitor

LEMMA PriceInvStep ==
    ASSUME BothShape, StopInv, PriceInv, [BothNext]_bothVars PROVE PriceInv'
<1>1. StopTried => StopTried'
  BY BothShapeStep
<1>2. CASE CallStep
  <2>1. Call /\ UNCHANGED <<mpc, held>> /\ pc \notin Over /\ StoreShape
    BY <1>2, CallWays DEF CallStep, passVars, BothShape
  <2>2. pc \in StoppedAt => StopTried
    BY DEF StopInv
  <2> QED
    BY <1>1, <2>1, <2>2, CallPrices, MarkedWays DEF PriceInv
<1>3. CASE BrokerStep
  <2>1. UNCHANGED <<pc, mpc, held>>
    BY <1>3 DEF BrokerStep, EntryEvent, ClosingEvent, passVars
  <2>2. Unpriced => Unpriced'
    <3>1. CASE ClosingEvent \/ UNCHANGED storeVars
      BY <3>1 DEF ClosingEvent, storeVars, Unpriced
    <3>2. CASE EntryEvent
      <4>1. \/ SaveRaises(1, StatusRecorded(copy[1], EventKey'))
            \/ UNCHANGED storeVars
        BY <3>2 DEF EntryEvent, HandleEntryEvent, SaveRaises
      <4>2. StoreShape /\ ~Priced(StatusRecorded(copy[1], EventKey'))
        BY StatusUnpriced DEF BothShape, StoreShape
      <4> QED  BY <3>1, <4>1, <4>2, SavePrices
    <3> QED  BY <1>3, <3>1, <3>2 DEF BrokerStep
  <2> QED  BY <1>1, <2>1, <2>2 DEF PriceInv
<1>4. CASE PassStep
  BY <1>4, PassPrices
<1>5. CASE ProcessDies
  BY <1>5 DEF ProcessDies, Crash, passVars, PriceInv, Over
<1>6. CASE UNCHANGED bothVars
  BY <1>1, <1>6 DEF bothVars, vars, storeVars, passVars, PriceInv, Unpriced
<1> QED  BY <1>2, <1>3, <1>4, <1>5, <1>6 DEF BothNext

\* Only a pass places a repair.
LEMMA RepairMeansStop ==
    ASSUME BothShape, PriceInv, [BothNext]_bothVars, Watch!PlaceRepair
    PROVE  pc \notin Over => disk.estop \/ "stop" \in faults
<1>1. mpc = "place" /\ mpc' = "confirm"
  BY DEF Watch!PlaceRepair
<1>2. PassStep
  BY <1>1
  DEF BothNext, CallStep, BrokerStep, ProcessDies, bothVars, passVars
<1> QED
  BY <1>1, <1>2 DEF PassStep, PriceInv, Marked, Awaiting, Over, StopTried,
     Watch!Idle

----------------------------------------------------------------------------
(* No exposure without protection or a stop.                               *)

\* What the monitor knows of the attached orders: before the bracket is sent
\* it has nothing to watch, later it repairs only what it has not seen live.
WatchInv ==
    /\ pc \in BeforeBracket =>
          /\ mpc \in Watch!Idle /\ ~Watch!Monitorable(disk.trade) /\ filled = 0
          /\ ord["entry"] \notin {"pending", "active", "filled"}
          /\ \A o \in Repair : ord[o] = "none"
    /\ mpc \in {"executions", "place"} =>
          \A o \in Attached : ord[o] \in Live => o \in sawLive
    /\ \A o \in Repair : ord[o] \in Live => ord[Mate(o)] \notin Live

\* A trade saved with nothing filled is not one to monitor.
LEMMA SavedUnfilled ==
    ASSUME StoreShape, NEW i \in {1, 2}, NEW new, NEW st,
           new.trade = Payload(st, 0), SaveRaises(i, new),
           ~Watch!Monitorable(disk.trade)
    PROVE  ~Watch!Monitorable(disk'.trade)
<1>1. new.trade # NoTrade /\ "filled" \in DOMAIN new.trade /\ new.trade.filled = 0
  <2>1. "filled" \in DOMAIN new.trade /\ new.trade.filled = 0
    BY DEF Payload
  <2> QED  BY <2>1 DEF NoTrade
<1>2. MergeConcurrentState(disk, new).trade \in
         {new.trade, Overlay(disk.trade, new.trade)}
  BY <1>1 DEF MergeConcurrentState, MergeActiveTrade
<1>3. CASE disk'.trade \in {new.trade, Overlay(disk.trade, new.trade)}
  <2>1. disk'.trade.filled = 0
    BY <1>1, <1>3 DEF Overlay
  <2> QED  BY <2>1 DEF Watch!Monitorable
<1>4. CASE disk' = disk
  BY <1>4
<1> QED  BY <1>2, <1>3, <1>4 DEF SaveRaises, SaveAs, Saved

LEMMA WatchInvCall == ASSUME BothShape, WatchInv, CallStep PROVE WatchInv'
<1>1. /\ CallEffect /\ Call /\ UNCHANGED <<mpc, sawLive>> /\ StoreShape
      /\ BrokerShape /\ "entry" \in OrderSlot
  BY CallIsEffect DEF CallStep, CallEffect, passVars, BothShape, OrderSlot
<1>2. ASSUME pc' \in BeforeBracket
      PROVE  /\ mpc' \in Watch!Idle /\ ~Watch!Monitorable(disk'.trade)
             /\ filled' = 0
             /\ ord'["entry"] \notin {"pending", "active", "filled"}
             /\ \A o \in Repair : ord'[o] = "none"
  <2>1. PlaceEntry \/ RecordSubmission \/ PlaceStop
    BY <1>1, <1>2, CallWays
  <2>2. pc \in BeforeBracket
    BY <2>1 DEF PlaceEntry, RecordSubmission, PlaceStop, BeforeBracket
  <2>3. ord'["entry"] \in {ord["entry"], "staged"}
    BY <1>1, <2>1, CallOrders DEF PlaceEntry, RecordSubmission, PlaceStop,
       BrokerShape
  <2>4. ~Watch!Monitorable(disk'.trade)
    <3>1. CASE PlaceEntry \/ PlaceStop
      BY <2>2, <3>1 DEF PlaceEntry, PlaceStop, storeVars, WatchInv
    <3>2. CASE RecordSubmission
      <4>1. cur \in {1, 2} /\ SaveRaises(cur, StatusRecorded(copy[cur], EventKey))
        BY <1>1, <3>2
        DEF RecordSubmission, ProcessEntryStatus, ProcessStatus, SaveThen,
            SaveRaises, StoreShape
      <4>2. StatusRecorded(copy[cur], EventKey).trade = Payload(Seen("entry"), 0)
        BY <1>1, <2>2, <4>1
        DEF StoreShape, Shape, BlankState, StatusRecorded, EventKey, WatchInv
      <4> QED  BY <1>1, <2>2, <4>1, <4>2, SavedUnfilled DEF WatchInv
    <3> QED  BY <2>1, <3>1, <3>2
  <2> QED  BY <1>1, <2>2, <2>3, <2>4 DEF WatchInv, CallEffect
<1>3. CASE pc \in {"placeStop", "placeTake"}
  <2>1. mpc' \in Watch!Idle /\ \A o \in Repair : ord'[o] = "none"
    BY <1>1, <1>3 DEF WatchInv, BeforeBracket, CallEffect
  <2> QED  BY <1>2, <2>1 DEF WatchInv, Live, Watch!Idle
<1>4. CASE pc \notin {"placeStop", "placeTake"}
  <2>1. /\ \A o \in Attached : ord'[o] = ord[o]
        /\ \A o \in Repair : ord'[o] = ord[o] /\ Mate(o) \in Attached
    BY <1>1, <1>4, CallOrders DEF CallEffect, Mate, Attached
  <2> QED  BY <1>1, <1>2, <2>1 DEF WatchInv
<1> QED  BY <1>3, <1>4

LEMMA WatchInvBroker == ASSUME BothShape, WatchInv, BrokerStep PROVE WatchInv'
<1>1. /\ UNCHANGED <<pc, mpc, sawLive>> /\ BrokerEffect
      /\ Attached \subseteq Closing /\ Repair \subseteq Closing
      /\ \A o \in Repair : Mate(o) \in Attached
  BY EntryIsEffect, ClosingIsEffect
  DEF BrokerStep, EntryEvent, ClosingEvent, passVars, Attached, Repair,
      Closing, Protective, Mate
<1>2. ASSUME pc \in BeforeBracket
      PROVE  /\ ~Watch!Monitorable(disk'.trade) /\ filled' = 0
             /\ ord'["entry"] \notin {"pending", "active", "filled"}
  <2>1. CASE EntryEvent
    <3>1. PICK n \in 0..Qty : EntryEffect(n)
      BY <2>1, EntryIsEffect
    <3>2. /\ filled' = 0 /\ ord["entry"] = "staged"
          /\ ord'["entry"] \notin {"pending", "active", "filled"}
      BY <1>2, <3>1 DEF EntryEffect, WatchInv
    <3>3. ~Watch!Monitorable(disk'.trade)
      <4>1. CASE UNCHANGED storeVars
        BY <1>2, <4>1 DEF storeVars, WatchInv
      <4>2. CASE SaveRaises(1, StatusRecorded(copy[1], EventKey'))
        <5>1. /\ StoreShape /\ 1 \in {1, 2}
              /\ StatusRecorded(copy[1], EventKey').trade = Payload(EventKey'[1], 0)
          BY <3>2
          DEF BothShape, StoreShape, Shape, BlankState, StatusRecorded, EventKey
        <5> QED  BY <1>2, <4>2, <5>1, SavedUnfilled DEF WatchInv
      <4> QED
        BY <2>1, <4>1, <4>2 DEF EntryEvent, HandleEntryEvent, SaveRaises
    <3> QED  BY <3>2, <3>3
  <2>2. CASE ClosingEvent
    BY <1>2, <2>2, ClosingIsEffect DEF WatchInv, storeVars
  <2> QED  BY <2>1, <2>2 DEF BrokerStep
<1> QED  BY <1>1, <1>2 DEF WatchInv, BrokerEffect, NoRevival

\* A repair is placed only where the snapshot has shown the mate not live.
LEMMA RepairsMissing ==
    ASSUME NEW k \in Watch!Missing(sawLive)
    PROVE  Mate(Watch!RepairOf(k)) \notin sawLive
  BY DEF Watch!Missing, Watch!Kind, Watch!Orders, Watch!RepairOf, Mate

LEMMA WatchInvPass == ASSUME BothShape, WatchInv, PassStep PROVE WatchInv'
<1>1. /\ PassEffect /\ Watch!Monitor /\ BrokerShape
      /\ Attached \subseteq OrderSlot \ Repair /\ Repair \subseteq OrderSlot
      /\ \A o \in Repair : Mate(o) \in Attached
  BY PassIsEffect
  DEF PassStep, BothShape, Attached, Repair, OrderSlot, Closing, Protective,
      Mate
<1>2. \A o \in Attached : ord'[o] = ord[o]
  BY <1>1 DEF PassEffect
<1>3. /\ pc' = pc /\ UNCHANGED filled
      /\ pc \in BeforeBracket =>
            mpc' \in Watch!Idle /\ UNCHANGED disk /\ ord' = ord
  <2>1. mpc \in Watch!Idle /\ ~Watch!Monitorable(disk.trade) => Watch!LoadFails
    BY <1>1
    DEF Watch!Monitor, Watch!StartPass, Watch!QuoteFails, Watch!QuoteRecorded,
        Watch!ReadPositions, Watch!ReadOrders, Watch!SnapshotFails,
        Watch!ClosedByProtection, Watch!MissingWithoutFill,
        Watch!PricesUnknown, Watch!ProtectionWhole, Watch!StillMissing,
        Watch!MarkResubmit, Watch!PlaceRepair, Watch!PlaceFails,
        Watch!Confirmed, Watch!RepairRecorded, Watch!NotConfirmed,
        Watch!Judging, Watch!Idle
  <2>2. Watch!LoadFails => mpc' \in Watch!Idle /\ UNCHANGED <<disk, ord>>
    BY DEF Watch!LoadFails, Watch!Idle, Watch!brokerVars
  <2> QED  BY <1>1, <2>1, <2>2 DEF PassEffect, WatchInv
<1>4. mpc' \in {"executions", "place"} =>
         \/ mpc \in {"executions", "place"} /\ sawLive' = sawLive
         \/ sawLive' = Watch!LiveProtection
  <2>1. CASE Watch!QuoteFails \/ Watch!SnapshotFails \/ Watch!MissingWithoutFill
             \/ Watch!StillMissing \/ Watch!NotConfirmed \/ Watch!PlaceFails
    <3>1. Watch!Escalate
      BY <2>1
      DEF Watch!QuoteFails, Watch!SnapshotFails, Watch!MissingWithoutFill,
          Watch!StillMissing, Watch!NotConfirmed, Watch!PlaceFails
    <3> QED  BY <3>1, EscalateMoves DEF BothShape, Watch!Idle
  <2>2. CASE Watch!LoadFails \/ Watch!StartPass \/ Watch!QuoteRecorded
             \/ Watch!ReadPositions \/ Watch!ClosedByProtection
             \/ Watch!PricesUnknown \/ Watch!ProtectionWhole
             \/ Watch!PlaceRepair \/ Watch!Confirmed \/ Watch!RepairRecorded
    BY <2>2
    DEF Watch!LoadFails, Watch!StartPass, Watch!QuoteRecorded,
        Watch!ReadPositions, Watch!ClosedByProtection, Watch!PricesUnknown,
        Watch!ProtectionWhole, Watch!PlaceRepair, Watch!Confirmed,
        Watch!RepairRecorded, Watch!Transact, Watch!AfterNotice
  <2>3. CASE Watch!ReadOrders \/ Watch!MarkResubmit
    BY <2>3 DEF Watch!ReadOrders, Watch!MarkResubmit, Watch!Judging
  <2> QED  BY <1>1, <2>1, <2>2, <2>3 DEF Watch!Monitor
<1>5. mpc' \in {"executions", "place"} =>
         \A o \in Attached : ord'[o] \in Live => o \in sawLive'
  BY <1>2, <1>4, SameNames DEF WatchInv, Watch!LiveProtection, Protective
<1>6. ASSUME NEW o \in Repair, ord'[o] \in Live
      PROVE  ord'[Mate(o)] \notin Live
  <2>1. CASE ord'[o] = ord[o]
    BY <1>1, <1>2, <1>6, <2>1 DEF WatchInv
  <2>2. CASE ord'[o] # ord[o]
    <3>1. Mate(o) \notin sawLive /\ mpc = "place"
      <4>1. Watch!PlaceRepair \/ (Watch!PlaceFails /\ ~UNCHANGED ord)
        BY <1>1, <2>2
        DEF Watch!Monitor, Watch!LoadFails, Watch!StartPass, Watch!QuoteFails,
            Watch!QuoteRecorded, Watch!ReadPositions, Watch!ReadOrders,
            Watch!SnapshotFails, Watch!ClosedByProtection,
            Watch!MissingWithoutFill, Watch!PricesUnknown,
            Watch!ProtectionWhole, Watch!StillMissing, Watch!MarkResubmit,
            Watch!PlaceFails, Watch!Confirmed, Watch!RepairRecorded,
            Watch!NotConfirmed, Watch!brokerVars
      <4>2. PICK S : /\ S \subseteq {Watch!RepairOf(k) : k \in Watch!Missing(sawLive)}
                     /\ \E s : Watch!Place(S, s)
                     /\ mpc = "place"
        <5>1. CASE Watch!PlaceRepair
          BY <5>1 DEF Watch!PlaceRepair
        <5>2. CASE Watch!PlaceFails /\ ~UNCHANGED ord
          <6>1. /\ mpc = "place" /\ Watch!Missing(sawLive) = Watch!Kind
                /\ Watch!Place({"stop4"}, "staged")
            BY <5>2 DEF Watch!PlaceFails, Watch!brokerVars
          <6>2. /\ "stop_loss" \in Watch!Kind
                /\ Watch!RepairOf("stop_loss") = "stop4"
            BY DEF Watch!Kind, Watch!RepairOf
          <6> QED  BY <6>1, <6>2
        <5> QED  BY <4>1, <5>1, <5>2
      <4>3. o \in S
        BY <1>1, <2>2, <4>2, SameNames DEF Watch!Place, BrokerShape
      <4> QED  BY <4>2, <4>3, RepairsMissing
    <3> QED  BY <1>1, <1>2, <3>1 DEF WatchInv
  <2> QED  BY <2>1, <2>2
<1> QED  BY <1>3, <1>5, <1>6 DEF WatchInv

LEMMA WatchInvStep ==
    ASSUME BothShape, WatchInv, [BothNext]_bothVars PROVE WatchInv'
<1>1. CASE ProcessDies
  BY <1>1
  DEF ProcessDies, Crash, brokerVars, passVars, WatchInv, BeforeBracket
<1>2. CASE UNCHANGED bothVars
  BY <1>2 DEF bothVars, vars, brokerVars, storeVars, passVars, WatchInv
<1> QED
  BY <1>1, <1>2, WatchInvCall, WatchInvBroker, WatchInvPass DEF BothNext

\* The errors that leave a position exposed.
Excused == faults \cap {"handling", "stop", "lateReject"} # {}

\* What makes the position covered, wherever the call is.
CoverInv ==
    /\ pos <= filled
    /\ pc = "idle" => ord["entry"] = "none"
    /\ pc = "failedUnfilled" => exposure = 0
    /\ \A o \in Attached : ord[o] # "none" => qty[o] = Qty
    /\ pc \in {"refused", "raised"} =>
          \/ disk.estop \/ Excused \/ FilledLate
          \/ filled = 0 /\ ord["entry"] = "none"
    /\ pc \in MainPath => /\ cancelReq \cap Attached = {}
                          /\ \A o \in Replacement : ord[o] = "none"
    /\ pc \in {"fillWait", "cancelWait", "protectionWait"} => handed = Attached
    /\ pc \in {"protectionWait", "protected"} => ord["entry"] = "filled"
    /\ pc = "protected" =>
          disk.estop \/ Excused \/ pos <= 0 \/ AllLive(Attached)

\* What excuses stays.
LEMMA ExcuseStays ==
    ASSUME BothShape, [BothNext]_bothVars
    PROVE  /\ disk.estop => disk'.estop
           /\ faults \subseteq faults' /\ (Excused => Excused')
<1>1. faults \subseteq faults'
  <2>1. CASE CallStep
    BY <2>1, FaultsGrow DEF CallStep
  <2>2. CASE BrokerStep
    BY <2>2, EntryIsEffect, ClosingIsEffect DEF BrokerStep
  <2>3. CASE PassStep \/ ProcessDies \/ UNCHANGED bothVars
    BY <2>3 DEF PassStep, ProcessDies, Crash, bothVars, vars
  <2> QED  BY <2>1, <2>2, <2>3 DEF BothNext
<1> QED  BY <1>1, BothShapeStep DEF Keeps, Excused

LEMMA CoverInvCall ==
    ASSUME BothShape, StopInv, WatchInv, CoverInv, CallStep
    PROVE  CoverInv'
<1>1. /\ Call /\ CallEffect /\ BrokerShape /\ pc \notin Over
      /\ UNCHANGED <<filled, pos>> /\ (disk.estop => disk'.estop)
      /\ faults \subseteq faults' /\ (StopTried => StopTried')
  BY CallIsEffect, BothShapeStep, CallWays, ExcuseStays
  DEF CallStep, CallEffect, BothShape, BothNext
<1>2. /\ pc' # "idle" /\ (pc' = "failedUnfilled" => exposure' = 0)
  BY <1>1, CallWays
  DEF FailureStatus, ProcessEntryStatus, ProcessStatus, SaveThen
<1>3. \A o \in Attached : ord'[o] # "none" => qty'[o] = Qty
  <2>1. CASE pc \notin {"placeStop", "placeTake"}
    BY <1>1, <2>1, CallOrders DEF CoverInv
  <2>2. CASE PlaceStop
    BY <1>1, <2>2 DEF PlaceStop, CoverInv, BrokerShape, Attached, OrderSlot,
       Closing, Protective
  <2>3. CASE PlaceTakeProfit
    <3>1. CASE UNCHANGED <<ord, qty>>
      BY <3>1 DEF CoverInv
    <3>2. CASE /\ ord' = [Moved({"entry", "stop1"}, "pending")
                             EXCEPT !["take1"] = "pending"]
               /\ qty' = [qty EXCEPT !["take1"] = Qty]
      BY <1>1, <3>2 DEF CoverInv, Moved, BrokerShape, Attached, OrderSlot,
         Closing, Protective, Live
    <3> QED  BY <2>3, <3>1, <3>2 DEF PlaceTakeProfit
  <2> QED  BY <1>1, <2>1, <2>2, <2>3, CallWays
<1>4. pc' \in {"refused", "raised"} =>
         \/ disk'.estop \/ Excused' \/ FilledLate'
         \/ filled' = 0 /\ ord'["entry"] = "none"
  <2>1. CASE pc' = "refused"
    BY <1>1, <2>1, CallWays
    DEF Refuse, CoverInv, WatchInv, BeforeBracket, brokerVars
  <2>2. CASE pc' = "raised" /\ PlaceEntry
    BY <1>1, <2>2 DEF PlaceEntry, CoverInv, WatchInv, BeforeBracket
  <2>3. CASE pc' = "raised" /\ CancelledBracket
    BY <1>1, <2>3
    DEF CancelledBracket, CoverInv, FilledLate, callVars, failureVars
  <2>4. CASE pc \in StoppedAt
    BY <1>1, <2>4 DEF StopInv, StopTried, Excused
  <2>5. CASE faults' \cap {"handling", "stop"} # {}
    BY <2>5 DEF Excused
  <2> QED  BY <1>1, <2>1, <2>2, <2>3, <2>4, <2>5, CallWays
<1>5. pc' \in MainPath => /\ cancelReq' \cap Attached = {}
                          /\ \A o \in Replacement : ord'[o] = "none"
  <2> SUFFICES ASSUME pc \in MainPath
               PROVE  /\ cancelReq' \cap Attached = {}
                      /\ \A o \in Replacement : ord'[o] = "none"
    BY <1>1, CallWays
  <2>1. cancelReq' \subseteq cancelReq \cup {"entry"}
    BY <1>1, CallOrders DEF MainPath, BeforeBracket
  <2>2. \A o \in Replacement : ord'[o] = ord[o]
    BY <1>1, CallOrders DEF MainPath, BeforeBracket
  <2> QED  BY <2>1, <2>2 DEF CoverInv, Attached
<1>6. pc' \in {"fillWait", "cancelWait", "protectionWait"} => handed' = Attached
  <2>1. PlaceTakeProfit /\ pc' = "fillWait" => handed' = Attached
    BY DEF PlaceTakeProfit
  <2>2. FillTimeoutPartly \/ EntryFilled \/ Poll => handed' = Attached
    BY DEF FillTimeoutPartly, EntryFilled, Poll, CoverInv, failureVars
  <2> QED  BY <1>1, <2>1, <2>2, CallWays
<1>7. pc' \in {"protectionWait", "protected"} => ord'["entry"] = "filled"
  BY <1>1, CallWays DEF EntryFilled, ConfirmProtection, brokerVars, CoverInv
<1>8. pc' = "protected" => AllLive(Attached)'
  BY <1>1, CallWays DEF ConfirmProtection, brokerVars, CoverInv, AllLive
<1> QED
  BY <1>1, <1>2, <1>3, <1>4, <1>5, <1>6, <1>7, <1>8 DEF CoverInv

\* A call that is over and protected: the broker leaves the pair alone, or
\* one of the pair has sold the position.
LEMMA PairHolds ==
    ASSUME BothShape, WatchInv, CoverInv, ClosingEvent,
           pc = "protected", AllLive(Attached)
    PROVE  pos' <= 0 \/ AllLive(Attached)' \/ Excused'
<1>1. PICK o \in Closing : ClosingEffect(o)
  BY ClosingIsEffect
<1>2. /\ BrokerShape /\ pc \in Over /\ pc \in MainPath
      /\ Attached \subseteq OrderSlot /\ Attached \subseteq Protective
      /\ Protective = Attached \cup Replacement \cup Repair
      /\ "exit" \notin Attached /\ pos <= filled /\ filled <= Qty
      /\ \A p \in Repair : Mate(p) \in Attached
  BY DEF BothShape, BrokerShape, Over, MainPath, Attached, OrderSlot, Closing,
         Protective, CoverInv, Mate
<1>3. CASE ord[o] = "pending" /\ ord' = [ord EXCEPT ![o] = "active"]
  BY <1>2, <1>3 DEF AllLive, Live, BrokerShape
<1>4. CASE /\ o \in cancelReq \/ "lateReject" \in faults'
           /\ ord' = [ord EXCEPT ![o] = "cancelled"]
  BY <1>2, <1>4 DEF AllLive, CoverInv, BrokerShape, Excused
<1>5. CASE /\ o \in Protective /\ ord[o] = "active" /\ pos' = pos - qty[o]
  <2>1. o \notin Replacement
    BY <1>2, <1>5 DEF CoverInv
  <2>2. o \notin Repair
    BY <1>2, <1>5 DEF WatchInv, AllLive, Live
  <2>3. qty[o] = Qty /\ pos \in Int /\ filled \in Int
    BY <1>2, <1>5, <2>1, <2>2 DEF CoverInv, BrokerShape
  <2> QED  BY <1>2, <1>5, <2>3
<1>6. CASE ord' = [ord EXCEPT !["exit"] = "filled"]
  BY <1>2, <1>6 DEF AllLive, BrokerShape
<1> QED
  BY <1>1, <1>2, <1>3, <1>4, <1>5, <1>6 DEF ClosingEffect

LEMMA CoverInvBroker ==
    ASSUME BothShape, WatchInv, CoverInv, BrokerStep PROVE CoverInv'
<1>1. /\ BrokerEffect /\ UNCHANGED <<pc, handed, exposure, qty, cancelReq>>
      /\ pc \in Awaiting \cup Over /\ (disk.estop => disk'.estop)
      /\ BrokerShape /\ (Excused => Excused') /\ (FilledLate => FilledLate')
  <2>1. UNCHANGED <<qty, cancelReq>>
    BY EntryIsEffect, ClosingIsEffect DEF BrokerStep, EntryEffect
  <2> QED
    BY <2>1, EntryIsEffect, ClosingIsEffect, ExcuseStays
    DEF BrokerStep, EntryEvent, ClosingEvent, Listening, callVars, failureVars,
        BothShape, BothNext, FilledLate
<1>2. /\ pc # "failedUnfilled" /\ pc # "idle"
      /\ Attached \subseteq Closing /\ Replacement \subseteq Closing
  BY <1>1 DEF Awaiting, Over, Closing, Protective
<1>3. /\ \A o \in Attached : ord'[o] # "none" => qty'[o] = Qty
      /\ pc' \in MainPath => /\ cancelReq' \cap Attached = {}
                             /\ \A o \in Replacement : ord'[o] = "none"
  BY <1>1, <1>2 DEF CoverInv, BrokerEffect, NoRevival
<1>4. CASE EntryEvent
  <2>1. PICK n \in 0..Qty : EntryEffect(n)
    BY <1>4, EntryIsEffect
  <2>2. pos' <= filled'
    BY <1>1, <2>1 DEF EntryEffect, CoverInv, BrokerShape
  <2>3. ord["entry"] # "none"
    BY <2>1 DEF EntryEffect
  <2>4. pc \notin {"protectionWait", "protected"}
    BY <2>1 DEF EntryEffect, CoverInv
  <2> QED  BY <1>1, <1>2, <1>3, <2>2, <2>3, <2>4 DEF CoverInv
<1>5. CASE ClosingEvent
  <2>1. /\ pos' <= pos /\ ord'["entry"] = ord["entry"] /\ UNCHANGED <<filled, disk>>
    BY <1>5, ClosingIsEffect DEF storeVars
  <2>2. pos' \in Int /\ pos \in Int /\ filled \in Int
    BY <1>1 DEF BrokerEffect, BrokerShape
  <2>3. pos' <= filled' /\ (pos <= 0 => pos' <= 0)
    BY <2>1, <2>2 DEF CoverInv
  <2>4. pc' = "protected" =>
           disk'.estop \/ Excused' \/ pos' <= 0 \/ AllLive(Attached)'
    BY <1>1, <1>5, <2>1, <2>3, PairHolds DEF CoverInv
  <2> QED
    BY <1>1, <1>2, <1>3, <2>1, <2>3, <2>4 DEF CoverInv
<1> QED  BY <1>4, <1>5 DEF BrokerStep

LEMMA CoverInvStep ==
    ASSUME BothShape, StopInv, WatchInv, CoverInv, [BothNext]_bothVars
    PROVE  CoverInv'
<1>1. CASE PassStep
  <2>1. PassEffect
    BY <1>1, PassIsEffect
  <2>2. /\ Attached \subseteq OrderSlot \ Repair /\ Attached \subseteq Closing \ Repair
        /\ Replacement \subseteq OrderSlot \ Repair /\ "entry" \in OrderSlot \ Repair
    BY DEF Attached, Replacement, Repair, OrderSlot, Closing, Protective
  <2>3. /\ ord'["entry"] = ord["entry"]
        /\ \A o \in Attached : ord'[o] = ord[o] /\ qty'[o] = qty[o]
        /\ \A o \in Replacement : ord'[o] = ord[o]
        /\ UNCHANGED <<filled, pos, cancelReq, handed, exposure, pc, faults>>
        /\ disk.estop => disk'.estop
    BY <2>1, <2>2 DEF PassEffect, callVars, failureVars, Keeps
  <2> QED  BY <2>3 DEF CoverInv, AllLive, Excused, FilledLate
<1>2. CASE ProcessDies
  BY <1>2
  DEF ProcessDies, Crash, brokerVars, CoverInv, MainPath, BeforeBracket
<1>3. CASE UNCHANGED bothVars
  BY <1>3
  DEF bothVars, vars, brokerVars, callVars, failureVars, storeVars, CoverInv,
      AllLive, Excused, FilledLate
<1> QED
  BY <1>1, <1>2, <1>3, CoverInvCall, CoverInvBroker DEF BothNext

LEMMA CoverIsEnough ==
    ASSUME BothShape, StopInv, CoverInv PROVE ExposureCovered
<1>1. filled \in 0..Qty /\ pos \in Int /\ pos <= filled
  BY DEF BothShape, BrokerShape, CoverInv
<1>2. CASE pc \in {"refused", "raised"}
  BY <1>1, <1>2 DEF CoverInv, Excused, ExposureCovered
<1>3. CASE pc = "protected"
  <2>1. AllLive(Attached) => Covered
    <3>1. AllLive(Attached) => \A o \in Attached : qty[o] >= pos
      BY <1>1 DEF CoverInv, AllLive, Live
    <3> QED  BY <3>1 DEF Covered, Pairs
  <2> QED  BY <1>1, <1>3, <2>1 DEF CoverInv, Excused, ExposureCovered
<1>4. CASE pc \in {"partialProtected", "repaired", "exited"}
  BY <1>4 DEF StopInv, StopTried, StoppedAt, ExposureCovered
<1> QED  BY <1>2, <1>3, <1>4 DEF ExposureCovered, Over

----------------------------------------------------------------------------
(* The order of the call's effects, with the monitor's orders beside it.   *)

LEMMA BracketInvStep ==
    ASSUME BothShape, WatchInv, BracketInv, [BothNext]_bothVars
    PROVE  BracketInv'
<1>1. /\ Attached \subseteq Closing \ Repair /\ Attached \subseteq OrderSlot \ Repair
      /\ "stop1" \in Attached /\ "take1" \in Attached /\ "entry" \in OrderSlot \ Repair
      /\ Attached = {"stop1", "take1"} /\ BrokerShape
  BY DEF Attached, Closing, OrderSlot, Protective, Repair, BothShape
<1>2. CASE CallStep
  <2>1. Call /\ UNCHANGED filled
    BY <1>2, CallIsEffect DEF CallStep, CallEffect
  <2>2. CASE pc \notin {"idle", "placeStop", "placeTake"}
    <3>1. /\ ord'["entry"] = ord["entry"] /\ pc' # "placeTake"
          /\ \A o \in Attached : ord'[o] = ord[o] /\ qty'[o] = qty[o]
      BY <1>2, <2>1, <2>2, CallOrders, CallWays
      DEF BeforeBracket, PlaceEntry, RecordSubmission, PlaceStop,
          ProcessEntryStatus, ProcessStatus, SaveThen
    <3> QED  BY <2>1, <3>1 DEF BracketInv, BracketPlaced
  <2>3. CASE pc \in {"idle", "placeStop"}
    <3>1. /\ filled = 0 /\ ord["entry"] \notin {"pending", "active", "filled"}
          /\ PlaceEntry \/ Refuse \/ PlaceStop
      BY <2>1, <2>3, CallWays DEF WatchInv, BeforeBracket
    <3>2. ord'["entry"] \notin {"pending", "active", "filled"}
      BY <1>1, <3>1 DEF PlaceEntry, Refuse, PlaceStop, BrokerShape, brokerVars
    <3>3. pc' = "placeTake" => ord'["stop1"] # "none" /\ qty'["stop1"] = Qty
      BY <1>1, <3>1 DEF PlaceEntry, Refuse, PlaceStop, BrokerShape
    <3> QED  BY <2>1, <3>1, <3>2, <3>3, ZeroInRange DEF BracketInv
  <2>4. CASE pc = "placeTake"
    <3>1. PlaceTakeProfit /\ filled = 0
          /\ ord["entry"] \notin {"pending", "active", "filled"}
      BY <2>1, <2>4, CallWays DEF WatchInv, BeforeBracket
    <3>2. CASE UNCHANGED <<ord, qty>> /\ pc' = "failed"
      BY <2>1, <3>1, <3>2 DEF BracketInv
    <3>3. CASE /\ ord' = [Moved({"entry", "stop1"}, "pending")
                             EXCEPT !["take1"] = "pending"]
               /\ qty' = [qty EXCEPT !["take1"] = Qty] /\ pc' = "fillWait"
      <4>1. ord["stop1"] # "none" /\ qty["stop1"] = Qty
        BY <2>4 DEF BracketInv
      <4>2. BracketPlaced'
        BY <1>1, <3>3, <4>1 DEF BracketPlaced, Moved, BrokerShape, Live
      <4> QED  BY <3>3, <4>2 DEF BracketInv
    <3> QED  BY <3>1, <3>2, <3>3 DEF PlaceTakeProfit
  <2> QED  BY <2>2, <2>3, <2>4
<1>3. CASE BrokerStep
  <2>1. /\ BrokerEffect /\ UNCHANGED <<pc, qty>> /\ (BracketPlaced => BracketPlaced')
    BY <1>1, <1>3, EntryIsEffect, ClosingIsEffect
    DEF BrokerStep, EntryEvent, ClosingEvent, EntryEffect, BrokerEffect,
        NoRevival, BracketPlaced
  <2>2. CASE EntryEvent
    <3>1. PICK n \in 0..Qty : EntryEffect(n)
      BY <2>2, EntryIsEffect
    <3>2. ord'["entry"] \in {"pending", "active", "filled"} \/ filled' > 0
             => BracketPlaced
      <4>1. filled' > 0 => filled > 0 \/ ord["entry"] = "active"
        BY <1>1, <3>1 DEF EntryEffect, BrokerShape
      <4>2. ord'["entry"] \in {"pending", "active", "filled"} =>
               ord["entry"] \in {"pending", "active", "filled"}
        BY <3>1 DEF EntryEffect
      <4> QED  BY <4>1, <4>2 DEF BracketInv
    <3>3. pc # "placeTake"
      BY <2>2 DEF EntryEvent, Listening, Awaiting, Over
    <3> QED  BY <2>1, <3>2, <3>3 DEF BracketInv
  <2>3. CASE ClosingEvent
    <3>1. ord'["entry"] = ord["entry"] /\ UNCHANGED filled /\ pc # "placeTake"
      BY <2>3, ClosingIsEffect DEF ClosingEvent, Listening, Awaiting, Over
    <3> QED  BY <2>1, <3>1 DEF BracketInv
  <2> QED  BY <1>3, <2>2, <2>3 DEF BrokerStep
<1>4. CASE PassStep
  <2>1. PassEffect
    BY <1>4, PassIsEffect
  <2>2. /\ ord'["entry"] = ord["entry"] /\ UNCHANGED <<filled, pc>>
        /\ \A o \in Attached : ord'[o] = ord[o] /\ qty'[o] = qty[o]
    BY <1>1, <2>1 DEF PassEffect
  <2> QED  BY <1>1, <2>2 DEF BracketInv, BracketPlaced
<1>5. CASE ProcessDies \/ UNCHANGED bothVars
  BY <1>5
  DEF ProcessDies, Crash, bothVars, vars, brokerVars, BracketInv, BracketPlaced
<1> QED  BY <1>2, <1>3, <1>4, <1>5 DEF BothNext

\* An exit that was placed has the emergency stop before it.
ExitStopped == ord["exit"] # "none" => StopTried

LEMMA ExitStoppedStep ==
    ASSUME BothShape, StopInv, ExitStopped, [BothNext]_bothVars
    PROVE  ExitStopped'
<1>1. /\ StopTried => StopTried'
      /\ "exit" \in OrderSlot \ Repair /\ "exit" \in Closing
  BY BothShapeStep DEF OrderSlot, Closing, Protective, Repair
<1>2. CASE CallStep
  <2>1. pc = "exit" => StopTried
    BY DEF StopInv, StoppedAt
  <2> QED  BY <1>1, <1>2, <2>1, CallOrders DEF ExitStopped
<1>3. CASE BrokerStep
  BY <1>1, <1>3, EntryIsEffect, ClosingIsEffect
  DEF BrokerStep, BrokerEffect, NoRevival, ExitStopped
<1>4. CASE PassStep
  BY <1>1, <1>4, PassIsEffect DEF PassEffect, ExitStopped
<1>5. CASE ProcessDies \/ UNCHANGED bothVars
  BY <1>1, <1>5
  DEF ProcessDies, Crash, bothVars, vars, brokerVars, ExitStopped
<1> QED  BY <1>2, <1>3, <1>4, <1>5 DEF BothNext

----------------------------------------------------------------------------
(* A short position takes both a protective order and an exit.             *)

ExitFilled == ord["exit"] = "filled"

\* Before their placement the attached orders are not with the broker.
SlotsInv ==
    /\ pc \in BeforeBracket \ {"placeTake"} => Unplaced(Attached)
    /\ pc = "placeTake" => ord["take1"] = "none"
    /\ pc \notin Over \cup ExitPath => ord["exit"] = "none"

\* No order sells more than the fill, and of a group one order fills.
SellInv ==
    /\ ord["entry"] = "filled" => filled = Qty
    /\ \A o \in Closing \ Attached : qty[o] <= filled
    /\ sawPos <= filled /\ sawPos + filled >= 0
    /\ GroupFilled => \A o \in Protective : ord[o] # "active"
    /\ pos <= filled /\ pos + filled >= 0
    /\ pos < 0 => GroupFilled /\ ExitFilled
    /\ pos # filled => GroupFilled \/ ExitFilled

\* A step that fills no closing order, accepts none of a group and changes no
\* quantity but to one of the fill or of the position seen.
NothingFills ==
    /\ \A o \in Closing : ord'[o] = "filled" <=> ord[o] = "filled"
    /\ \A o \in Protective : ord'[o] = "active" => ord[o] = "active"

LEMMA NothingSold ==
    ASSUME BrokerShape, SellInv, NothingFills, UNCHANGED <<filled, pos>>,
           ord'["entry"] = "filled" => ord["entry"] = "filled",
           \A o \in Closing \ Attached : qty'[o] <= filled,
           sawPos' <= filled /\ sawPos' + filled >= 0
    PROVE  SellInv'
<1>1. Protective \subseteq Closing /\ "exit" \in Closing
  BY DEF Closing
<1>2. (GroupFilled' <=> GroupFilled) /\ (ExitFilled' <=> ExitFilled)
  BY <1>1 DEF NothingFills, GroupFilled, ExitFilled
<1>3. GroupFilled' => \A o \in Protective : ord'[o] # "active"
  BY <1>2 DEF SellInv, NothingFills
<1> QED  BY <1>2, <1>3 DEF SellInv

LEMMA CallQuantities ==
    ASSUME BothShape, CallStep
    PROVE  \A o \in Closing \ Attached : qty'[o] \in {qty[o], filled, exposure}
<1>1. BrokerShape /\ Call /\ "stop1" \in Attached /\ "take1" \in Attached
  BY DEF BothShape, CallStep, Attached
<1>2. CASE UNCHANGED qty
  BY <1>2
<1>3. ASSUME NEW n \in {filled, exposure}, NEW a, NEW b, PlacePair(n, a, b)
      PROVE  \A o \in Closing : qty'[o] \in {qty[o], n}
  BY <1>1, <1>3 DEF PlacePair, BrokerShape
<1>4. CASE PartialPlace \/ Replace
  BY <1>3, <1>4 DEF PartialPlace, Replace
<1>5. CASE PlaceStop \/ PlaceTakeProfit
  BY <1>1, <1>5 DEF PlaceStop, PlaceTakeProfit, BrokerShape
<1>6. CASE PlaceExit
  BY <1>1, <1>6 DEF PlaceExit, BrokerShape
<1>7. CASE Refuse \/ PlaceEntry \/ RecordSubmission \/ EntryWait
  BY <1>2, <1>7
  DEF Refuse, PlaceEntry, RecordSubmission, EntryWait, EntryFilled, Poll,
      EntryEndedPartly, EntryEndedUnfilled, FillTimeoutPartly,
      FillTimeoutUnfilled, CancelTimeout, ConfirmProtection, ProtectionLost,
      brokerVars
<1>8. CASE \/ PartialFillAlert \/ ChildrenCancelled \/ PartialConfirmed
           \/ PartialLost \/ PartialMark \/ PartialStop
  BY <1>2, <1>8
  DEF PartialFillAlert, ChildrenCancelled, PartialConfirmed, PartialLost,
      PartialMark, PartialStop, brokerVars
<1>9. CASE \/ FailureStatus \/ CancelledBracket \/ MarkUnprotected
           \/ ExposedAlert \/ ExposedStop \/ ReplaceConfirmed \/ ReplaceLost
           \/ ReplaceMark \/ ReplaceAlert \/ ExitAlert \/ ExitFailed
           \/ ExitRecord
  BY <1>2, <1>9
  DEF FailureStatus, CancelledBracket, MarkUnprotected, ExposedAlert,
      ExposedStop, ReplaceConfirmed, ReplaceLost, ReplaceMark, ReplaceAlert,
      ExitAlert, ExitFailed, ExitRecord, brokerVars
<1> QED
  BY <1>1, <1>4, <1>5, <1>6, <1>7, <1>8, <1>9
  DEF Call, Submission, PartialFill, BracketFailure, DefensiveExit

LEMMA SlotsInvCall ==
    ASSUME BothShape, SlotsInv, CallStep PROVE SlotsInv'
<1>1. /\ Call /\ BrokerShape /\ pc \notin Over /\ Attached = {"stop1", "take1"}
      /\ "stop1" \in OrderSlot /\ "take1" \in OrderSlot
  BY CallWays
  DEF CallStep, BothShape, Attached, OrderSlot, Closing, Protective
<1>2. pc' \in BeforeBracket => \/ pc' = "placeTake" /\ PlaceStop
                               \/ /\ pc' # "placeTake"
                                  /\ PlaceEntry \/ RecordSubmission
  BY <1>1, CallWays
  DEF PlaceStop, PlaceEntry, RecordSubmission, ProcessEntryStatus,
      ProcessStatus, SaveThen, BeforeBracket
<1>3. pc' = "placeTake" /\ PlaceStop => ord'["take1"] = "none"
  BY <1>1 DEF PlaceStop, SlotsInv, BeforeBracket, Unplaced, BrokerShape
<1>4. PlaceEntry \/ RecordSubmission => Unplaced(Attached)'
  BY <1>1
  DEF PlaceEntry, RecordSubmission, SlotsInv, BeforeBracket, Unplaced,
      BrokerShape, brokerVars
<1>5. pc' \notin Over \cup ExitPath => ord'["exit"] = "none"
  <2> SUFFICES ASSUME pc' \notin Over \cup ExitPath PROVE ord'["exit"] = "none"
    OBVIOUS
  <2>1. pc \notin ExitPath /\ pc # "exit"
    BY <1>1, CallWays
  <2>2. ord'["exit"] = ord["exit"]
    BY <2>1, CallOrders
  <2> QED  BY <1>1, <2>1, <2>2 DEF SlotsInv
<1>6. "placeTake" \in BeforeBracket
  BY DEF BeforeBracket
<1> QED  BY <1>2, <1>3, <1>4, <1>5, <1>6 DEF SlotsInv

LEMMA SellInvCall ==
    ASSUME BothShape, PairInv, SlotsInv, SellInv, CallStep PROVE SellInv'
<1>1. /\ Call /\ CallEffect /\ BrokerShape /\ exposure \in 0..filled
      /\ filled \in Nat /\ UNCHANGED <<filled, pos, sawPos>>
  BY CallIsEffect DEF CallStep, BothShape, CallEffect, BrokerShape, passVars
<1>2. /\ Closing = Attached \cup Replacement \cup Repair \cup {"exit"}
      /\ Protective = Attached \cup Replacement \cup Repair
      /\ Attached = {"stop1", "take1"} /\ Pair2 \subseteq Replacement
      /\ Pair3 \subseteq Replacement /\ Closing \subseteq OrderSlot
      /\ "exit" \notin Protective /\ Replacement \cap Attached = {}
      /\ OrderSlot = Closing \cup {"entry"}
  BY DEF Closing, Protective, Attached, Replacement, Repair, OrderSlot, Pair2,
         Pair3
<1>3. \A o \in Closing \ Attached : qty'[o] <= filled
  BY <1>1, CallQuantities DEF SellInv, BrokerShape
<1>4. ord'["entry"] = "filled" => ord["entry"] = "filled"
  <2>1. CASE pc \notin {"idle", "placeTake"}
    BY <2>1, CallOrders
  <2>2. CASE pc = "idle"
    BY <1>1, <1>2, <2>2, CallWays DEF PlaceEntry, Refuse, brokerVars,
       BrokerShape
  <2>3. CASE pc = "placeTake"
    <3>1. PlaceTakeProfit
      BY <1>1, <2>3, CallWays
    <3>2. Moved({"entry", "stop1"}, "pending")["entry"] # "filled"
          \/ ord["entry"] = "filled"
      BY <1>2 DEF Moved
    <3> QED  BY <1>1, <1>2, <3>1, <3>2 DEF PlaceTakeProfit, Moved
  <2> QED  BY <2>1, <2>2, <2>3
<1>5. NothingFills
  <2>1. ASSUME NEW S, \A o \in Closing \ S : ord'[o] = ord[o],
               \A o \in S : ord[o] # "filled" /\ ord'[o] \notin {"filled", "active"}
        PROVE  NothingFills
    BY <1>2, <2>1 DEF NothingFills
  <2>2. CASE pc \notin {"placeStop", "placeTake", "partialPlace", "replace",
                        "exit"}
    BY <1>1, <1>2, <2>1, <2>2, CallOrders DEF CallEffect
  <2>3. CASE pc = "placeStop"
    <3>1. PlaceStop /\ ord["stop1"] = "none"
      BY <1>1, <1>2, <2>3, CallWays DEF SlotsInv, BeforeBracket, Unplaced
    <3>2. /\ \A o \in Closing \ {"stop1"} : ord'[o] = ord[o]
          /\ ord'["stop1"] \in {"staged", "none"}
      BY <1>1, <1>2, <3>1 DEF PlaceStop, BrokerShape
    <3> QED  BY <1>2, <3>1, <3>2 DEF NothingFills
  <2>4. CASE pc = "placeTake"
    <3>1. PlaceTakeProfit /\ ord["take1"] = "none"
      BY <1>1, <2>4, CallWays DEF SlotsInv
    <3>2. CASE UNCHANGED ord
      BY <3>2 DEF NothingFills
    <3>3. CASE ord' = [Moved({"entry", "stop1"}, "pending")
                         EXCEPT !["take1"] = "pending"]
      <4>1. \A o \in Closing \ {"take1"} :
               ord'[o] = ord[o] \/ (ord[o] \in Live /\ ord'[o] = "pending")
        BY <1>2, <3>3 DEF Moved
      <4>2. ord'["take1"] = "pending"
        BY <1>2, <3>3 DEF Moved
      <4> QED  BY <1>2, <3>1, <4>1, <4>2 DEF NothingFills, Live
    <3> QED  BY <3>1, <3>2, <3>3 DEF PlaceTakeProfit
  <2>5. CASE pc \in {"partialPlace", "replace"}
    <3>1. \E n \in Nat : PairPlaced(handed', n)
      BY <1>1, <2>5, CallWays, PairIsPlaced DEF PartialPlace, Replace
    <3>2. Unplaced(NextPair) /\ NextPair \subseteq Replacement
      BY <1>1, <1>2, <2>5
      DEF NextPair, PairInv, Unplaced, Pair2, Pair3, Over, ExitPath,
          ReplacePath, MainPath, PartialPath
    <3>3. /\ \A o \in Closing \ NextPair : ord'[o] = ord[o]
          /\ \A o \in NextPair : ord'[o] \in {"pending", "staged", ord[o]}
      BY <1>2, <3>1 DEF PairPlaced
    <3> QED  BY <2>1, <3>2, <3>3 DEF Unplaced
  <2>6. CASE pc = "exit"
    <3>1. PlaceExit /\ ord["exit"] = "none"
      BY <1>1, <2>6, CallWays DEF SlotsInv, Over, ExitPath, Call
    <3>2. /\ \A o \in Closing \ {"exit"} : ord'[o] = ord[o]
          /\ ord'["exit"] \in {"pending", "none"}
      BY <1>1, <1>2, <3>1 DEF PlaceExit, BrokerShape
    <3> QED  BY <1>2, <3>1, <3>2 DEF NothingFills
  <2> QED  BY <2>2, <2>3, <2>4, <2>5, <2>6
<1> QED  BY <1>1, <1>3, <1>4, <1>5, NothingSold DEF SellInv

LEMMA SellInvBroker ==
    ASSUME BothShape, SlotsInv, CoverInv, SellInv, BrokerStep
    PROVE  SellInv' /\ SlotsInv'
<1>1. /\ BrokerShape /\ UNCHANGED <<pc, sawPos>> /\ BrokerEffect
      /\ Protective = Attached \cup Replacement \cup Repair
      /\ Closing = Protective \cup {"exit"} /\ Attached \subseteq Closing
      /\ Closing \subseteq OrderSlot /\ "exit" \notin Protective
      /\ "entry" \in OrderSlot /\ "entry" \notin Closing
      /\ "take1" \in Attached /\ pos \in Int /\ filled \in Nat
  BY EntryIsEffect, ClosingIsEffect
  DEF BrokerStep, EntryEvent, ClosingEvent, BothShape, BrokerShape, Closing,
      Protective, Attached, Replacement, Repair, OrderSlot, passVars
<1>2. SlotsInv'
  BY <1>1 DEF SlotsInv, BrokerEffect, NoRevival, Unplaced
<1>3. CASE EntryEvent
  <2>1. PICK n \in 0..Qty : EntryEffect(n)
    BY <1>3, EntryIsEffect
  <2>2. NothingFills
    BY <1>1, <2>1 DEF NothingFills, EntryEffect, Live
  <2>3. (GroupFilled' <=> GroupFilled) /\ (ExitFilled' <=> ExitFilled)
    BY <1>1, <2>2 DEF NothingFills, GroupFilled, ExitFilled
  <2>4. /\ filled' = filled + n /\ pos' = pos + n /\ UNCHANGED qty
        /\ ord'["entry"] = "filled" => filled' = Qty
    BY <2>1 DEF EntryEffect
  <2>5. /\ pos' <= filled' /\ pos' + filled' >= 0 /\ (pos' < 0 => pos < 0)
        /\ pos' # filled' => pos # filled
        /\ sawPos <= filled' /\ sawPos + filled' >= 0
        /\ \A o \in Closing \ Attached : qty[o] <= filled'
    BY <1>1, <2>4 DEF SellInv, BothShape, PassShape, BrokerShape
  <2>6. GroupFilled' => \A o \in Protective : ord'[o] # "active"
    BY <2>2, <2>3 DEF SellInv, NothingFills
  <2> QED  BY <1>1, <1>2, <2>3, <2>4, <2>5, <2>6 DEF SellInv
<1>4. CASE ClosingEvent
  <2>1. PICK o \in Closing : ClosingEffect(o)
    BY <1>4, ClosingIsEffect
  <2>2. UNCHANGED <<filled, qty>> /\ ord'["entry"] = ord["entry"]
    BY <1>4, ClosingIsEffect
  <2>3. CASE /\ ord[o] \in Live /\ UNCHANGED pos
             /\ \/ ord' = [ord EXCEPT ![o] = "cancelled"]
                \/ /\ ord' = [ord EXCEPT ![o] = "active"]
                   /\ o \in Protective => ~GroupFilled
    <3>1. /\ \A p \in Closing : ord'[p] = "filled" <=> ord[p] = "filled"
          /\ \A p \in Protective : ord'[p] = "active" =>
                ord[p] = "active" \/ ~GroupFilled
      BY <1>1, <2>3 DEF BrokerShape, Live
    <3>2. (GroupFilled' <=> GroupFilled) /\ (ExitFilled' <=> ExitFilled)
      BY <1>1, <3>1 DEF GroupFilled, ExitFilled
    <3>3. GroupFilled' => \A p \in Protective : ord'[p] # "active"
      BY <3>1, <3>2 DEF SellInv
    <3> QED  BY <1>1, <1>2, <2>2, <2>3, <3>2, <3>3 DEF SellInv
  <2>4. CASE /\ o \in Protective /\ ord[o] = "active"
             /\ o \in Attached => ord["entry"] = "filled"
             /\ ord' = [Moved(Protective, "cancelled") EXCEPT ![o] = "filled"]
             /\ pos' = pos - qty[o]
    <3>1. /\ ord'[o] = "filled" /\ ord'["exit"] = ord["exit"]
          /\ \A p \in Protective : ord'[p] # "active"
      BY <1>1, <2>4 DEF Moved, Live
    <3>2. ~GroupFilled
      BY <2>4 DEF SellInv
    <3>3. GroupFilled' /\ (ExitFilled' <=> ExitFilled)
      BY <2>4, <3>1 DEF GroupFilled, ExitFilled
    <3>4. qty[o] <= filled /\ qty[o] \in Nat
      BY <1>1, <2>4 DEF SellInv, CoverInv, BrokerShape
    <3>5. pos >= 0 /\ pos <= filled /\ (pos = filled \/ ExitFilled)
      BY <1>1, <3>2 DEF SellInv
    <3>6. /\ pos' <= filled /\ pos' + filled >= 0
          /\ pos' < 0 => ExitFilled
      BY <1>1, <2>4, <3>4, <3>5
    <3> QED  BY <1>1, <1>2, <2>2, <3>1, <3>3, <3>6 DEF SellInv
  <2>5. CASE /\ ord["exit"] = "active" /\ ord' = [ord EXCEPT !["exit"] = "filled"]
             /\ pos' = pos - qty["exit"]
    <3>1. /\ ~ExitFilled /\ ExitFilled'
          /\ \A p \in Protective : ord'[p] = ord[p]
      BY <1>1, <2>5 DEF ExitFilled, BrokerShape
    <3>2. GroupFilled' <=> GroupFilled
      BY <3>1 DEF GroupFilled
    <3>3. qty["exit"] <= filled /\ qty["exit"] \in Nat
      BY <1>1 DEF SellInv, BrokerShape
    <3>4. pos >= 0 /\ pos <= filled /\ (pos = filled \/ GroupFilled)
      BY <1>1, <3>1 DEF SellInv
    <3>5. /\ pos' <= filled /\ pos' + filled >= 0
          /\ pos' < 0 => GroupFilled
      BY <1>1, <2>5, <3>3, <3>4
    <3> QED  BY <1>1, <1>2, <2>2, <3>1, <3>2, <3>5 DEF SellInv
  <2> QED  BY <2>1, <2>3, <2>4, <2>5 DEF ClosingEffect, Live
<1> QED  BY <1>3, <1>4 DEF BrokerStep

LEMMA SellInvPass ==
    ASSUME BothShape, SellInv, PassStep PROVE SellInv'
<1>1. /\ Watch!Monitor /\ PassEffect /\ BrokerShape /\ PassShape
      /\ Repair \subseteq Closing /\ Repair \subseteq Protective
      /\ "entry" \in OrderSlot \ Repair /\ "stop4" \in Repair
      /\ Closing \subseteq OrderSlot
  BY PassIsEffect
  DEF PassStep, BothShape, Closing, Protective, Repair, OrderSlot
<1>2. /\ UNCHANGED <<filled, pos>> /\ ord'["entry"] = ord["entry"]
      /\ filled \in Nat /\ pos \in Int /\ sawPos \in Int
  BY <1>1 DEF PassEffect, BrokerShape, PassShape
<1>3. ASSUME NEW S \in SUBSET Repair, NEW s \in {"pending", "staged"},
             Watch!Place(S, s), \A o \in S : ord[o] # "filled"
      PROVE  /\ NothingFills
             /\ \A o \in Closing \ Attached : qty'[o] <= filled
  <2>1. /\ ord' = [o \in OrderSlot |-> IF o \in S THEN s ELSE ord[o]]
        /\ qty' = [o \in Closing |->
                      IF o \in S THEN (IF sawPos > 0 THEN sawPos ELSE -sawPos)
                                 ELSE qty[o]]
    BY <1>3, SameNames DEF Watch!Place
  <2>2. (IF sawPos > 0 THEN sawPos ELSE -sawPos) <= filled
    BY <1>2 DEF SellInv
  <2>3. NothingFills
    BY <1>1, <1>3, <2>1 DEF NothingFills, Protective, Closing
  <2> QED  BY <2>1, <2>2, <2>3 DEF SellInv
<1>4. ASSUME UNCHANGED brokerVars
      PROVE  /\ NothingFills
             /\ \A o \in Closing \ Attached : qty'[o] <= filled
  BY <1>4 DEF brokerVars, NothingFills, SellInv
<1>5. /\ NothingFills
      /\ \A o \in Closing \ Attached : qty'[o] <= filled
  <2>1. CASE Watch!PlaceRepair
    <3> DEFINE S == {Watch!RepairOf(k) : k \in Watch!Missing(sawLive)}
    <3>1. S \in SUBSET Repair /\ \A o \in S : ord[o] # "filled"
      BY <2>1 DEF Watch!PlaceRepair, Watch!SlotsFree, Watch!RepairOf, Repair
    <3>2. Watch!Place(S, "pending")
      BY <2>1 DEF Watch!PlaceRepair
    <3> HIDE DEF S
    <3> QED  BY <1>3, <3>1, <3>2
  <2>2. CASE Watch!PlaceFails /\ ~UNCHANGED brokerVars
    <3>1. /\ Watch!Place({"stop4"}, "staged") /\ ord["stop4"] # "filled"
      BY <2>2
      DEF Watch!PlaceFails, Watch!SlotsFree, Watch!RepairOf, Watch!brokerVars,
          brokerVars
    <3>2. {"stop4"} \in SUBSET Repair
      BY <1>1
    <3> QED  BY <1>3, <3>1, <3>2
  <2>3. CASE ~Watch!PlaceRepair /\ ~Watch!PlaceFails
    <3>1. UNCHANGED brokerVars
      BY <1>1, <2>3
      DEF Watch!Monitor, Watch!LoadFails, Watch!StartPass, Watch!QuoteFails,
          Watch!QuoteRecorded, Watch!ReadPositions, Watch!ReadOrders,
          Watch!SnapshotFails, Watch!ClosedByProtection,
          Watch!MissingWithoutFill, Watch!PricesUnknown,
          Watch!ProtectionWhole, Watch!StillMissing, Watch!MarkResubmit,
          Watch!Confirmed, Watch!RepairRecorded, Watch!NotConfirmed,
          Watch!brokerVars, brokerVars
    <3> QED  BY <1>4, <3>1
  <2> QED  BY <1>4, <2>1, <2>2, <2>3
<1>6. sawPos' \in {sawPos, pos}
  BY <1>1
  DEF Watch!Monitor, Watch!LoadFails, Watch!StartPass, Watch!QuoteFails,
      Watch!QuoteRecorded, Watch!ReadPositions, Watch!ReadOrders,
      Watch!SnapshotFails, Watch!ClosedByProtection,
      Watch!MissingWithoutFill, Watch!PricesUnknown, Watch!ProtectionWhole,
      Watch!StillMissing, Watch!MarkResubmit, Watch!PlaceRepair,
      Watch!PlaceFails, Watch!Confirmed, Watch!RepairRecorded,
      Watch!NotConfirmed, Watch!Escalate, Watch!Judging
<1>7. sawPos' <= filled /\ sawPos' + filled >= 0
  BY <1>2, <1>6 DEF SellInv
<1> QED  BY <1>1, <1>2, <1>5, <1>7, NothingSold

LEMMA SellInvStep ==
    ASSUME BothShape, PairInv, CoverInv, SlotsInv, SellInv,
           [BothNext]_bothVars
    PROVE  SlotsInv' /\ SellInv'
<1>1. CASE CallStep
  BY <1>1, SlotsInvCall, SellInvCall
<1>2. CASE BrokerStep
  BY <1>2, SellInvBroker
<1>3. CASE PassStep
  <2>1. /\ pc' = pc /\ \A o \in Attached \cup {"exit"} : ord'[o] = ord[o]
        /\ "take1" \in Attached
    BY <1>3, PassIsEffect
    DEF PassEffect, Attached, OrderSlot, Closing, Protective, Repair
  <2>2. SlotsInv'
    BY <2>1 DEF SlotsInv, Unplaced
  <2> QED  BY <1>3, <2>2, SellInvPass
<1>4. CASE ProcessDies
  BY <1>4
  DEF ProcessDies, Crash, brokerVars, passVars, SlotsInv, SellInv, Over,
      BeforeBracket, GroupFilled, ExitFilled
<1>5. CASE UNCHANGED bothVars
  BY <1>5
  DEF bothVars, vars, brokerVars, passVars, SlotsInv, SellInv, Unplaced,
      GroupFilled, ExitFilled
<1> QED  BY <1>1, <1>2, <1>3, <1>4, <1>5 DEF BothNext

----------------------------------------------------------------------------
(* Theorems about the call beside the monitor.                             *)

LEMMA BothStart ==
    ASSUME BothInit
    PROVE  /\ BothShape /\ StopInv /\ PriceInv /\ WatchInv /\ CoverInv
           /\ PairInv /\ BracketInv /\ ExitStopped /\ SlotsInv /\ SellInv
<1>1. /\ ord = [o \in OrderSlot |-> "none"] /\ filled = 0 /\ pos = 0
      /\ qty = [o \in Closing |-> 0] /\ cancelReq = {}
      /\ pc = "idle" /\ handed = {} /\ exposure = 0 /\ cur = 1
      /\ mpc = "sleep" /\ held = disk /\ sawPos = 0 /\ sawLive = {}
      /\ copy = [i \in {1, 2} |-> IF i = 1 THEN disk ELSE BlankState]
      /\ fresh \in {{}, {1}} /\ faults = {}
  BY DEF BothInit, Init, BrokerInit
<1>2. \E t \in InitialTrades : disk = [BlankState EXCEPT !.trade = t]
  BY DEF BothInit, Init
<1>3. /\ Shape(disk) /\ "product_stop_price" \notin DOMAIN disk.trade
      /\ ~Watch!Monitorable(disk.trade)
  BY <1>2
  DEF InitialTrades, NoTrade, Shape, BlankState, Watch!Monitorable,
      Watch!TerminalTrade
<1>11. /\ Shape(BlankState) /\ "product_stop_price" \notin DOMAIN BlankState.trade
       /\ mpc \in Watch!Idle /\ BlankState.orders = {}
       /\ \A i \in fresh : copy[i] = disk
  BY <1>1 DEF Shape, BlankState, NoTrade, Watch!Idle
<1>4. /\ Replacement \subseteq OrderSlot /\ Repair \subseteq OrderSlot
      /\ Attached \subseteq OrderSlot /\ "exit" \in OrderSlot
      /\ "entry" \in OrderSlot /\ Pair2 \subseteq Replacement
      /\ Pair3 \subseteq Replacement /\ "stop2" \in OrderSlot
      /\ "take2" \in OrderSlot
  BY DEF Attached, Replacement, Repair, OrderSlot, Closing, Protective, Pair2,
         Pair3
<1>5. BothShape
  <2>1. BrokerShape
    BY <1>1, ZeroInRange DEF BrokerShape, Status
  <2>2. StoreShape /\ PassShape
    BY <1>1, <1>3, <1>11 DEF StoreShape, PassShape, Keeps
  <2> QED
    BY <1>1, <2>1, <2>2 DEF BothShape, Sync, Protective
<1>6. StopInv /\ PriceInv
  BY <1>1, <1>3, <1>11 DEF StopInv, StoppedAt, PriceInv, Unpriced, Priced
<1>7. WatchInv
  BY <1>1, <1>3, <1>4, <1>11 DEF WatchInv, Live
<1>8. CoverInv
  BY <1>1, <1>4 DEF CoverInv
<1>9. PairInv
  <2>1. Unplaced(Pair2) /\ Unplaced(Pair3)
    BY <1>1, <1>4 DEF Unplaced
  <2> QED
    BY <1>1, <1>4, <2>1 DEF PairInv, PartialPath, FailurePath
<1>10. BracketInv /\ ExitStopped
  BY <1>1, <1>4 DEF BracketInv, ExitStopped
<1>12. SlotsInv /\ SellInv
  <2>1. /\ Unplaced(Attached) /\ ord["exit"] = "none" /\ ord["take1"] = "none"
        /\ \A o \in Closing : qty[o] = 0
        /\ \A o \in Protective : ord[o] = "none"
    BY <1>1, <1>4 DEF Unplaced, Attached, OrderSlot, Closing
  <2> QED  BY <1>1, <1>4, <2>1 DEF SlotsInv, SellInv, GroupFilled
<1> QED  BY <1>5, <1>6, <1>7, <1>8, <1>9, <1>10, <1>12

\* RepairUnderStop, whatever the environment does: until the call has tried
\* to stop trading the trade in the file carries no stop price, and a pass
\* that does not know the price places nothing.
THEOREM RepairAfterStop == BothSpec => RepairUnderStop
<1>1. BothInit => BothShape /\ StopInv /\ PriceInv
  BY BothStart
<1>2. BothShape /\ StopInv /\ PriceInv /\ [BothNext]_bothVars =>
         (BothShape /\ StopInv /\ PriceInv)'
  BY BothShapeStep, StopInvStep, PriceInvStep
<1>3. BothShape /\ PriceInv /\ [BothNext]_bothVars =>
         (Watch!PlaceRepair /\ pc \notin Over
            => disk.estop \/ "stop" \in faults)
  BY RepairMeansStop
<1> QED  BY <1>1, <1>2, <1>3, PTL DEF BothSpec, RepairUnderStop

\* ExitMeansReplacementFailed, whatever the environment does: an error inside
\* the replacement is all that brings the call from a pair in force to the exit.
THEOREM ExitNotOnReplacement == BothSpec => ExitMeansReplacementFailed
<1>1. BothInit => BothShape /\ PairInv
  BY BothStart
<1>2. BothShape /\ PairInv /\ [BothNext]_bothVars => (BothShape /\ PairInv)'
  BY BothShapeStep, PairInvStep
<1>3. PairInv => (PlaceExit /\ ord'["exit"] = "pending" =>
                    \/ ~\E pair \in Pairs \ {Attached} : AllLive(pair)
                    \/ "replacement" \in faults)
  BY ExitReplacesNothing
<1> QED  BY <1>1, <1>2, <1>3, PTL DEF BothSpec, ExitMeansReplacementFailed

\* ExposureCovered, whatever the environment does and with the monitor beside
\* the call: every way to a position without protection or stop goes through
\* one of the errors that the property names.
THEOREM NothingExposed == BothSpec => []ExposureCovered
<1>1. BothInit => BothShape /\ StopInv /\ WatchInv /\ CoverInv
  BY BothStart
<1>2. BothShape /\ StopInv /\ WatchInv /\ CoverInv /\ [BothNext]_bothVars =>
         (BothShape /\ StopInv /\ WatchInv /\ CoverInv)'
  BY BothShapeStep, StopInvStep, WatchInvStep, CoverInvStep
<1>3. BothShape /\ StopInv /\ CoverInv => ExposureCovered
  BY CoverIsEnough
<1> QED  BY <1>1, <1>2, <1>3, PTL DEF BothSpec

\* ShortTakesBothFills, whatever the environment does: no order is larger than
\* the fill, a group fills once and there is one exit, so that the position is
\* never less than the fill sold once too often.
THEOREM ShortOnlyByBoth == BothSpec => []ShortTakesBothFills
<1> DEFINE Inv == /\ BothShape /\ StopInv /\ WatchInv /\ CoverInv /\ PairInv
                  /\ SlotsInv /\ SellInv
<1>1. BothInit => Inv
  BY BothStart
<1>2. Inv /\ [BothNext]_bothVars => Inv'
  BY BothShapeStep, StopInvStep, WatchInvStep, CoverInvStep, PairInvStep,
     SellInvStep
<1>3. Inv => ShortTakesBothFills
  BY DEF SellInv, ExitFilled, ShortTakesBothFills
<1> QED  BY <1>1, <1>2, <1>3, PTL DEF BothSpec

\* What holds of a call alone holds beside the monitor, whatever the
\* environment does: nothing fills before the bracket is with the broker, and
\* nothing is sold at market, or reported as handled, before the stop is on
\* disk.
THEOREM OrderKept == BothSpec => [](BracketBeforeExposure /\ StopBeforeExit)
<1> DEFINE Inv == /\ BothShape /\ StopInv /\ WatchInv /\ BracketInv
                  /\ ExitStopped
<1>1. BothInit => Inv
  BY BothStart
<1>2. Inv /\ [BothNext]_bothVars => Inv'
  BY BothShapeStep, StopInvStep, WatchInvStep, BracketInvStep, ExitStoppedStep
<1>3. Inv => BracketBeforeExposure /\ StopBeforeExit
  BY DEF BracketInv, BracketPlaced, ExitStopped, StopInv, StoppedAt,
         StopTried, BracketBeforeExposure, StopBeforeExit
<1> QED  BY <1>1, <1>2, <1>3, PTL DEF BothSpec

\* Neither the handlers, nor the call with its old and its fresh copy, nor the
\* monitor, in whatever order they write, takes back the emergency stop or
\* forgets an order that the state file knew.
THEOREM NothingForgotten == BothSpec => [][Keeps(disk, disk')]_bothVars
<1>1. BothInit => BothShape
  BY BothStart
<1>2. BothShape /\ [BothNext]_bothVars => BothShape' /\ Keeps(disk, disk')
  BY BothShapeStep
<1> QED  BY <1>1, <1>2, PTL DEF BothSpec
=============================================================================
