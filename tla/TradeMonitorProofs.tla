-------------------------- MODULE TradeMonitorProofs --------------------------
(***************************************************************************)
(* What the trade monitor keeps for every quantity, situation and number of *)
(* restarts, whatever write or notification fails: its repair never doubles *)
(* a protective order, a loss of protection that stays the same is repaired *)
(* once, and no failure of its emergency stop takes that stop back.         *)
(***************************************************************************)
EXTENDS TradeMonitor, TLAPS

----------------------------------------------------------------------------
(* The broker.                                                             *)

\* The orders of one group sell once: the position is what was bought, or
\* that without the quantity of one protective order.
BrokerInv ==
    /\ BrokerTypeOK
    /\ pos \in (filled - Qty)..filled
    /\ GroupFilled => \A o \in Protective : ord[o] # "active"
    /\ ~GroupFilled => pos = filled

\* Protective orders only leave the live ones unless the monitor places some.
Shrinks == LiveProtection' \subseteq LiveProtection

LEMMA EntryStep == BrokerInv /\ EntryChanges => BrokerInv' /\ Shrinks
<1> SUFFICES ASSUME BrokerInv, EntryChanges PROVE BrokerInv' /\ Shrinks
  OBVIOUS
<1> USE DEF BrokerInv, BrokerTypeOK
<1>1. Qty \in Nat /\ filled \in Nat /\ pos \in Int
  BY QtyIsPositive
<1>2. Protective \subseteq OrderSlot \ {"entry"} /\ "entry" \in OrderSlot
  BY DEF OrderSlot, Closing, Protective, Attached, Replacement, Repair
<1>3. ASSUME NEW n \in Nat, filled' = filled + n, pos' = pos + n,
             filled' <= Qty, UNCHANGED <<qty, cancelReq>>,
             ord' \in [OrderSlot -> Status],
             \A o \in Protective : ord'[o] = ord[o] \/ ord'[o] = "cancelled",
             \A o \in Protective : ord[o] = "filled" => ord'[o] = "filled"
      PROVE  BrokerInv' /\ Shrinks
  <2>1. GroupFilled' <=> GroupFilled
    BY <1>3 DEF GroupFilled
  <2>2. Shrinks
    BY <1>3 DEF Shrinks, LiveProtection, Live
  <2>3. pos' \in (filled' - Qty)..filled' /\ (pos = filled => pos' = filled')
    BY <1>1, <1>3
  <2>4. BrokerTypeOK'
    BY <1>3
  <2>5. GroupFilled' => \A o \in Protective : ord'[o] # "active"
    BY <1>3, <2>1
  <2>6. ~GroupFilled' => pos' = filled'
    BY <2>1, <2>3
  <2> HIDE DEF BrokerTypeOK
  <2> QED  BY <2>2, <2>3, <2>4, <2>5, <2>6
<1>4. CASE EntryAccepted
  <2>1. ord' \in [OrderSlot -> Status] /\ \A o \in Protective : ord'[o] = ord[o]
    BY <1>2, <1>4 DEF EntryAccepted, Status
  <2>2. filled' = filled + 0 /\ pos' = pos + 0 /\ UNCHANGED <<qty, cancelReq>>
    BY <1>1, <1>4 DEF EntryAccepted
  <2> QED  BY <1>1, <1>3, <2>1, <2>2
<1>5. ASSUME NEW n \in 1..Qty, EntryFills(n) PROVE BrokerInv' /\ Shrinks
  <2>1. ord' \in [OrderSlot -> Status] /\ \A o \in Protective : ord'[o] = ord[o]
    BY <1>2, <1>5 DEF EntryFills, Status
  <2>2. /\ filled' = filled + n /\ pos' = pos + n /\ n \in 1..(Qty - filled)
        /\ UNCHANGED <<qty, cancelReq>>
    BY <1>5 DEF EntryFills
  <2> QED  BY <1>1, <1>3, <2>1, <2>2
<1>6. ASSUME NEW s \in {"cancelled", "rejected"}, EntryEnds(s)
      PROVE  BrokerInv' /\ Shrinks
  <2>1. /\ ord' \in [OrderSlot -> Status]
        /\ \A o \in Protective : ord'[o] = ord[o] \/ ord'[o] = "cancelled"
        /\ \A o \in Protective : ord[o] = "filled" => ord'[o] = "filled"
    BY <1>2, <1>6 DEF EntryEnds, Moved, Status, Live
  <2>2. filled' = filled + 0 /\ pos' = pos + 0 /\ UNCHANGED <<qty, cancelReq>>
    BY <1>1, <1>6 DEF EntryEnds
  <2> QED  BY <1>1, <1>3, <2>1, <2>2
<1> QED  BY <1>4, <1>5, <1>6 DEF EntryChanges

\* The changes of a closing order that ClosingEvent is made of.
LEMMA ClosingStep ==
    ASSUME BrokerInv, NEW o \in Closing,
           \/ ClosingAccepted(o) \/ ClosingRejected(o)
           \/ o \in Protective /\ (ClosingExpires(o) \/ ProtectiveFills(o))
    PROVE  BrokerInv' /\ Shrinks
<1> USE DEF BrokerInv, BrokerTypeOK
<1>1. Qty \in Nat /\ filled \in Nat /\ pos \in Int
  BY QtyIsPositive
<1>2. Protective \subseteq OrderSlot /\ o \in OrderSlot
  BY DEF OrderSlot, Closing
<1>3. CASE ClosingAccepted(o)
  <2>1. /\ ord' \in [OrderSlot -> Status]
        /\ \A p \in Protective : p # o => ord'[p] = ord[p]
        /\ ord[o] = "pending" /\ ord'[o] = "active"
        /\ o \in Protective => ~GroupFilled
    BY <1>2, <1>3 DEF ClosingAccepted, Status
  <2>2. GroupFilled' = GroupFilled
    BY <2>1 DEF GroupFilled
  <2>3. Shrinks
    BY <2>1 DEF Shrinks, LiveProtection, Live
  <2> QED  BY <1>3, <2>1, <2>2, <2>3 DEF ClosingAccepted
<1>4. CASE ClosingRejected(o) \/ ClosingExpires(o)
  <2>1. /\ ord' \in [OrderSlot -> Status]
        /\ \A p \in Protective : p # o => ord'[p] = ord[p]
        /\ ord[o] # "filled" /\ ord'[o] \in {"rejected", "cancelled"}
    BY <1>2, <1>4 DEF ClosingRejected, ClosingExpires, Status
  <2>2. GroupFilled' = GroupFilled
    BY <2>1 DEF GroupFilled
  <2>3. Shrinks
    BY <2>1 DEF Shrinks, LiveProtection, Live
  <2> QED
    BY <1>4, <2>1, <2>2, <2>3 DEF ClosingRejected, ClosingExpires
<1>5. CASE o \in Protective /\ ProtectiveFills(o)
  <2>1. /\ ord' \in [OrderSlot -> Status]
        /\ \A p \in Protective : p # o => /\ ord'[p] # "active"
                                          /\ ord'[p] \in Live => ord[p] \in Live
        /\ ord[o] = "active" /\ ord'[o] = "filled"
    BY <1>2, <1>5 DEF ProtectiveFills, Moved, Status, Live
  <2>2. GroupFilled' /\ ~GroupFilled
    BY <1>5, <2>1 DEF GroupFilled
  <2>3. Shrinks
    BY <2>1 DEF Shrinks, LiveProtection, Live
  <2>4. pos' = pos - qty[o] /\ qty[o] \in 0..Qty /\ UNCHANGED <<filled, qty, cancelReq>>
    BY <1>5 DEF ProtectiveFills
  <2>5. pos' \in (filled' - Qty)..filled'
    BY <1>1, <2>2, <2>4
  <2> QED  BY <1>5, <2>1, <2>2, <2>3, <2>4, <2>5
<1> QED  BY <1>3, <1>4, <1>5

LEMMA StillOne == OneOrderPerKind /\ Shrinks => OneOrderPerKind'
  BY DEF OneOrderPerKind, Shrinks

----------------------------------------------------------------------------
(* The state file and the copy of a pass.                                  *)

MarkerKey == "protective_resubmit_issue_key"

\* A trade that can be judged is marked with this loss.
ForLoss(s, loss) ==
    "product_stop_price" \in DOMAIN s.trade
        => MarkerKey \in DOMAIN s.trade /\ s.trade[MarkerKey] = loss

\* A loss that was resubmitted is the marked one, in the file and in what a
\* pass has read, until protection has been seen whole.  An error that ends the
\* task may leave the file with the mark of an attempt that was not made.
MarkInv ==
    /\ tried # {} \/ mpc = "place" => fresh = {}
    /\ tried # {} /\ mpc \notin {"place", "lost"} => ForLoss(disk, tried)
    /\ tried # {} /\ mpc \in {"quote", "positions", "orders", "executions"}
         => ForLoss(held, tried)
    /\ mpc = "place" => ForLoss(disk, Missing(sawLive)) /\ Missing(sawLive) # tried

Books ==
    /\ StateOK(disk) /\ StateOK(held)
    /\ fresh \subseteq {1}
    /\ MarkInv

\* Keys that say nothing of a loss leave the mark alone.
LEMMA Recorded ==
    ASSUME NEW s, StateOK(s), NEW dict, DOMAIN dict \subseteq TradeKeys
    PROVE  /\ StateOK(WithTrade(s, dict))
           /\ WithTrade(s, dict).trade = Overlay(s.trade, dict)
           /\ DOMAIN dict \cap {"product_stop_price", MarkerKey} = {}
                => \A loss : ForLoss(s, loss) => ForLoss(WithTrade(s, dict), loss)
<1> DEFINE t == Overlay(s.trade, dict)
<1>1. /\ WithTrade(s, dict).trade = t
      /\ DOMAIN WithTrade(s, dict) = DOMAIN s
      /\ WithTrade(s, dict).estop = s.estop
  BY DEF StateOK, WithTrade, BlankState
<1>2. DOMAIN t = DOMAIN s.trade \cup DOMAIN dict
  BY DEF Overlay
<1>3. StateOK(WithTrade(s, dict))
  BY <1>1, <1>2 DEF StateOK
<1>4. ASSUME DOMAIN dict \cap {"product_stop_price", MarkerKey} = {},
             NEW loss, ForLoss(s, loss)
      PROVE  ForLoss(WithTrade(s, dict), loss)
  <2>1. MarkerKey \in DOMAIN s.trade => t[MarkerKey] = s.trade[MarkerKey]
    BY <1>4 DEF Overlay
  <2> QED  BY <1>1, <1>2, <1>4, <2>1 DEF ForLoss
<1> QED  BY <1>1, <1>3, <1>4

LEMMA Replaced ==
    ASSUME NEW s, StateOK(s), NEW dict, DOMAIN dict \subseteq TradeKeys
    PROVE  /\ StateOK([s EXCEPT !.trade = dict])
           /\ [s EXCEPT !.trade = dict].trade = dict
  BY DEF StateOK, BlankState

\* What a transaction may leave: the new state, or an error before or after it
\* was written.
LEMMA TransactWays ==
    ASSUME NEW new, NEW next, Transact(new, next)
    PROVE  \/ disk' = new /\ fresh' = {} /\ mpc' \in {next, "lost"}
           \/ UNCHANGED <<disk, fresh>> /\ mpc' = "lost"
  BY DEF Transact, Write

LEMMA EscalateWays ==
    ASSUME Escalate
    PROVE  /\ UNCHANGED <<held, sawPos, sawLive>>
           /\ \/ disk' = Stopped /\ fresh' = {} /\ mpc' \in Idle
              \/ UNCHANGED <<disk, fresh>> /\ mpc' = "lost"
  BY DEF Escalate, Transact, Write, Idle

\* The stop is written beside the marks.
LEMMA StoppedOK ==
    ASSUME StateOK(disk)
    PROVE  /\ StateOK(Stopped) /\ Stopped.estop
           /\ \A loss : ForLoss(disk, loss) => ForLoss(Stopped, loss)
<1> DEFINE noted == WithTrade(disk, [emergency_stop_reason |-> TRUE])
<1>1. /\ StateOK(noted)
      /\ \A loss : ForLoss(disk, loss) => ForLoss(noted, loss)
  BY Recorded DEF TradeKeys, MarkerKey
<1>2. Stopped = [noted EXCEPT !.estop = TRUE]
  BY DEF Stopped
<1> HIDE DEF noted
<1>3. StateOK(Stopped) /\ Stopped.trade = noted.trade /\ Stopped.estop
  BY <1>1, <1>2 DEF StateOK, BlankState
<1> QED  BY <1>1, <1>3 DEF ForLoss

\* An escalation keeps the marks: it writes other keys.
LEMMA EscalateStep ==
    ASSUME Books, Escalate, UNCHANGED tried \/ tried' = Missing(sawLive),
           tried' # tried => mpc = "place", mpc # "lost",
           mpc = "place" => tried' = Missing(sawLive)
    PROVE  Books' /\ mpc' \in Idle
<1>1. StateOK(disk) /\ StateOK(held)
  BY DEF Books
<1>2. CASE UNCHANGED <<disk, fresh>> /\ mpc' = "lost"
  BY <1>1, <1>2, EscalateWays DEF Books, MarkInv, Idle
<1>3. CASE disk' = Stopped /\ fresh' = {} /\ mpc' \in Idle
  <2>1. tried' # {} => ForLoss(disk, tried')
    BY DEF Books, MarkInv
  <2>2. StateOK(disk') /\ (tried' # {} => ForLoss(disk', tried'))
    BY <1>1, <1>3, <2>1, StoppedOK
  <2>3. UNCHANGED held
    BY EscalateWays
  <2> QED  BY <1>1, <1>3, <2>2, <2>3 DEF Books, MarkInv, Idle
<1> QED  BY <1>2, <1>3, EscalateWays

LEMMA PassBooks ==
    ASSUME Books,
           \/ LoadFails \/ StartPass \/ QuoteRecorded \/ ReadPositions
           \/ ReadOrders \/ ClosedByProtection \/ PricesUnknown \/ Confirmed
    PROVE  Books'
<1> USE DEF Books, MarkInv
<1>1. CASE StartPass  BY <1>1 DEF StartPass
<1>2. CASE QuoteRecorded
  <2> DEFINE new == WithTrade(disk, [monitor_last_bid |-> TRUE])
  <2>1. /\ Transact(new, "positions") /\ held' = disk' /\ mpc = "quote"
        /\ UNCHANGED <<sawLive, tried>>
    BY <1>2 DEF QuoteRecorded
  <2>2. StateOK(new) /\ \A loss : ForLoss(disk, loss) => ForLoss(new, loss)
    BY Recorded DEF TradeKeys, MarkerKey
  <2> HIDE DEF new
  <2>3. CASE disk' = new /\ fresh' = {} /\ mpc' \in {"positions", "lost"}
    BY <2>1, <2>2, <2>3
  <2>4. CASE UNCHANGED <<disk, fresh>> /\ mpc' = "lost"
    BY <2>1, <2>4
  <2> QED  BY <2>1, <2>3, <2>4, TransactWays
<1>3. CASE LoadFails \/ ReadPositions \/ ReadOrders \/ PricesUnknown \/ Confirmed
  BY <1>3 DEF LoadFails, ReadPositions, ReadOrders, PricesUnknown, Confirmed
<1>4. CASE ClosedByProtection
  <2> DEFINE new == [disk EXCEPT !.trade = NoTrade]
  <2>1. PICK next \in {"sleep", "lost"} : Transact(new, next)
    BY <1>4 DEF ClosedByProtection, AfterNotice
  <2>2. mpc = "executions" /\ UNCHANGED <<held, sawLive, tried>>
    BY <1>4 DEF ClosedByProtection
  <2>3. DOMAIN NoTrade = {}
    BY DEF NoTrade
  <2>4. StateOK(new) /\ new.trade = NoTrade
    BY <2>3, Replaced
  <2> HIDE DEF new
  <2>5. \A loss : ForLoss(new, loss)
    BY <2>3, <2>4 DEF ForLoss
  <2>6. CASE disk' = new /\ fresh' = {} /\ mpc' \in {"sleep", "lost"}
    BY <2>2, <2>4, <2>5, <2>6
  <2>7. CASE UNCHANGED <<disk, fresh>> /\ mpc' = "lost"
    BY <2>2, <2>7
  <2> QED  BY <2>1, <2>6, <2>7, TransactWays
<1> QED  BY <1>1, <1>2, <1>3, <1>4

LEMMA WholeBooks == Books /\ ProtectionWhole => Books'
<1> SUFFICES ASSUME Books, ProtectionWhole PROVE Books'
  OBVIOUS
<1> USE DEF Books
<1>1. tried' = {} /\ held' = held
  BY DEF ProtectionWhole
<1>2. StateOK(disk') /\ fresh' \subseteq {1} /\ mpc' \in {"sleep", "lost"}
  <2>1. CASE UNCHANGED <<disk, fresh>> /\ mpc' = "sleep"
    BY <2>1
  <2>2. ASSUME NEW S,
               Transact(WithTrade(disk,
                  Overlay(Without(held.trade, MarkerKey),
                          [protective_orders_confirmed |-> TRUE,
                           protective_orders |-> S])), "sleep")
        PROVE  StateOK(disk') /\ fresh' \subseteq {1} /\ mpc' \in {"sleep", "lost"}
    <3> DEFINE dict == Overlay(Without(held.trade, MarkerKey),
                               [protective_orders_confirmed |-> TRUE,
                                protective_orders |-> S])
    <3>1. DOMAIN dict \subseteq TradeKeys
      BY DEF Overlay, Without, StateOK, TradeKeys
    <3>2. Transact(WithTrade(disk, dict), "sleep")
      BY <2>2
    <3> HIDE DEF dict
    <3>3. StateOK(WithTrade(disk, dict))
      BY <3>1, Recorded
    <3>4. \/ /\ disk' = WithTrade(disk, dict) /\ fresh' = {}
             /\ mpc' \in {"sleep", "lost"}
          \/ UNCHANGED <<disk, fresh>> /\ mpc' = "lost"
      BY <3>2, TransactWays
    <3> QED  BY <3>3, <3>4
  <2> QED  BY <2>1, <2>2 DEF ProtectionWhole, MarkerKey
<1> QED  BY <1>1, <1>2 DEF MarkInv

LEMMA MarkBooks == Books /\ MarkResubmit => Books'
<1> SUFFICES ASSUME Books, MarkResubmit PROVE Books'
  OBVIOUS
<1> USE DEF Books
<1> DEFINE dict == Overlay(held.trade,
                     [protective_resubmit_issue_key |-> Missing(sawLive)])
<1>1. /\ DOMAIN dict \subseteq TradeKeys
      /\ MarkerKey \in DOMAIN dict /\ dict[MarkerKey] = Missing(sawLive)
  BY DEF Overlay, StateOK, TradeKeys, MarkerKey
<1>2. /\ Transact(WithTrade(disk, dict), "place") /\ held' = disk'
      /\ mpc = "executions" /\ UNCHANGED <<sawLive, tried>>
      /\ Missing(sawLive) # {} /\ ~AlreadyResubmitted
      /\ "product_stop_price" \in DOMAIN held.trade
  BY DEF MarkResubmit, Judging
<1>3. Missing(sawLive) # tried
  <2> SUFFICES ASSUME tried # {}, tried = Missing(sawLive) PROVE FALSE
    BY <1>2
  <2>1. ForLoss(held, tried)
    BY <1>2 DEF MarkInv
  <2> QED  BY <1>2, <2>1 DEF ForLoss, AlreadyResubmitted, MarkerKey
<1> HIDE DEF dict
<1>4. CASE UNCHANGED <<disk, fresh>> /\ mpc' = "lost"
  BY <1>2, <1>4 DEF MarkInv
<1>5. CASE disk' = WithTrade(disk, dict) /\ fresh' = {} /\ mpc' \in {"place", "lost"}
  <2>1. StateOK(disk') /\ disk'.trade = Overlay(disk.trade, dict)
    BY <1>1, <1>5, Recorded
  <2>2. ForLoss(disk', Missing(sawLive'))
    <3>1. /\ MarkerKey \in DOMAIN disk'.trade
          /\ disk'.trade[MarkerKey] = Missing(sawLive)
      BY <1>1, <2>1 DEF Overlay
    <3> QED  BY <1>2, <3>1 DEF ForLoss
  <2>3. Missing(sawLive)' # tried'
    BY <1>2, <1>3 DEF Missing
  <2>4. ForLoss(disk, Missing(sawLive))'
    BY <2>2 DEF ForLoss, Missing
  <2>5. MarkInv'
    BY <1>5, <2>3, <2>4 DEF MarkInv
  <2> QED  BY <1>2, <1>5, <2>1, <2>5
<1>6. \/ disk' = WithTrade(disk, dict) /\ fresh' = {} /\ mpc' \in {"place", "lost"}
      \/ UNCHANGED <<disk, fresh>> /\ mpc' = "lost"
  BY <1>2, TransactWays
<1> QED  BY <1>4, <1>5, <1>6

LEMMA RepairBooks == Books /\ (PlaceRepair \/ RepairRecorded) => Books'
<1> SUFFICES ASSUME Books, PlaceRepair \/ RepairRecorded PROVE Books'
  OBVIOUS
<1> USE DEF Books
<1>1. CASE PlaceRepair
  BY <1>1 DEF PlaceRepair, MarkInv
<1>2. CASE RepairRecorded
  <2>1. tried' = {} /\ held' = held
    BY <1>2 DEF RepairRecorded
  <2>2. StateOK(disk') /\ fresh' \subseteq {1} /\ mpc' \in {"sleep", "lost"}
    <3>1. PICK S, next :
            /\ next \in {"sleep", "lost"}
            /\ Transact([disk EXCEPT !.trade =
                     Without(Overlay(@, [protective_orders_confirmed |-> TRUE,
                                         protective_orders |-> S]), MarkerKey)],
                        next)
      BY <1>2 DEF RepairRecorded, MarkerKey, AfterNotice
    <3> DEFINE dict == Without(Overlay(disk.trade,
                                 [protective_orders_confirmed |-> TRUE,
                                  protective_orders |-> S]), MarkerKey)
               new == [disk EXCEPT !.trade = dict]
    <3>2. DOMAIN dict \subseteq TradeKeys
      BY DEF Overlay, Without, StateOK, TradeKeys
    <3>3. Transact(new, next)
      BY <3>1
    <3> HIDE DEF dict
    <3>4. StateOK(new)
      BY <3>2, Replaced
    <3> HIDE DEF new
    <3>5. \/ disk' = new /\ fresh' = {} /\ mpc' \in {next, "lost"}
          \/ UNCHANGED <<disk, fresh>> /\ mpc' = "lost"
      BY <3>3, TransactWays
    <3> QED  BY <3>1, <3>4, <3>5
  <2> QED  BY <2>1, <2>2 DEF MarkInv
<1> QED  BY <1>1, <1>2

LEMMA AroundBooks == Books /\ (EntryEvent \/ ClosingEvent \/ Restart) => Books'
<1> SUFFICES ASSUME Books, EntryEvent \/ ClosingEvent \/ Restart PROVE Books'
  OBVIOUS
<1> USE DEF Books
<1>1. CASE EntryEvent
  <2> DEFINE dict == Payload(EntryStatus', filled')
  <2>1. /\ DOMAIN dict \subseteq TradeKeys
        /\ DOMAIN dict \cap {"product_stop_price", MarkerKey} = {}
    BY DEF Payload, TradeKeys, MarkerKey
  <2>2. /\ \/ disk' = disk \/ disk' = WithTrade(disk, dict)
           \/ 1 \in fresh /\ disk' = [disk EXCEPT !.trade = dict]
        /\ UNCHANGED <<fresh, mpc, held, sawLive, tried>> /\ mpc # "place"
    BY <1>1 DEF EntryEvent, passVars, Awaiting, Idle
  <2> HIDE DEF dict
  <2>3. StateOK(disk')
    BY <2>1, <2>2, Recorded, Replaced
  <2>4. tried # {} => \A loss : ForLoss(disk, loss) => ForLoss(disk', loss)
    BY <2>1, <2>2, Recorded DEF MarkInv
  <2> QED  BY <2>2, <2>3, <2>4 DEF MarkInv
<1>2. CASE ClosingEvent
  BY <1>2 DEF ClosingEvent, monitorVars, passVars, MarkInv
<1>3. CASE Restart
  BY <1>3 DEF Restart, Awaiting, MarkInv
<1> QED  BY <1>1, <1>2, <1>3

----------------------------------------------------------------------------
(* The pass and its orders.                                                *)

\* From the time its orders are read to the repair, the snapshot shows every
\* protective order that is live: only the repair adds one.
Pass ==
    /\ mpc \in Awaiting \cup Idle \cup {"place"}
    /\ sawPos \in (-Qty)..Qty
    /\ sawLive \subseteq Protective
    /\ tried \subseteq Kind
    /\ mpc \in {"executions", "place"} => LiveProtection \subseteq sawLive

Orderly == BrokerInv /\ Pass /\ OneOrderPerKind

LEMMA SameOrders ==
    ASSUME BrokerInv, UNCHANGED brokerVars
    PROVE  BrokerInv' /\ Shrinks
  BY DEF BrokerInv, BrokerTypeOK, brokerVars, Shrinks, LiveProtection,
     GroupFilled

LEMMA PassOrders ==
    ASSUME Orderly,
           \/ LoadFails \/ StartPass \/ QuoteFails \/ QuoteRecorded
           \/ ReadPositions \/ ReadOrders \/ SnapshotFails \/ ClosedByProtection
           \/ MissingWithoutFill \/ PricesUnknown \/ ProtectionWhole
           \/ StillMissing \/ MarkResubmit \/ Confirmed \/ RepairRecorded
           \/ NotConfirmed
    PROVE  Orderly'
<1>1. UNCHANGED brokerVars
  BY DEF LoadFails, StartPass, QuoteFails, QuoteRecorded, ReadPositions,
     ReadOrders, SnapshotFails, ClosedByProtection, MissingWithoutFill, PricesUnknown,
     ProtectionWhole, StillMissing, MarkResubmit, Confirmed, RepairRecorded,
     NotConfirmed
<1>2. BrokerInv' /\ Shrinks /\ OneOrderPerKind'
  BY <1>1, SameOrders, StillOne DEF Orderly
<1>3. LiveProtection \subseteq Protective
  BY DEF LiveProtection
<1>4. pos \in (-Qty)..Qty
  BY QtyIsPositive DEF Orderly, BrokerInv, BrokerTypeOK
<1>5. Pass'
  <2> USE <1>1, <1>2, <1>3 DEF Orderly, Pass, Shrinks, Awaiting, Idle
  <2>1. CASE QuoteFails \/ SnapshotFails \/ MissingWithoutFill \/ StillMissing
               \/ NotConfirmed
    <3>1. Escalate /\ UNCHANGED tried
      BY <2>1 DEF QuoteFails, SnapshotFails, MissingWithoutFill, StillMissing,
         NotConfirmed
    <3> QED  BY <3>1, EscalateWays
  <2>2. CASE LoadFails \/ StartPass \/ PricesUnknown \/ Confirmed
    BY <2>2 DEF LoadFails, StartPass, PricesUnknown, Confirmed
  <2>3. CASE QuoteRecorded \/ ClosedByProtection \/ ProtectionWhole
               \/ RepairRecorded
    <3>1. /\ mpc' \in {"positions", "sleep", "lost"}
          /\ UNCHANGED <<sawPos, sawLive>> /\ tried' \in {tried, {}}
      BY <2>3 DEF QuoteRecorded, ClosedByProtection, ProtectionWhole,
         RepairRecorded, Transact, AfterNotice
    <3> QED  BY <3>1
  <2>4. CASE ReadPositions
    BY <1>4, <2>4 DEF ReadPositions
  <2>5. CASE ReadOrders
    BY <2>5 DEF ReadOrders
  <2>6. CASE MarkResubmit
    BY <2>6 DEF MarkResubmit, Judging, Transact
  <2> QED  BY <2>1, <2>2, <2>3, <2>4, <2>5, <2>6
<1> QED  BY <1>2, <1>5 DEF Orderly

\* Orders of S placed into free slots, one of each kind that is missing.
LEMMA PlaceStep ==
    ASSUME Orderly, mpc = "place", NEW K \in SUBSET Missing(sawLive),
           SlotsFree(K), NEW status \in {"pending", "staged"},
           Place({RepairOf(k) : k \in K}, status)
    PROVE  BrokerInv' /\ OneOrderPerKind'
<1> DEFINE S == {RepairOf(k) : k \in K}
<1> USE DEF Orderly, Pass
<1>1. S \subseteq Repair /\ Repair \subseteq Protective
      /\ Protective \subseteq Closing /\ Closing \subseteq OrderSlot
  BY DEF RepairOf, Repair, Protective, Closing, OrderSlot
<1>2. /\ \A o \in S : ord[o] \in {"none", "cancelled", "rejected"}
      /\ \A o \in S : ord'[o] = status
      /\ \A o \in OrderSlot \ S : ord'[o] = ord[o]
      /\ ord' \in [OrderSlot -> Status]
  <2>1. ord' = [o \in OrderSlot |-> IF o \in S THEN status ELSE ord[o]]
    BY DEF Place
  <2>2. \A o \in S : ord[o] \in {"none", "cancelled", "rejected"}
    BY DEF SlotsFree
  <2> HIDE DEF S
  <2> QED  BY <1>1, <2>1, <2>2 DEF BrokerInv, BrokerTypeOK, Status
<1>3. qty' \in [Closing -> 0..Qty] /\ UNCHANGED <<filled, pos, cancelReq>>
  <2>1. (IF sawPos > 0 THEN sawPos ELSE -sawPos) \in 0..Qty
    BY QtyIsPositive
  <2> QED  BY <2>1 DEF Place, BrokerInv, BrokerTypeOK
<1>4. BrokerInv'
  <2>1. GroupFilled' <=> GroupFilled
    <3> HIDE DEF S
    <3> QED  BY <1>1, <1>2 DEF GroupFilled
  <2>2. \A o \in Protective : ord'[o] = "active" => ord[o] = "active"
    <3> HIDE DEF S
    <3> QED  BY <1>1, <1>2
  <2> HIDE DEF S
  <2> QED  BY <1>2, <1>3, <2>1, <2>2 DEF BrokerInv, BrokerTypeOK
<1>5. \A k \in K : LiveProtection \cap Orders(k) = {}
  BY DEF Missing
<1>6. \A k \in Kind : k \in K => S \cap Orders(k) = {RepairOf(k)}
  BY DEF Kind, Orders, RepairOf, Missing
<1>7. \A k \in Kind : k \notin K => S \cap Orders(k) = {}
  BY DEF Kind, Orders, RepairOf, Missing
<1>8. LiveProtection' \subseteq LiveProtection \cup S
  <2> HIDE DEF S
  <2> QED  BY <1>1, <1>2 DEF LiveProtection
<1>9. OneOrderPerKind'
  <2> SUFFICES ASSUME NEW k \in Kind, NEW o \in LiveProtection' \cap Orders(k),
                      NEW p \in LiveProtection' \cap Orders(k)
               PROVE  o = p
    BY DEF OneOrderPerKind
  <2> HIDE DEF S
  <2>1. CASE k \in K
    BY <1>5, <1>6, <1>8, <2>1
  <2>2. CASE k \notin K
    BY <1>7, <1>8, <2>2 DEF OneOrderPerKind
  <2> QED  BY <2>1, <2>2
<1> QED  BY <1>4, <1>9

LEMMA RepairOrders == Orderly /\ (PlaceRepair \/ PlaceFails) => Orderly'
<1> SUFFICES ASSUME Orderly, PlaceRepair \/ PlaceFails PROVE Orderly'
  OBVIOUS
<1> USE DEF Orderly
<1>1. mpc' \in {"confirm"} \cup Idle /\ UNCHANGED <<sawPos, sawLive>>
      /\ tried' = Missing(sawLive)
  BY EscalateWays DEF PlaceRepair, PlaceFails, Idle
<1>2. Pass'
  BY <1>1 DEF Pass, Missing, Awaiting, Idle
<1>3. CASE PlaceRepair
  BY <1>2, <1>3, PlaceStep DEF PlaceRepair
<1>4. CASE PlaceFails /\ UNCHANGED brokerVars
  BY <1>2, <1>4, SameOrders, StillOne
<1>5. CASE PlaceFails /\ Missing(sawLive) = Kind /\ SlotsFree({"stop_loss"})
             /\ Place({"stop4"}, "staged")
  <2>1. {"stop4"} = {RepairOf(k) : k \in {"stop_loss"}}
    BY DEF RepairOf
  <2>2. {"stop_loss"} \in SUBSET Missing(sawLive) /\ mpc = "place"
    BY <1>5 DEF Kind, PlaceFails
  <2> QED  BY <1>2, <1>5, <2>1, <2>2, PlaceStep
<1> QED  BY <1>3, <1>4, <1>5 DEF PlaceFails

LEMMA AroundOrders == Orderly /\ (EntryEvent \/ ClosingEvent \/ Restart) => Orderly'
<1> SUFFICES ASSUME Orderly, EntryEvent \/ ClosingEvent \/ Restart PROVE Orderly'
  OBVIOUS
<1>1. BrokerInv' /\ Shrinks
  <2>1. CASE EntryEvent
    BY <2>1, EntryStep DEF EntryEvent, Orderly
  <2>2. CASE ClosingEvent
    BY <2>2, ClosingStep DEF ClosingEvent, Orderly, Closing
  <2>3. CASE Restart
    BY <2>3, SameOrders DEF Restart, Orderly
  <2> QED  BY <2>1, <2>2, <2>3
<1>2. /\ UNCHANGED <<sawPos, sawLive, tried>>
      /\ UNCHANGED mpc \/ mpc' = "sleep"
  BY DEF EntryEvent, ClosingEvent, Restart, monitorVars, passVars
<1>3. Pass'
  BY <1>1, <1>2 DEF Orderly, Pass, Shrinks, Idle
<1> QED  BY <1>1, <1>3, StillOne DEF Orderly

----------------------------------------------------------------------------
(* Both parts together.                                                    *)

IInv == Books /\ Orderly /\ restarts \in 0..MaxRestarts

LEMMA InitIInv == Init => IInv
<1> SUFFICES ASSUME Init PROVE IInv
  OBVIOUS
<1>1. PICK situation \in Situations, n \in 1..Qty :
        /\ n = Qty <=> situation = "protected"
        /\ ord = [o \in OrderSlot |-> IF o = "entry" THEN EntryLeft(situation)
                                      ELSE ClosingLeft(situation, o)]
        /\ qty = [o \in Closing |-> IF o \in Attached THEN Qty
                                    ELSE IF o \in PairLeft(situation) THEN n
                                    ELSE 0]
        /\ filled = n
        /\ pos = n
        /\ cancelReq = IF situation \in {"unprotected", "replaced"}
                       THEN {"entry"} ELSE {}
        /\ disk = StateLeft(situation, n)
        /\ fresh \in IF Handlers THEN {{}, {1}} ELSE {{}}
  BY DEF Init
<1>2. /\ mpc = "sleep" /\ held = disk /\ sawPos = 0 /\ sawLive = {}
      /\ tried = {} /\ restarts = 0
  BY DEF Init
<1>3. Books
  <2>1. StateOK(disk)
    BY <1>1, MonitorAssumption
    DEF StateLeft, StateOK, BlankState, Payload, Overlay, TradeKeys, NoTrade
  <2> QED  BY <1>1, <1>2, <2>1 DEF Books, MarkInv
<1>4. BrokerInv
  <2>1. ord \in [OrderSlot -> Status]
    BY <1>1 DEF EntryLeft, ClosingLeft, Status
  <2>2. \A o \in Protective : ord[o] \in {"active", "cancelled", "none"}
    BY <1>1 DEF ClosingLeft, OrderSlot, Closing, Protective, Attached,
       Replacement, Repair
  <2>3. qty \in [Closing -> 0..Qty] /\ filled \in 0..Qty /\ pos = filled
        /\ pos \in Int
    BY <1>1, QtyIsPositive
  <2>4. cancelReq \subseteq OrderSlot
    BY <1>1 DEF OrderSlot
  <2>5. pos \in (filled - Qty)..filled
    BY <2>3, QtyIsPositive
  <2> QED
    BY <2>1, <2>2, <2>3, <2>4, <2>5 DEF BrokerInv, BrokerTypeOK, GroupFilled
<1>5. Pass
  BY <1>2, QtyIsPositive DEF Pass, Idle
<1>6. OneOrderPerKind
  <2>1. \A o \in LiveProtection : o \in Attached \/ o \in {"stop2", "take2"}
    BY <1>1 DEF LiveProtection, ClosingLeft, PairLeft, Live, OrderSlot, Closing,
       Protective, Attached, Replacement, Repair
  <2>2. LiveProtection \cap Attached = {}
          \/ LiveProtection \cap {"stop2", "take2"} = {}
    BY <1>1 DEF LiveProtection, ClosingLeft, PairLeft, Live, OrderSlot, Closing,
       Protective, Attached, Replacement, Repair
  <2> QED  BY <2>1, <2>2 DEF OneOrderPerKind, Kind, Orders, Attached
<1> QED  BY <1>2, <1>3, <1>4, <1>5, <1>6, MonitorAssumption DEF IInv, Orderly

LEMMA StepIInv == IInv /\ [Next]_vars => IInv'
<1> SUFFICES ASSUME IInv, [Next]_vars PROVE IInv'
  OBVIOUS
<1>1. restarts' \in 0..MaxRestarts
  BY MonitorAssumption DEF IInv, Next, vars, EntryEvent, ClosingEvent, Restart
<1>2. CASE EntryEvent \/ ClosingEvent \/ Restart
  BY <1>1, <1>2, AroundBooks, AroundOrders DEF IInv
<1>3. CASE Monitor
  <2>1. Orderly'
    BY <1>3, PassOrders, RepairOrders DEF Monitor, IInv
  <2>2. Books
    BY DEF IInv
  <2>3. ASSUME \/ LoadFails \/ StartPass \/ QuoteRecorded \/ ReadPositions
               \/ ReadOrders \/ ClosedByProtection \/ PricesUnknown
               \/ Confirmed
        PROVE  Books'
    BY <2>2, <2>3, PassBooks
  <2>4. ASSUME ProtectionWhole \/ MarkResubmit \/ PlaceRepair \/ RepairRecorded
        PROVE  Books'
    BY <2>2, <2>4, WholeBooks, MarkBooks, RepairBooks
  <2>5. ASSUME \/ QuoteFails \/ SnapshotFails \/ MissingWithoutFill
               \/ StillMissing \/ NotConfirmed \/ PlaceFails
        PROVE  Books'
    <3>1. /\ Escalate
          /\ UNCHANGED tried \/ tried' = Missing(sawLive)
          /\ tried' # tried => mpc = "place"
          /\ mpc = "place" => tried' = Missing(sawLive)
          /\ mpc # "lost"
      BY <2>5 DEF QuoteFails, SnapshotFails, MissingWithoutFill, StillMissing,
         NotConfirmed, PlaceFails, Judging
    <3> QED  BY <2>2, <3>1, EscalateStep
  <2> QED  BY <1>1, <1>3, <2>1, <2>3, <2>4, <2>5 DEF Monitor, IInv
<1>4. CASE UNCHANGED vars
  <2>1. Orderly'
    <3>1. BrokerInv' /\ Shrinks
      BY <1>4, SameOrders DEF vars, IInv, Orderly
    <3> QED
      BY <1>4, <3>1, StillOne
      DEF vars, monitorVars, passVars, IInv, Orderly, Pass, Shrinks
  <2>2. Books'
    BY <1>4 DEF vars, monitorVars, passVars, IInv, Books, MarkInv, ForLoss,
       StateOK, Missing
  <2> QED  BY <1>1, <2>1, <2>2 DEF IInv
<1> QED  BY <1>2, <1>3, <1>4 DEF Next

LEMMA Invariance == Spec => []IInv
  BY InitIInv, StepIInv, PTL DEF Spec

----------------------------------------------------------------------------
(* The end of the monitor's task.                                          *)

\* Keys written into the trade do not take the stop away.
LEMMA StopStays ==
    ASSUME NEW s, StateOK(s), NEW dict
    PROVE  /\ WithTrade(s, dict).estop = s.estop
           /\ [s EXCEPT !.trade = dict].estop = s.estop
  BY DEF StateOK, WithTrade, BlankState

LEMMA DeathStep == IInv /\ DeathIsStopped /\ [Next]_vars => DeathIsStopped'
<1> SUFFICES ASSUME IInv, DeathIsStopped, [Next]_vars, mpc' = "dead"
             PROVE  disk'.estop
  BY DEF DeathIsStopped
<1>1. StateOK(disk)
  BY DEF IInv, Books
<1>2. CASE EntryEvent
  <2>1. disk.estop
    BY <1>2 DEF EntryEvent, passVars, DeathIsStopped
  <2> DEFINE dict == Payload(EntryStatus', filled')
  <2>2. \/ disk' = disk \/ disk' = WithTrade(disk, dict)
        \/ disk' = [disk EXCEPT !.trade = dict]
    BY <1>2 DEF EntryEvent
  <2> HIDE DEF dict
  <2>3. CASE disk' = disk
    BY <2>1, <2>3
  <2>4. CASE disk' = WithTrade(disk, dict)
    <3>1. WithTrade(disk, dict).estop = disk.estop
      BY <1>1, StopStays
    <3> QED  BY <2>1, <2>4, <3>1
  <2>5. CASE disk' = [disk EXCEPT !.trade = dict]
    <3>1. [disk EXCEPT !.trade = dict].estop = disk.estop
      BY <1>1, StopStays
    <3> QED  BY <2>1, <2>5, <3>1
  <2> QED  BY <2>2, <2>3, <2>4, <2>5
<1>3. CASE ClosingEvent \/ Restart \/ UNCHANGED vars
  BY <1>3 DEF ClosingEvent, Restart, vars, monitorVars, passVars, DeathIsStopped
<1>4. CASE Monitor
  <2>1. Escalate /\ mpc # "dead"
    BY <1>4 DEF Monitor, LoadFails, StartPass, QuoteRecorded, ReadPositions,
       ReadOrders, ClosedByProtection, PricesUnknown, Confirmed,
       ProtectionWhole, MarkResubmit, PlaceRepair, RepairRecorded, Transact,
       AfterNotice, QuoteFails, SnapshotFails, MissingWithoutFill,
       StillMissing, NotConfirmed, PlaceFails, Judging
  <2> QED  BY <1>1, <2>1, EscalateWays, StoppedOK
<1> QED  BY <1>2, <1>3, <1>4 DEF Next

\* Every reachable state has its type; in particular a repair is never for
\* more than the quantity of the entry.
THEOREM TypeCorrect == Spec => []TypeOK
<1>1. IInv => TypeOK
  <2> SUFFICES ASSUME IInv PROVE TypeOK
    OBVIOUS
  <2>1. sawPos \in Int
    BY DEF IInv, Orderly, Pass
  <2> QED
    BY <2>1 DEF IInv, Books, Orderly, Pass, BrokerInv, TypeOK
<1> QED  BY <1>1, Invariance, PTL

\* However old the snapshot is, a repair never puts a second order of a kind
\* to work beside one that is live.
THEOREM NoneDoubled == Spec => []OneOrderPerKind
<1>1. IInv => OneOrderPerKind
  BY DEF IInv, Orderly
<1> QED  BY <1>1, Invariance, PTL

\* A loss that stays the same is resubmitted once, through every restart of
\* the monitor and every write of the handlers in between.
THEOREM TriedOnce == Spec => RetriedOnce
<1>1. IInv /\ [Next]_vars => [mpc = "place" => Missing(sawLive) # tried]_vars
  BY DEF IInv, Books, MarkInv
<1> QED  BY <1>1, Invariance, PTL DEF Spec, RetriedOnce

\* EmergencyStop.activate in a pass: however its notification or its journal
\* entry fails, and whatever the handlers write afterwards, the stop that was
\* written before them is on disk when they have ended the monitor's task.
THEOREM DeathAfterStop == Spec => []DeathIsStopped
<1>1. Init => DeathIsStopped
  BY DEF Init, DeathIsStopped
<1> QED  BY <1>1, Invariance, DeathStep, PTL DEF Spec
=============================================================================
