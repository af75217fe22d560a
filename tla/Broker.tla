------------------------------- MODULE Broker -------------------------------
(***************************************************************************)
(* The broker as the order manager uses it: the orders of one bracket,     *)
(* their replacements and the defensive exit, and the position they make.  *)
(* This is not code of the repository; it is what the calls placeOrder and *)
(* cancelOrder and the statuses in src/src/domain/constants.py assume.     *)
(*                                                                         *)
(* All protective orders belong to one OCA group.  The first pair is       *)
(* attached to the entry (parentId), the replacements are not.             *)
(***************************************************************************)
EXTENDS Naturals, Integers

CONSTANTS
    Qty,       \* quantity of the entry order
    LateFill   \* an entry may fill after its cancellation was asked for

ASSUME QtyIsPositive == Qty \in Nat \ {0}
ASSUME LateFillIsBoolean == LateFill \in BOOLEAN

VARIABLES
    ord,       \* status of each order
    filled,    \* filled quantity of the entry
    qty,       \* quantity of each closing order
    pos,       \* the position; negative if more was sold than held
    cancelReq  \* orders whose cancellation was asked for

brokerVars == <<ord, filled, qty, pos, cancelReq>>

Attached == {"stop1", "take1"}
Replacement == {"stop2", "take2", "stop3", "take3"}
Repair == {"stop4", "take4"}     \* placed by the trade monitor
Protective == Attached \cup Replacement \cup Repair
Closing == Protective \cup {"exit"}
OrderSlot == Closing \cup {"entry"}

\* none: not placed.  staged: placed with transmit = False.  pending: sent,
\* not yet acknowledged (PendingSubmit, as a staged order is).  active:
\* PreSubmitted, Submitted or PartiallyFilled.  rejected: Rejected, Inactive.
Status == {"none", "staged", "pending", "active",
           "filled", "cancelled", "rejected"}
Live == {"staged", "pending", "active"}        \* ACTIVE_ORDER_STATUSES
Terminal == {"filled", "cancelled", "rejected"} \* TERMINAL_ORDER_STATUSES

BrokerInit ==
    /\ ord = [o \in OrderSlot |-> "none"]
    /\ filled = 0
    /\ qty = [o \in Closing |-> 0]
    /\ pos = 0
    /\ cancelReq = {}

BrokerTypeOK ==
    /\ ord \in [OrderSlot -> Status]
    /\ filled \in 0..Qty
    /\ qty \in [Closing -> 0..Qty]
    /\ pos \in Int
    /\ cancelReq \subseteq OrderSlot

\* ord with the orders of S that are still live moved to status s.
Moved(S, s) ==
    [o \in OrderSlot |-> IF o \in S /\ ord[o] \in Live THEN s ELSE ord[o]]

GroupFilled == \E o \in Protective : ord[o] = "filled"

\* An attached order goes with its parent when that ends without a fill.
ParentGone == ord["entry"] \in {"cancelled", "rejected"} /\ filled = 0

----------------------------------------------------------------------------
(* Changes of the entry order.                                             *)

EntryAccepted ==
    /\ ord["entry"] = "pending"
    /\ ord' = [ord EXCEPT !["entry"] = "active"]
    /\ UNCHANGED <<filled, qty, pos, cancelReq>>

EntryFills(n) ==
    /\ ord["entry"] = "active"
    /\ n \in 1..(Qty - filled)
    /\ LateFill \/ "entry" \notin cancelReq \/ filled > 0
    /\ filled' = filled + n
    /\ pos' = pos + n
    /\ ord' = IF filled + n = Qty THEN [ord EXCEPT !["entry"] = "filled"]
                                  ELSE ord
    /\ UNCHANGED <<qty, cancelReq>>

EntryEnds(s) ==
    /\ \/ s = "cancelled" /\ ord["entry"] \in Live /\ "entry" \in cancelReq
       \/ s = "rejected" /\ ord["entry"] \in {"staged", "pending"}
    /\ ord' = [Moved(IF filled = 0 THEN Attached ELSE {}, "cancelled")
                 EXCEPT !["entry"] = s]
    /\ UNCHANGED <<filled, qty, pos, cancelReq>>

EntryChanges ==
    \/ EntryAccepted
    \/ \E n \in 1..Qty : EntryFills(n)
    \/ \E s \in {"cancelled", "rejected"} : EntryEnds(s)

(* Changes of the closing orders.                                          *)

\* An order of a group that is already filled is not accepted.
ClosingAccepted(o) ==
    /\ ord[o] = "pending"
    /\ o \in Protective => ~GroupFilled
    /\ o \in Attached => ~ParentGone
    /\ ord' = [ord EXCEPT ![o] = "active"]
    /\ UNCHANGED <<filled, qty, pos, cancelReq>>

\* The program does not tell a closing order that was refused (Rejected,
\* Inactive) from one that was cancelled.
ClosingRejected(o) ==
    /\ ord[o] \in {"staged", "pending"}
    /\ ord' = [ord EXCEPT ![o] = "cancelled"]
    /\ UNCHANGED <<filled, qty, pos, cancelReq>>

ClosingCancelled(o) ==
    /\ ord[o] \in Live
    /\ o \in cancelReq
    /\ ord' = [ord EXCEPT ![o] = "cancelled"]
    /\ UNCHANGED <<filled, qty, pos, cancelReq>>

\* No order is given a time in force: protection ends with the trading day.
ClosingExpires(o) ==
    /\ ord[o] = "active"
    /\ ord' = [ord EXCEPT ![o] = "cancelled"]
    /\ UNCHANGED <<filled, qty, pos, cancelReq>>

\* A stop or a limit is reached: the order fills and the rest of the group is
\* cancelled (ocaType 1).  Attached orders wait for the whole entry.
ProtectiveFills(o) ==
    /\ o \in Protective
    /\ ord[o] = "active"
    /\ o \in Attached => ord["entry"] = "filled"
    /\ ord' = [Moved(Protective, "cancelled") EXCEPT ![o] = "filled"]
    /\ pos' = pos - qty[o]
    /\ UNCHANGED <<filled, qty, cancelReq>>

ExitFills ==
    /\ ord["exit"] = "active"
    /\ ord' = [ord EXCEPT !["exit"] = "filled"]
    /\ pos' = pos - qty["exit"]
    /\ UNCHANGED <<filled, qty, cancelReq>>
=============================================================================
