----------------------------- MODULE StateStore -----------------------------
(***************************************************************************)
(* The state file and the in-memory copies of it                           *)
(* (src/src/state/state_store.py).  The candle cycle, the order event      *)
(* handlers, the trade monitor and the emergency stop all live in one      *)
(* process and each holds a copy that it loaded at some earlier moment,    *)
(* edits in place and saves.  A copy carries the time stamp of the file it *)
(* came from; save() merges when the file has another stamp.               *)
(*                                                                         *)
(* The module also has the edits the callers make to their copies, so that *)
(* everything the program may write is an action here.                     *)
(***************************************************************************)
EXTENDS BotState, Naturals

CONSTANTS
    Holder,     \* the in-memory BotState objects
    Candle,     \* candle time stamps
    Signal,     \* signal ids
    OrderId,    \* IB order and perm ids
    Key,        \* keys of active_trade
    Val,        \* values of active_trade
    TradeDict,  \* the dictionaries callers put into active_trade
    MaxClock    \* bound: readings of the clock

\* Dictionaries with keys in Key.
Dict == UNION {[K -> Val] : K \in SUBSET Key}

ASSUME CallersWriteDicts == TradeDict \subseteq Dict
ASSUME NoneIsNoValue == None \notin Candle \cup Signal
ASSUME ClockIsBounded == MaxClock \in Nat

State ==
    [candle : Candle \cup {None}, signal : Signal \cup {None}, trade : Dict,
     orders : SUBSET OrderId, estop : BOOLEAN]

VARIABLES
    disk,       \* the state in the file (BlankState when there is no file)
    diskStamp,  \* updated_at in the file; 0 when there is no file
    held,       \* the holders that have a copy
    mem,        \* the copy of each holder
    stamp,      \* updated_at of each copy
    clock,      \* datetime.now(): every reading is a new value
    tradeEdited \* history: holders whose copy's active_trade was edited
                \* since it was loaded

vars == <<disk, diskStamp, held, mem, stamp, clock, tradeEdited>>

FileExists == diskStamp # 0

\* The copy was read from, or was the last to be written to, the file as it is.
Unchanged(h) == stamp[h] = diskStamp

Init ==
    /\ disk = BlankState
    /\ diskStamp = 0
    /\ held = {}
    /\ mem = [h \in Holder |-> BlankState]
    /\ stamp = [h \in Holder |-> 0]
    /\ clock = 0
    /\ tradeEdited = {}

\* One reading of the clock.
Tick ==
    /\ clock < MaxClock
    /\ clock' = clock + 1

----------------------------------------------------------------------------
(* Reading and writing the file.                                           *)

\* load(): a missing file yields a new BotState with a stamp of its own.
Load(h) ==
    /\ held' = held \cup {h}
    /\ mem' = [mem EXCEPT ![h] = disk]
    /\ tradeEdited' = tradeEdited \ {h}
    /\ \/ /\ FileExists
          /\ stamp' = [stamp EXCEPT ![h] = diskStamp]
          /\ UNCHANGED clock
       \/ /\ ~FileExists
          /\ Tick
          /\ stamp' = [stamp EXCEPT ![h] = clock']
    /\ UNCHANGED <<disk, diskStamp>>

\* Mutant: the caller's object gets the new stamp after a merge too.
SaveStampingCaller(h) ==
    /\ h \in held
    /\ Tick
    /\ disk' = Saved(disk, mem[h], Unchanged(h))
    /\ diskStamp' = clock'
    /\ stamp' = [stamp EXCEPT ![h] = clock']
    /\ UNCHANGED <<held, mem, tradeEdited>>

\* save(): _save_unlocked stamps the object it writes; that is the caller's
\* own object only when nothing was merged.
Save(h) ==
    /\ h \in held
    /\ Tick
    /\ disk' = Saved(disk, mem[h], Unchanged(h))
    /\ diskStamp' = clock'
    /\ stamp' = IF Unchanged(h) THEN [stamp EXCEPT ![h] = clock'] ELSE stamp
    /\ UNCHANGED <<held, mem, tradeEdited>>

\* save() failing with OSError: the file stays, the object keeps the stamp it
\* was given before the write was tried.
SaveFails(h) ==
    /\ h \in held
    /\ Tick
    /\ stamp' = IF Unchanged(h) THEN [stamp EXCEPT ![h] = clock'] ELSE stamp
    /\ UNCHANGED <<disk, diskStamp, held, mem, tradeEdited>>

\* Mutant: the file keeps its stamp.
TransactionUnstamped(new) ==
    /\ Tick
    /\ disk' = new
    /\ UNCHANGED diskStamp

\* transaction(): the file is read, changed and written under the lock, and
\* the result is a copy of what was written.
Transaction(new) ==
    /\ Tick
    /\ disk' = new
    /\ diskStamp' = clock'

\* EmergencyStop.activate: keeps no copy.
ActivateStop(reason) ==
    /\ Transaction([disk EXCEPT !.estop = TRUE,
                                !.trade = Overlay(disk.trade, reason)])
    /\ UNCHANGED <<held, mem, stamp, tradeEdited>>

\* The trade monitor closing a trade it found filled: keeps no copy.
ClearTrade ==
    /\ Transaction([disk EXCEPT !.trade = NoTrade])
    /\ UNCHANGED <<held, mem, stamp, tradeEdited>>

\* The trade monitor recording a quote or a marker; it goes on with the
\* returned copy.
RecordInTrade(h, d) ==
    /\ Transaction([disk EXCEPT !.trade = Overlay(disk.trade, d)])
    /\ held' = held \cup {h}
    /\ mem' = [mem EXCEPT ![h] = disk']
    /\ stamp' = [stamp EXCEPT ![h] = clock']
    /\ tradeEdited' = tradeEdited \ {h}

\* The process ends: every copy is lost.  A write is atomic (the temporary
\* file replaces the state file), so the file is the old or the new one.
Crash ==
    /\ held' = {}
    /\ mem' = [h \in Holder |-> BlankState]
    /\ stamp' = [h \in Holder |-> 0]
    /\ tradeEdited' = {}
    /\ UNCHANGED <<disk, diskStamp, clock>>

----------------------------------------------------------------------------
(* What the callers do to their copies.                                    *)

EditCopy(h, new) ==
    /\ h \in held
    /\ mem' = [mem EXCEPT ![h] = new]
    /\ UNCHANGED <<disk, diskStamp, held, stamp, clock>>

MarkProcessed(h, c) ==
    EditCopy(h, [mem[h] EXCEPT !.candle = c]) /\ UNCHANGED tradeEdited

RecordSignal(h, s) ==
    EditCopy(h, [mem[h] EXCEPT !.signal = s]) /\ UNCHANGED tradeEdited

AddOrder(h, o) ==
    /\ EditCopy(h, [mem[h] EXCEPT !.orders = @ \cup {o}])
    /\ UNCHANGED tradeEdited

\* The order manager replaces active_trade by the payload of a status ...
ReplaceTrade(h, d) ==
    /\ EditCopy(h, [mem[h] EXCEPT !.trade = d])
    /\ tradeEdited' = tradeEdited \cup {h}

\* ... or adds keys to it.
ExtendTrade(h, d) ==
    /\ EditCopy(h, [mem[h] EXCEPT !.trade = Overlay(@, d)])
    /\ tradeEdited' = tradeEdited \cup {h}

\* The order manager's fallback when it has no EmergencyStop.
StopInMemory(h, reason) ==
    /\ EditCopy(h, [mem[h] EXCEPT !.estop = TRUE,
                                  !.trade = Overlay(@, reason)])
    /\ tradeEdited' = tradeEdited \cup {h}

----------------------------------------------------------------------------
Next ==
    \/ \E h \in Holder : Load(h) \/ Save(h) \/ SaveFails(h)
    \/ \E d \in TradeDict : ActivateStop(d)
    \/ ClearTrade
    \/ \E h \in Holder, d \in TradeDict :
          RecordInTrade(h, d) \/ ReplaceTrade(h, d) \/ ExtendTrade(h, d)
            \/ StopInMemory(h, d)
    \/ \E h \in Holder, c \in Candle : MarkProcessed(h, c)
    \/ \E h \in Holder, s \in Signal : RecordSignal(h, s)
    \/ \E h \in Holder, o \in OrderId : AddOrder(h, o)
    \/ Crash

Spec == Init /\ [][Next]_vars

----------------------------------------------------------------------------
(* Properties.                                                             *)

\* Every variable has its type, and no stamp is in the future.
TypeOK ==
    /\ disk \in State
    /\ diskStamp \in Nat
    /\ held \subseteq Holder
    /\ mem \in [Holder -> State]
    /\ stamp \in [Holder -> Nat]
    /\ clock \in Nat
    /\ tradeEdited \subseteq held

\* No stamp is later than the clock, so the next reading is new to everyone,
\* and a copy has a stamp even when it was loaded before there was a file.
StampsAreOld ==
    /\ diskStamp <= clock
    /\ \A h \in Holder : stamp[h] <= clock
    /\ \A h \in held : stamp[h] > 0

\* s keeps what must never be lost from old: the emergency stop, the known
\* orders, and the fact that a candle, or a signal, was handled.
KeepsCritical(old, s) ==
    /\ old.estop => s.estop
    /\ old.orders \subseteq s.orders
    /\ old.candle # None => s.candle # None
    /\ old.signal # None => s.signal # None

\* A copy whose stamp is that of the file (the one save() writes as it is)
\* has every critical field of the file.
UnchangedCopyIsCurrent ==
    \A h \in held : FileExists /\ Unchanged(h) => KeepsCritical(disk, mem[h])

\* Without a file there is nothing to lose.
NoFileIsBlank == ~FileExists => disk = BlankState

\* save() and transaction(): whatever is written, by whatever stale copy and
\* after any crash, an emergency stop once on disk stays on disk, and so do
\* the known orders and the fact that a candle or a signal was handled.
CriticalFieldsKept == [][KeepsCritical(disk, disk')]_vars

\* The docstring of _merge_concurrent_state: saving a stale copy whose holder
\* did not touch active_trade must not undo what another component has
\* written to active_trade since.
StaleSaveKeepsTrade ==
    [][\A h \in Holder :
          Save(h) /\ h \notin tradeEdited => disk'.trade = disk.trade]_vars

----------------------------------------------------------------------------
(* What the store promises, without time stamps.                           *)

Fresh == {h \in held : FileExists /\ Unchanged(h)}

Abstract == INSTANCE FreshStore WITH stored <- FileExists, fresh <- Fresh

\* The time stamps do what they are for: the store behaves as one that knows
\* which copies are up to date.
ImplementsFreshStore == Abstract!Spec
=============================================================================
