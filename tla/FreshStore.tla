----------------------------- MODULE FreshStore -----------------------------
(***************************************************************************)
(* What the state store promises its callers, without time stamps: it      *)
(* knows which copies are fresh, that is, equal to the file but for the    *)
(* edits of their own holder.  A fresh copy is written as it is, any other *)
(* is merged into the file.  StateStore implements this specification.     *)
(***************************************************************************)
EXTENDS BotState

CONSTANTS Holder, Candle, Signal, OrderId, TradeDict

VARIABLES
    disk,    \* the state in the file
    stored,  \* the file exists
    held,    \* the holders that have a copy
    mem,     \* their copies
    fresh    \* the holders whose copy is fresh

vars == <<disk, stored, held, mem, fresh>>

Init ==
    /\ disk = BlankState
    /\ stored = FALSE
    /\ held = {}
    /\ mem = [h \in Holder |-> BlankState]
    /\ fresh = {}

Load(h) ==
    /\ held' = held \cup {h}
    /\ mem' = [mem EXCEPT ![h] = disk]
    /\ fresh' = IF stored THEN fresh \cup {h} ELSE {}
    /\ UNCHANGED <<disk, stored>>

\* A write makes every other copy stale; the writer's copy stays fresh only
\* if it was.
Save(h) ==
    /\ h \in held
    /\ disk' = Saved(disk, mem[h], h \in fresh)
    /\ stored' = TRUE
    /\ fresh' = fresh \cap {h}
    /\ UNCHANGED <<held, mem>>

\* A failed write leaves the file but makes the copy stale.
SaveFails(h) ==
    /\ h \in held
    /\ fresh' = fresh \ {h}
    /\ UNCHANGED <<disk, stored, held, mem>>

\* A read-modify-write of the file that hands out no copy.
Update(new) ==
    /\ disk' = new
    /\ stored' = TRUE
    /\ fresh' = {}
    /\ UNCHANGED <<held, mem>>

UpdateAndHold(h, new) ==
    /\ disk' = new
    /\ stored' = TRUE
    /\ held' = held \cup {h}
    /\ mem' = [mem EXCEPT ![h] = new]
    /\ fresh' = {h}

Crash ==
    /\ held' = {}
    /\ fresh' = {}
    /\ mem' = [h \in Holder |-> BlankState]
    /\ UNCHANGED <<disk, stored>>

\* Editing a copy changes neither the file nor what is fresh.
Edit(h, new) ==
    /\ h \in held
    /\ mem' = [mem EXCEPT ![h] = new]
    /\ UNCHANGED <<disk, stored, held, fresh>>

\* The edits callers make: they add, they set, they never take back a stop, a
\* known order, a candle or a signal.
Edits(s) ==
         {[s EXCEPT !.candle = c] : c \in Candle}
    \cup {[s EXCEPT !.signal = g] : g \in Signal}
    \cup {[s EXCEPT !.orders = @ \cup {o}] : o \in OrderId}
    \cup {[s EXCEPT !.trade = d] : d \in TradeDict}
    \cup {[s EXCEPT !.trade = Overlay(@, d)] : d \in TradeDict}
    \cup {[s EXCEPT !.estop = TRUE, !.trade = Overlay(@, d)] : d \in TradeDict}

Next ==
    \/ \E h \in Holder :
          Load(h) \/ Save(h) \/ SaveFails(h) \/ \E s \in Edits(mem[h]) : Edit(h, s)
    \/ \E d \in TradeDict :
          Update([disk EXCEPT !.estop = TRUE, !.trade = Overlay(@, d)])
    \/ Update([disk EXCEPT !.trade = NoTrade])
    \/ \E h \in Holder, d \in TradeDict :
          UpdateAndHold(h, [disk EXCEPT !.trade = Overlay(@, d)])
    \/ Crash

Spec == Init /\ [][Next]_vars
=============================================================================
