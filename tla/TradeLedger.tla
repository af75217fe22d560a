----------------------------- MODULE TradeLedger -----------------------------
(***************************************************************************)
(* What the main loop promises about trading, without cycles, failures,    *)
(* copies or restarts: signals are dealt with in the order of their        *)
(* candles, each at most once unless its candle is returned; a trade is    *)
(* submitted only when none is at work, and is in the books at once and    *)
(* for good; so is an emergency stop.  CandleCycle implements this         *)
(* specification.                                                          *)
(***************************************************************************)
EXTENDS Naturals

CONSTANT Bar

VARIABLES
    handled,  \* the candle of the last signal that was dealt with, 0 for none
    books,    \* the trades the state file knows
    open,     \* the trades at work at the broker
    stopped,  \* trading was stopped
    returned  \* candles that were put before the loop again

vars == <<handled, books, open, stopped, returned>>

Init ==
    /\ handled = 0
    /\ books = {}
    /\ open = {}
    /\ stopped = FALSE
    /\ returned = {}

Due(n) == n \in returned \/ (n > handled /\ n \notin books)

\* A signal that is announced only, or blocked.
Pass(n) ==
    /\ Due(n)
    /\ handled' = n
    /\ UNCHANGED <<books, open, stopped, returned>>

Trade(n) ==
    /\ Due(n)
    /\ open = {}
    /\ handled' = n
    /\ books' = books \cup {n}
    /\ open' = {n}
    /\ UNCHANGED <<stopped, returned>>

Close(n) ==
    /\ open' = open \ {n}
    /\ UNCHANGED <<handled, books, stopped, returned>>

Stop ==
    /\ stopped' = TRUE
    /\ UNCHANGED <<handled, books, open, returned>>

\* A restart: all candles after n, up to the last signal, come again.
Return(n) ==
    /\ n + 1 < handled
    /\ returned' = returned \cup (n + 1)..handled
    /\ UNCHANGED <<handled, books, open, stopped>>

Next ==
    Stop \/ \E n \in Bar : Pass(n) \/ Trade(n) \/ Close(n) \/ Return(n)

Spec == Init /\ [][Next]_vars
=============================================================================
