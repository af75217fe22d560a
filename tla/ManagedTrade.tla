----------------------------- MODULE ManagedTrade -----------------------------
(***************************************************************************)
(* One submission and the trade monitor at the same time: the call of      *)
(* OrderManager, the passes of TradeMonitor, one broker and one state      *)
(* file.  Each of the two modules has the other reduced to its writes; here *)
(* both are whole.                                                         *)
(*                                                                         *)
(* asyncio runs one of the two tasks at a time, up to its next await: the  *)
(* monitor moves only where the call awaits or is over, the call only      *)
(* where the monitor awaits, sleeps or has ended.                          *)
(***************************************************************************)
EXTENDS OrderManager

CONSTANTS
    PassErrors, \* the monitor's own notices and state writes may raise
    MaxPasses   \* bound: how many passes the monitor makes

ASSUME PassesAssumption == PassErrors \in BOOLEAN /\ MaxPasses \in Nat

VARIABLES
    mpc, held, sawPos, sawLive, tried,  \* see TradeMonitor
    passes                              \* the passes begun

passVars == <<mpc, held, sawPos, sawLive, tried, passes>>
bothVars == <<vars, passVars>>

\* The monitor's writes go to the same file; the handlers are the call's own.
Watch == INSTANCE TradeMonitor
    WITH TelegramMayFail <- PassErrors, OddErrors <- PassErrors,
         StoreMayFail <- PassErrors, Handlers <- FALSE, Situations <- {},
         EntryWorks <- TRUE, MaxRestarts <- 0, restarts <- 0

MonitorYields == mpc \in Watch!Awaiting \cup Watch!Idle

CallStep ==
    /\ MonitorYields
    /\ Call
    /\ UNCHANGED passVars

\* Bound: the broker is followed until the call and the last pass are over.
Finished == pc \in Over /\ mpc \in Watch!Idle /\ passes = MaxPasses

BrokerStep ==
    /\ MonitorYields
    /\ ~Finished
    /\ EntryEvent \/ ClosingEvent
    /\ UNCHANGED passVars

\* A crash takes both tasks with it.
PassStep ==
    /\ pc \in (Awaiting \cup Over) \ {"crashed"}
    /\ Watch!Monitor
    /\ passes' = IF mpc = "sleep" THEN passes + 1 ELSE passes
    /\ passes' <= MaxPasses
    /\ UNCHANGED <<callVars, copy, pc, faults>>

ProcessDies ==
    /\ Crash
    /\ UNCHANGED passVars

BothInit ==
    /\ Init
    /\ mpc = "sleep"
    /\ held = disk
    /\ sawPos = 0
    /\ sawLive = {}
    /\ tried = {}
    /\ passes = 0

BothNext == CallStep \/ BrokerStep \/ PassStep \/ ProcessDies

BothSpec == BothInit /\ [][BothNext]_bothVars

----------------------------------------------------------------------------
(* Properties.  Those of OrderManager are checked here as well: its own     *)
(* runs know no monitor that places orders.                                *)

\* _repair_or_escalate beside submit_order_set: while the call still works on
\* the bracket, the monitor places a protective order of its own only after
\* the call has met a failure and stopped trading, or failed to.
RepairUnderStop ==
    [][Watch!PlaceRepair /\ pc \notin Over
          => disk.estop \/ "stop" \in faults]_bothVars

\* _attempt_defensive_market_exit beside _resubmit_missing_protection: no
\* repair is placed while a market exit of the same position is at work.
RepairNotBesideExit ==
    [][Watch!PlaceRepair => ord["exit"] \notin Live]_bothVars
=============================================================================
