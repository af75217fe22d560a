--------------------------- MODULE CandleCycleProofs ---------------------------
(***************************************************************************)
(* What the main loop keeps for any number of candles, starts and attempts *)
(* and whatever the broker serves, however late: no write of the marker is *)
(* ahead of the store, one trade at a time, no submission after a stop, no *)
(* signal submitted twice but after a baseline that put its candle back.   *)
(***************************************************************************)
EXTENDS CandleCycle, TLAPS, FiniteSetTheorems

----------------------------------------------------------------------------
(* The invariant.                                                          *)

\* Places inside of a cycle, and those where a signal is handled.
InCycle == {"fetch", "repair", "judge", "candle", "warning", "signal",
            "snapshot", "product", "submitting"}
Handling == {"signal", "snapshot", "product", "submitting"}

StoreType == [made : BOOLEAN, bars : SUBSET Bar, marker : 0..MaxBar,
              odd : BOOLEAN]

Types ==
    /\ mode \in Modes
    /\ clean \in BOOLEAN /\ warned \in BOOLEAN /\ stopAtStart \in BOOLEAN
    /\ scope \in {"warmup", "delta"}
    /\ pc \in PC
    /\ seen \subseteq Bar /\ execs \subseteq Bar /\ returned \subseteq Bar
    /\ monitor \in {"none", "running", "dead"}

Bounds ==
    /\ store \in StoreType
    /\ attempt \in 0..(Attempts - 1)
    /\ now \in Bar /\ startedAt \in 0..MaxBar
    /\ starts \in 0..MaxStarts

States == StateOK(disk) /\ StateOK(mem)

\* A signal is handled for the candle that was marked last.
HandlingInv == pc \in Handling => mem.candle \in Bar

\* A submission sees every trade that is at work: trades only end while the
\* cycle awaits.
SlotInv ==
    /\ open \subseteq Bar
    /\ submitted \in [Bar -> Nat]
    /\ \A m, n \in open : m = n
    /\ pc = "product" => open \subseteq seen

\* The cycle's copy has the stop of its start, and the signal passed it.
StopInv ==
    /\ pc \in InCycle => mem.estop = stopAtStart
    /\ pc \in {"snapshot", "product"} => ~mem.estop

\* A new store is made from the file's marker; what is saved while a signal is
\* handled has the store's.  Elsewhere the file may be ahead of the store: by a
\* baseline that went back and was not written.
MarkerInv ==
    /\ pc = "fetch" => disk.candle = mem.candle
    /\ pc \in Handling => store.marker = mem.candle

IInv ==
    Types /\ Bounds /\ States /\ HandlingInv /\ SlotInv /\ StopInv
        /\ MarkerInv

LEMMA Numbers ==
    /\ MaxBar \in Nat /\ MaxBar >= 1 /\ MaxStarts \in Nat
    /\ Attempts \in Nat /\ Attempts >= 1 /\ Delta \in Nat /\ Delta >= 1
    /\ None \notin Bar
  BY CycleAssumption DEF Positive, Bar

LEMMA NoStoreOK == NoStore \in StoreType /\ NoStore.made = FALSE
  BY Numbers DEF NoStore, StoreType

LEMMA NewStoreOK ==
    ASSUME NEW m \in 0..MaxBar
    PROVE  NewStore(m) \in StoreType /\ NewStore(m).made
           /\ NewStore(m).marker = m /\ m <= m
<1>1. NewStore(m) \in StoreType /\ NewStore(m).made /\ NewStore(m).marker = m
  BY NoStoreOK DEF NewStore, StoreType
<1> QED  BY <1>1, Numbers

LEMMA InitIInv == Init => IInv
<1> SUFFICES ASSUME Init PROVE IInv
  OBVIOUS
<1> USE Numbers DEF Init
<1>1. Types
  BY DEF Types, PC, Awaiting
<1>2. Bounds
  BY NoStoreOK DEF Bounds, Bar
<1>3. States
  BY DEF States, StateOK, BlankState
<1>4. HandlingInv /\ SlotInv /\ StopInv
  BY DEF HandlingInv, SlotInv, StopInv, Handling, InCycle
<1>5. MarkerInv
  BY DEF MarkerInv, Handling
<1> QED  BY <1>1, <1>2, <1>3, <1>4, <1>5 DEF IInv

----------------------------------------------------------------------------
(* Writes of the state.                                                    *)

LEMMA MergedTrade ==
    ASSUME NEW c, NEW i,
           c = NoTrade \/ c \in [{"signal_id"} -> Bar],
           i = NoTrade \/ i \in [{"signal_id"} -> Bar]
    PROVE  MergeActiveTrade(c, i) = NoTrade
             \/ MergeActiveTrade(c, i) \in [{"signal_id"} -> Bar]
<1>1. MergeActiveTrade(c, i) \in {c, i, Overlay(c, i)}
  BY DEF MergeActiveTrade
<1>2. CASE i = NoTrade
  <2>1. MergeActiveTrade(c, i) = c
    BY <1>2 DEF MergeActiveTrade
  <2> QED  BY <2>1
<1>3. CASE i \in [{"signal_id"} -> Bar]
  <2>1. CASE c = NoTrade
    <3>1. i # NoTrade
      BY <1>3 DEF NoTrade
    <3>2. MergeActiveTrade(c, i) = i
      BY <2>1, <3>1 DEF MergeActiveTrade
    <3> QED  BY <1>3, <3>2
  <2>2. CASE c \in [{"signal_id"} -> Bar]
    <3>1. Overlay(c, i) = i
      BY <1>3, <2>2 DEF Overlay
    <3> QED  BY <1>1, <1>3, <2>2, <3>1
  <2> QED  BY <2>1, <2>2
<1> QED  BY <1>2, <1>3

\* What save() leaves on disk.
LEMMA SavedState ==
    ASSUME NEW c, StateOK(c), NEW s, StateOK(s), NEW u \in BOOLEAN
    PROVE  /\ StateOK(Saved(c, s, u))
           /\ s.candle # None => Saved(c, s, u).candle = s.candle
<1>1. CASE u
  BY <1>1 DEF Saved
<1>2. CASE ~u
  <2> DEFINE m == MergeConcurrentState(c, s)
  <2>1. Saved(c, s, u) = m
    BY <1>2 DEF Saved
  <2>2. /\ DOMAIN m = DOMAIN BlankState
        /\ m.candle = Either(s.candle, c.candle)
        /\ m.signal = Either(s.signal, c.signal)
        /\ m.trade = MergeActiveTrade(c.trade, s.trade)
        /\ m.orders = c.orders \cup s.orders
        /\ m.estop = (c.estop \/ s.estop)
    BY DEF MergeConcurrentState, BlankState
  <2> HIDE DEF m
  <2>3. m.trade = NoTrade \/ m.trade \in [{"signal_id"} -> Bar]
    BY <2>2, MergedTrade DEF StateOK
  <2>4. m.candle \in Bar \cup {None} /\ m.signal \in Bar \cup {None}
    BY <2>2 DEF StateOK, Either
  <2>5. m.orders \subseteq Bar /\ m.estop \in BOOLEAN
    BY <2>2 DEF StateOK
  <2>6. s.candle # None => m.candle = s.candle
    BY <2>2 DEF Either
  <2> QED  BY <2>1, <2>2, <2>3, <2>4, <2>5, <2>6 DEF StateOK
<1> QED  BY <1>1, <1>2

LEMMA SaveStep ==
    ASSUME IInv, NEW s, StateOK(s), s.candle # None, Save(s)
    PROVE  /\ States' /\ mem' = s /\ disk'.candle = s.candle
           /\ UNCHANGED clean
<1>1. mem' = s /\ disk' = Saved(disk, s, clean) /\ UNCHANGED clean
  BY DEF Save
<1>2. StateOK(disk) /\ clean \in BOOLEAN
  BY DEF IInv, States, Types
<1> QED  BY <1>1, <1>2, SavedState DEF States

\* What save() raises leaves the file as it was, or fails after the write.
LEMMA SaveThenStep ==
    ASSUME IInv, NEW s, StateOK(s), s.candle # None, NEW next,
           SaveThen(s, next)
    PROVE  /\ States' /\ mem' = s /\ UNCHANGED clean
           /\ Save(s) \/ disk' = disk
           /\ Save(s) => disk'.candle = s.candle
           /\ \/ pc' = next /\ UNCHANGED attempt
              \/ pc' = "failing" /\ attempt' = 0
<1>1. CASE Save(s)
  BY <1>1, SaveStep DEF SaveThen
<1>2. CASE ~Save(s)
  BY <1>2 DEF SaveThen, Unsaved, IInv, States
<1> QED  BY <1>1, <1>2

\* A store that is updated or marked stays one.
LEMMA StoreUpdated ==
    ASSUME NEW s \in StoreType,
           NEW S \in SUBSET Bar, NEW odd \in BOOLEAN
    PROVE  /\ Updated(s, S, odd) \in StoreType
           /\ Updated(s, S, odd).made = s.made
           /\ Updated(s, S, odd).marker = s.marker
  BY DEF Updated, StoreType

LEMMA StoreMarked ==
    ASSUME NEW s \in StoreType,
           NEW n \in Bar
    PROVE  /\ Marked(s, n) \in StoreType
           /\ Marked(s, n).made = s.made
           /\ Marked(s, n).marker = n
  BY Numbers DEF Marked, StoreType, Bar

\* A candle marked in the store and in a copy that is saved.
LEMMA MarkStep ==
    ASSUME IInv, NEW n \in Bar, Mark(n), NEW next, SaveThen(WithCandle(n), next)
    PROVE  /\ States' /\ UNCHANGED clean /\ mem' = WithCandle(n)
           /\ Save(WithCandle(n)) \/ disk' = disk
           /\ Save(WithCandle(n)) => disk'.candle = n
           /\ \/ pc' = next /\ UNCHANGED attempt
              \/ pc' = "failing" /\ attempt' = 0
           /\ mem'.estop = mem.estop
           /\ store' \in StoreType
           /\ store'.marker = n /\ n \in Nat
<1>1. StateOK(WithCandle(n)) /\ WithCandle(n).candle = n
      /\ WithCandle(n).estop = mem.estop
  BY DEF IInv, States, StateOK, WithCandle, BlankState
<1>2. n # None /\ n \in Nat
  BY Numbers DEF Bar
<1>3. /\ States' /\ UNCHANGED clean /\ mem' = WithCandle(n)
      /\ Save(WithCandle(n)) \/ disk' = disk
      /\ Save(WithCandle(n)) => disk'.candle = n
      /\ \/ pc' = next /\ UNCHANGED attempt
         \/ pc' = "failing" /\ attempt' = 0
  BY <1>1, <1>2, SaveThenStep
<1>4. store' \in StoreType /\ store'.marker = n
  BY StoreMarked DEF Mark, IInv, Bounds
<1> QED  BY <1>1, <1>2, <1>3, <1>4

----------------------------------------------------------------------------
(* Steps.                                                                  *)

LEMMA ProcessSteps ==
    ASSUME IInv, Start \/ Crash \/ StartCycle \/ RequestFails
    PROVE  IInv'
<1> USE Numbers DEF IInv, Types, Bounds, States, HandlingInv, SlotInv, StopInv,
    MarkerInv, PC, Awaiting, Handling, InCycle, brokerVars, cycleVars,
    runVars, historyVars, World, Unsaved
<1>1. CASE Start
  <2> USE <1>1, NoStoreOK DEF Start, Fresh, Bar
  <2>1. Types'  OBVIOUS
  <2>2. Bounds'  OBVIOUS
  <2>3. States'  OBVIOUS
  <2>4. HandlingInv'  OBVIOUS
  <2>5. SlotInv'  OBVIOUS
  <2>6. StopInv'  OBVIOUS
  <2>7. MarkerInv'  OBVIOUS
  <2> HIDE DEF Types, Bounds, States, HandlingInv, SlotInv, StopInv, MarkerInv
  <2> QED  BY <2>1, <2>2, <2>3, <2>4, <2>5, <2>6, <2>7
<1>2. CASE Crash
  <2> USE <1>2, NoStoreOK DEF Crash, End, Fresh
  <2>1. Types'  OBVIOUS
  <2>2. Bounds'  OBVIOUS
  <2>3. States'  OBVIOUS
  <2>4. HandlingInv'  OBVIOUS
  <2>5. SlotInv'  OBVIOUS
  <2>6. StopInv'  OBVIOUS
  <2>7. MarkerInv'  OBVIOUS
  <2> HIDE DEF Types, Bounds, States, HandlingInv, SlotInv, StopInv, MarkerInv
  <2> QED  BY <2>1, <2>2, <2>3, <2>4, <2>5, <2>6, <2>7
<1>3. CASE StartCycle
  BY <1>3 DEF StartCycle, StateOK
<1>4. CASE RequestFails
  BY <1>4 DEF RequestFails, Fails
<1> QED  BY <1>1, <1>2, <1>3, <1>4

LEMMA JudgeSteps ==
    ASSUME IInv, GapBlocks \/ TakeCandles \/ WarnNotReady \/ CandlesDone
    PROVE  IInv'
<1> USE Numbers DEF IInv, Types, Bounds, States, HandlingInv, SlotInv, StopInv,
    MarkerInv, PC, Awaiting, Handling, InCycle, brokerVars, cycleVars,
    runVars, historyVars, World, Unsaved
<1>1. CASE GapBlocks
  BY <1>1 DEF GapBlocks
<1>2. CASE TakeCandles
  BY <1>2 DEF TakeCandles
<1>3. CASE WarnNotReady
  <2> USE <1>3 DEF WarnNotReady
  <2>1. Types'  OBVIOUS
  <2>2. Bounds'  OBVIOUS
  <2>3. States'  OBVIOUS
  <2>4. HandlingInv'  OBVIOUS
  <2>5. SlotInv'  OBVIOUS
  <2>6. StopInv'  OBVIOUS
  <2>7. MarkerInv'  OBVIOUS
  <2> HIDE DEF Types, Bounds, States, HandlingInv, SlotInv, StopInv, MarkerInv
  <2> QED  BY <2>1, <2>2, <2>3, <2>4, <2>5, <2>6, <2>7
<1>4. CASE CandlesDone
  BY <1>4 DEF CandlesDone
<1> QED  BY <1>1, <1>2, <1>3, <1>4

LEMMA PaperSteps ==
    ASSUME IInv, StopRefuses \/ StopAllows \/ SnapshotRead
    PROVE  IInv'
<1> USE Numbers DEF IInv, Types, Bounds, States, HandlingInv, SlotInv, StopInv,
    MarkerInv, PC, Awaiting, Handling, InCycle, brokerVars, cycleVars,
    runVars, historyVars, World, Unsaved
<1>1. CASE StopRefuses
  BY <1>1 DEF StopRefuses, Fails
<1>2. CASE StopAllows
  BY <1>2 DEF StopAllows
<1>3. CASE SnapshotRead
  BY <1>3 DEF SnapshotRead
<1> QED  BY <1>1, <1>2, <1>3

LEMMA RecoverySteps ==
    ASSUME IInv, RecoveryAborted \/ RecoveryStarts \/ AttemptSucceeds
                \/ AttemptFails
    PROVE  IInv'
<1> USE Numbers DEF IInv, Types, Bounds, States, HandlingInv, SlotInv, StopInv,
    MarkerInv, PC, Awaiting, Handling, InCycle, brokerVars, cycleVars,
    runVars, historyVars, World, Unsaved
<1>1. CASE RecoveryAborted
  <2> USE <1>1, NoStoreOK DEF RecoveryAborted, End, Fresh
  <2>1. Types'  OBVIOUS
  <2>2. Bounds'  OBVIOUS
  <2>3. States'  OBVIOUS
  <2>4. HandlingInv'  OBVIOUS
  <2>5. SlotInv'  OBVIOUS
  <2>6. StopInv'  OBVIOUS
  <2>7. MarkerInv'  OBVIOUS
  <2> HIDE DEF Types, Bounds, States, HandlingInv, SlotInv, StopInv, MarkerInv
  <2> QED  BY <2>1, <2>2, <2>3, <2>4, <2>5, <2>6, <2>7
<1>2. CASE RecoveryStarts
  BY <1>2 DEF RecoveryStarts
<1>3. CASE AttemptSucceeds
  <2> USE <1>3, NoStoreOK DEF AttemptSucceeds, End, Fresh
  <2>1. Types'  OBVIOUS
  <2>2. Bounds'  OBVIOUS
  <2>3. States'  OBVIOUS
  <2>4. HandlingInv'  OBVIOUS
  <2>5. SlotInv'  OBVIOUS
  <2>6. StopInv'  OBVIOUS
  <2>7. MarkerInv'  OBVIOUS
  <2> HIDE DEF Types, Bounds, States, HandlingInv, SlotInv, StopInv, MarkerInv
  <2> QED  BY <2>1, <2>2, <2>3, <2>4, <2>5, <2>6, <2>7
<1>4. CASE AttemptFails
  BY <1>4 DEF AttemptFails
<1> QED  BY <1>1, <1>2, <1>3, <1>4

LEMMA FetchStep ==
    ASSUME IInv, Fetched
    PROVE  IInv'
<1> USE Numbers DEF IInv, Types, Bounds, States, HandlingInv, SlotInv, StopInv,
    MarkerInv, PC, Awaiting, Handling, InCycle, brokerVars, cycleVars,
    runVars, historyVars, World, Unsaved
<1>1. CASE Fetched
  <2> USE <1>1 DEF Fetched
  <2> DEFINE held == IF store.made THEN store
                     ELSE NewStore(Marker(mem.candle))
  <2>1. held \in StoreType
    <3>1. Marker(mem.candle) \in 0..MaxBar
      BY DEF Marker, StateOK, Bar
    <3> QED  BY <3>1, NewStoreOK
  <2> HIDE DEF held
  <2>2. PICK S \in SUBSET Bar, odd \in BOOLEAN : store' = Updated(held, S, odd)
    <3>1. \A lo \in Nat \ {0} : \A S \in Served(lo) : S \subseteq Bar
      BY DEF Served, Bar
    <3>2. now \in Nat /\ (now > Delta => now - Delta + 1 \in Nat \ {0})
      BY DEF Bar
    <3>3. OddServed \subseteq BOOLEAN
      BY DEF OddServed
    <3> QED  BY <3>1, <3>2, <3>3 DEF held
  <2>3. store' \in StoreType
    BY <2>1, <2>2, StoreUpdated
  <2>4. pc' \in {"failing", "idle", "judge", "repair"}
    OBVIOUS
  <2> QED  BY <2>1, <2>3, <2>4
<1> QED  BY <1>1

LEMMA RepairStep ==
    ASSUME IInv, Repaired
    PROVE  IInv'
<1> USE Numbers DEF IInv, Types, Bounds, States, HandlingInv, SlotInv, StopInv,
    MarkerInv, PC, Awaiting, Handling, InCycle, brokerVars, cycleVars,
    runVars, historyVars, World, Unsaved
<1>1. CASE Repaired
  <2> USE <1>1 DEF Repaired
  <2>1. PICK S \in SUBSET Bar, odd \in BOOLEAN : store' = Updated(store, S, odd)
    <3>1. \A latest \in store.bars : 1..latest \subseteq Bar
      BY DEF StoreType, Bar
    <3>2. OddServed \subseteq BOOLEAN
      BY DEF OddServed
    <3> QED  BY <3>1, <3>2
  <2>2. store' \in StoreType /\ store'.made = store.made
        /\ store'.marker = store.marker
    BY <2>1, StoreUpdated
  <2>3. pc' \in {"failing", "judge"}
    OBVIOUS
  <2> QED  BY <2>2, <2>3
<1> QED  BY <1>1

\* A baseline puts candles before the loop again, and no other thing.
LEMMA PutBackOK ==
    ASSUME IInv, NEW n \in Bar
    PROVE  LastSignal \in 0..MaxBar /\ PutBack(n) \subseteq Bar
<1>1. LastSignal \in 0..MaxBar
  BY Numbers DEF IInv, States, StateOK, LastSignal, Marker, Bar
<1> QED  BY <1>1, Numbers DEF PutBack, Bar

LEMMA MarkSteps ==
    ASSUME IInv, Baseline \/ SkipNotReady \/ NoSignal \/ SignalFound
    PROVE  IInv'
<1> USE Numbers DEF IInv, Types, Bounds, States, HandlingInv, SlotInv, StopInv,
    MarkerInv, PC, Awaiting, Handling, InCycle, brokerVars, cycleVars,
    runVars, historyVars, World, Unsaved
<1>1. CASE Baseline
  <2> USE <1>1 DEF Baseline
  <2>1. PICK n \in Bar : Mark(n) /\ SaveThen(WithCandle(n), "idle")
                         /\ returned' = returned \cup PutBack(n)
    BY DEF NextNew, NewCandles, StoreType
  <2>2. /\ States' /\ UNCHANGED clean /\ mem'.estop = mem.estop
        /\ store' \in StoreType
        /\ \/ pc' = "idle" /\ UNCHANGED attempt
           \/ pc' = "failing" /\ attempt' = 0
    BY <2>1, MarkStep
  <2>3. returned' \subseteq Bar
    BY <2>1, PutBackOK
  <2> QED  BY <2>2, <2>3
<1>2. CASE SkipNotReady
  <2> USE <1>2 DEF SkipNotReady
  <2>1. PICK n \in Bar : Mark(n) /\ SaveThen(WithCandle(n), "candle")
    BY DEF NextNew, NewCandles, StoreType
  <2>2. /\ States' /\ UNCHANGED clean /\ mem'.estop = mem.estop
        /\ store' \in StoreType
        /\ \/ pc' = "candle" /\ UNCHANGED attempt
           \/ pc' = "failing" /\ attempt' = 0
    BY <2>1, MarkStep
  <2> QED  BY <2>2
<1>3. CASE NoSignal
  <2> USE <1>3 DEF NoSignal
  <2>1. PICK n \in Bar : Mark(n) /\ SaveThen(WithCandle(n), "candle")
    BY DEF NextNew, NewCandles, StoreType
  <2>2. /\ States' /\ UNCHANGED clean /\ mem'.estop = mem.estop
        /\ store' \in StoreType
        /\ \/ pc' = "candle" /\ UNCHANGED attempt
           \/ pc' = "failing" /\ attempt' = 0
    BY <2>1, MarkStep
  <2> QED  BY <2>2
<1>4. CASE SignalFound
  <2> USE <1>4 DEF SignalFound
  <2>1. PICK n \in Bar : NextNew(store, n) /\ Mark(n) /\ mem' = WithCandle(n)
    BY DEF NextNew, NewCandles, StoreType
  <2>2. store' \in StoreType /\ store'.marker = n
    BY <2>1, StoreMarked DEF Mark
  <2>3. StateOK(mem') /\ mem'.candle = n /\ mem'.estop = mem.estop
    BY <2>1 DEF WithCandle, StateOK, BlankState
  <2> QED  BY <2>2, <2>3
<1> QED  BY <1>1, <1>2, <1>3, <1>4

LEMMA HandledSteps ==
    ASSUME IInv, AlertOnly \/ SignalBlocked \/ SubmissionReturns
    PROVE  IInv'
<1> USE Numbers DEF IInv, Types, Bounds, States, HandlingInv, SlotInv, StopInv,
    MarkerInv, PC, Awaiting, Handling, InCycle, brokerVars, cycleVars,
    runVars, historyVars, World, Unsaved
<1> DEFINE s == [mem EXCEPT !.signal = Current]
<1>1. pc \in Handling /\ SaveThen(s, "candle")
      /\ UNCHANGED <<store, scope, warned, seen, monitor, World>>
  BY DEF AlertOnly, SignalBlocked, SubmissionReturns, SignalHandled
<1>2. StateOK(s) /\ s.estop = mem.estop /\ s.candle # None
  BY <1>1 DEF StateOK, BlankState, Current
<1> HIDE DEF s
<1>3. /\ States' /\ UNCHANGED clean /\ mem' = s
      /\ \/ pc' = "candle" /\ UNCHANGED attempt
         \/ pc' = "failing" /\ attempt' = 0
  BY <1>1, <1>2, SaveThenStep
<1> QED  BY <1>1, <1>2, <1>3

LEMMA SubmitSteps ==
    ASSUME IInv, Submit \/ StatusSaved
    PROVE  IInv'
<1> USE Numbers DEF IInv, Types, Bounds, States, HandlingInv, SlotInv, StopInv,
    MarkerInv, PC, Awaiting, Handling, InCycle, brokerVars, cycleVars,
    runVars, historyVars, World, Unsaved
<1>1. CASE Submit
  <2> USE <1>1 DEF Submit
  <2> DEFINE s == Recorded
  <2>1. StateOK(s) /\ s.candle = mem.candle /\ s.estop = mem.estop
        /\ s.candle # None
    BY DEF StateOK, BlankState, Current, Recorded
  <2>2. Save(s)
    OBVIOUS
  <2> HIDE DEF s
  <2>3. States' /\ mem' = s /\ disk'.candle = mem.candle /\ UNCHANGED clean
    BY <2>1, <2>2, SaveStep
  <2> USE <2>1, <2>3
  <2>5. open' = {mem.candle} /\ submitted' \in [Bar -> Nat]
    BY DEF Current
  <2> QED  BY <2>5
<1>2. CASE StatusSaved
  <2> USE <1>2 DEF StatusSaved
  <2> DEFINE s == Recorded
  <2>1. StateOK(s) /\ s.candle = mem.candle /\ s.estop = mem.estop
        /\ s.candle # None
    BY DEF StateOK, BlankState, Current, Recorded
  <2>2. Save(s)
    OBVIOUS
  <2> HIDE DEF s
  <2>3. States' /\ mem' = s /\ disk'.candle = mem.candle /\ UNCHANGED clean
    BY <2>1, <2>2, SaveStep
  <2> QED  BY <2>1, <2>3
<1> QED  BY <1>1, <1>2

LEMMA StopSteps ==
    ASSUME IInv, SubmissionRaises \/ FailsClosed
    PROVE  IInv'
<1> USE Numbers DEF IInv, Types, Bounds, States, HandlingInv, SlotInv, StopInv,
    MarkerInv, PC, Awaiting, Handling, InCycle, brokerVars, cycleVars,
    runVars, historyVars, World, Unsaved
<1>1. CASE SubmissionRaises
  <2> USE <1>1 DEF SubmissionRaises, Fails, Write
  <2>1. StateOK(disk) /\ StateOK([disk EXCEPT !.estop = TRUE])
        /\ [disk EXCEPT !.estop = TRUE].candle = disk.candle
    BY DEF StateOK, BlankState
  <2>2. \/ disk' = disk /\ clean' = clean
        \/ disk' = [disk EXCEPT !.estop = TRUE] /\ clean' = FALSE
    OBVIOUS
  <2>3. StateOK(disk') /\ disk'.candle = disk.candle /\ clean' \in BOOLEAN
    BY <2>1, <2>2
  <2> QED  BY <2>3
<1>2. CASE FailsClosed
  <2> USE <1>2, NoStoreOK DEF FailsClosed, End, Fresh, Write
  <2>1. StateOK(disk) /\ StateOK([disk EXCEPT !.estop = TRUE])
        /\ [disk EXCEPT !.estop = TRUE].candle = disk.candle
    BY DEF StateOK, BlankState
  <2>2. \/ disk' = disk /\ clean' = clean
        \/ disk' = [disk EXCEPT !.estop = TRUE] /\ clean' = FALSE
    OBVIOUS
  <2>3. StateOK(disk') /\ disk'.candle = disk.candle /\ clean' \in BOOLEAN
    BY <2>1, <2>2
  <2> USE <2>3
  <2>4. Types'  OBVIOUS
  <2>5. Bounds'  OBVIOUS
  <2>6. States'  OBVIOUS
  <2>7. HandlingInv'  OBVIOUS
  <2>8. SlotInv'  OBVIOUS
  <2>9. StopInv'  OBVIOUS
  <2>10. MarkerInv'  OBVIOUS
  <2> HIDE DEF Types, Bounds, States, HandlingInv, SlotInv, StopInv, MarkerInv
  <2> QED  BY <2>4, <2>5, <2>6, <2>7, <2>8, <2>9, <2>10
<1> QED  BY <1>1, <1>2

LEMMA OtherSteps ==
    ASSUME IInv, MonitorStep \/ WorldStep \/ UNCHANGED vars
    PROVE  IInv'
<1> USE Numbers DEF IInv, Types, Bounds, States, HandlingInv, SlotInv, StopInv,
    MarkerInv, PC, Awaiting, Handling, InCycle, brokerVars, cycleVars,
    runVars, historyVars, World, Unsaved
<1>1. CASE MonitorStep
  <2> USE <1>1 DEF MonitorStep
  <2>1. StateOK(disk') /\ disk'.candle = disk.candle /\ clean' \in BOOLEAN
        /\ monitor' \in {"none", "running", "dead"}
    <3>1. \A t : t = NoTrade \/ t \in [{"signal_id"} -> Bar] =>
              /\ StateOK([disk EXCEPT !.trade = t])
              /\ [disk EXCEPT !.trade = t].candle = disk.candle
      BY DEF StateOK, BlankState
    <3>2. disk.trade = NoTrade \/ disk.trade \in [{"signal_id"} -> Bar]
      BY DEF StateOK
    <3>3. StateOK([disk EXCEPT !.estop = TRUE])
          /\ [disk EXCEPT !.estop = TRUE].candle = disk.candle
      BY DEF StateOK, BlankState
    <3>4. CASE MonitorWrites
      BY <3>1, <3>2, <3>4 DEF MonitorWrites, Write
    <3>5. CASE MonitorStops
      BY <3>3, <3>5 DEF MonitorStops, Write
    <3>6. CASE MonitorDies
      BY <3>6 DEF MonitorDies
    <3> QED  BY <3>4, <3>5, <3>6
  <2>2. Types'  BY <2>1
  <2>3. Bounds'  BY <2>1
  <2>4. States'  BY <2>1
  <2>5. HandlingInv'  BY <2>1
  <2>6. SlotInv'  BY <2>1
  <2>7. StopInv'  BY <2>1
  <2>8. MarkerInv'  BY <2>1
  <2> HIDE DEF Types, Bounds, States, HandlingInv, SlotInv, StopInv, MarkerInv
  <2> QED  BY <2>2, <2>3, <2>4, <2>5, <2>6, <2>7, <2>8
<1>2. CASE WorldStep
  <2> USE <1>2 DEF WorldStep, TradeFills, TradeEnds, DayEnds, CandleCloses, Bar
  <2>1. Types'  OBVIOUS
  <2>2. Bounds'  OBVIOUS
  <2>3. States'  OBVIOUS
  <2>4. HandlingInv'  OBVIOUS
  <2>5. SlotInv'  OBVIOUS
  <2>6. StopInv'  OBVIOUS
  <2>7. MarkerInv'  OBVIOUS
  <2> HIDE DEF Types, Bounds, States, HandlingInv, SlotInv, StopInv, MarkerInv
  <2> QED  BY <2>1, <2>2, <2>3, <2>4, <2>5, <2>6, <2>7
<1>3. CASE UNCHANGED vars
  BY <1>3 DEF vars
<1> QED  BY <1>1, <1>2, <1>3

LEMMA StepIInv == IInv /\ [Next]_vars => IInv'
<1> SUFFICES ASSUME IInv, [Next]_vars PROVE IInv'
  OBVIOUS
<1>1. CASE Start \/ Crash
  BY <1>1, ProcessSteps
<1>2. CASE Cycle
  BY <1>2, ProcessSteps, JudgeSteps, PaperSteps, FetchStep, RepairStep,
     MarkSteps, HandledSteps, SubmitSteps, StopSteps DEF Cycle
<1>3. CASE Recovery
  BY <1>3, RecoverySteps, StopSteps DEF Recovery
<1>4. CASE MonitorStep \/ WorldStep \/ UNCHANGED vars
  BY <1>4, OtherSteps
<1> QED  BY <1>1, <1>2, <1>3, <1>4 DEF Next

LEMMA Invariance == Spec => []IInv
<1> QED  BY InitIInv, StepIInv, PTL DEF Spec

----------------------------------------------------------------------------
(* One submission for each signal.                                         *)

\* Places behind the fetch of a cycle, and those before a signal is recorded.
AfterFetch == {"repair", "judge", "candle", "warning"} \cup Handling
Unrecorded == {"signal", "snapshot", "product"}

\* A candle that a cycle may not take for a new one.
Past(n) == n <= LastSignal \/ n \in returned

\* Whatever is beyond a marker and not beyond the last signal was put back, or
\* is the last signal itself, next to the marker.
Behind(m) ==
    \A n \in Bar :
        m < n /\ n <= LastSignal => n \in returned \/ LastSignal = m + 1

\* A cycle's copy has the last signal; what was submitted or is in the file is
\* past; the markers of the file and of the store are behind for a reason; a
\* signal being handled is new, or its candle was put back with all the later.
SignalInv ==
    /\ pc \in InCycle => mem.signal = disk.signal
    /\ \A n \in Bar : submitted[n] > 0 => Past(n)
    /\ \A n \in disk.orders \cup mem.orders : Past(n)
    /\ Behind(Marker(disk.candle))
    /\ store.made => Behind(store.marker)
    /\ pc \in AfterFetch => store.made
    /\ pc \in Handling =>
         \A n \in Bar : mem.candle < n /\ n <= LastSignal => n \in returned
    /\ pc \in Unrecorded => LastSignal < mem.candle \/ mem.candle \in returned
    /\ pc = "submitting" => disk.signal = mem.candle

LEMMA MarkersAreNumbers ==
    ASSUME IInv
    PROVE  /\ LastSignal \in Nat /\ LastSignal \in 0..MaxBar
           /\ Marker(disk.candle) \in Nat /\ store.marker \in Nat
  BY Numbers
  DEF IInv, Bounds, StoreType, States, StateOK, LastSignal, Marker, Bar

\* A saved signal, or one that the copy had from the file, is the file's.
LEMMA SavedSignal ==
    ASSUME NEW s, s.signal # None \/ s.signal = disk.signal, Save(s)
    PROVE  mem' = s /\ disk'.signal = s.signal
  BY DEF Save, Saved, MergeConcurrentState, Either

\* A step that leaves the signals and the markers, and goes to no place that
\* SignalInv speaks of but by the same candle.
LEMMA SameSignals ==
    ASSUME IInv, SignalInv,
           UNCHANGED <<submitted, returned>>,
           disk'.signal = disk.signal, disk'.candle = disk.candle,
           disk'.orders = disk.orders,
           mem'.orders \subseteq disk.orders \cup mem.orders,
           pc' \in InCycle => mem'.signal = disk.signal,
           store' = store \/ (store' = NoStore /\ pc' \notin AfterFetch),
           pc' \in AfterFetch => pc \in AfterFetch,
           pc' \in Handling => pc \in Handling /\ mem'.candle = mem.candle,
           pc' \in Unrecorded => pc \in Unrecorded,
           pc' = "submitting" => pc = "submitting"
    PROVE  SignalInv'
<1>1. /\ LastSignal' = LastSignal
      /\ Marker(disk'.candle) = Marker(disk.candle)
  BY DEF LastSignal
<1>2. /\ \A n : Past(n)' <=> Past(n)
      /\ \A n \in Bar : n \in returned' <=> n \in returned
  BY <1>1 DEF Past
<1>3. store'.made => Behind(store.marker)'
  <2>1. ~NoStore.made
    BY NoStoreOK
  <2> QED  BY <1>1, <2>1 DEF SignalInv, Behind
<1>4. Behind(Marker(disk.candle))'
  BY <1>1 DEF SignalInv, Behind
<1>5. pc' \in AfterFetch => store'.made
  BY DEF SignalInv
<1>6. /\ pc' \in Handling =>
           \A n \in Bar :
               mem'.candle < n /\ n <= LastSignal' => n \in returned'
      /\ pc' \in Unrecorded =>
           LastSignal' < mem'.candle \/ mem'.candle \in returned'
      /\ pc' = "submitting" => disk'.signal = mem'.candle
  BY <1>1 DEF SignalInv, Unrecorded, Handling
<1>7. /\ \A n \in Bar : submitted'[n] > 0 => Past(n)'
      /\ \A n \in disk'.orders \cup mem'.orders : Past(n)'
  BY <1>2 DEF SignalInv
<1> QED  BY <1>3, <1>4, <1>5, <1>6, <1>7 DEF SignalInv

LEMMA QuietSignals ==
    ASSUME IInv, SignalInv,
           \/ Start \/ Crash \/ StartCycle \/ RequestFails \/ GapBlocks
           \/ TakeCandles \/ WarnNotReady \/ CandlesDone \/ StopRefuses
           \/ StopAllows \/ SnapshotRead \/ SubmissionRaises
           \/ Recovery \/ MonitorStep \/ WorldStep \/ UNCHANGED vars
    PROVE  SignalInv'
<1>1. pc \in InCycle => mem.signal = disk.signal
  BY DEF SignalInv
<1>2. \A c : /\ [disk EXCEPT !.estop = TRUE].signal = disk.signal
             /\ [disk EXCEPT !.estop = TRUE].candle = disk.candle
             /\ [disk EXCEPT !.estop = TRUE].orders = disk.orders
             /\ [disk EXCEPT !.trade = c].signal = disk.signal
             /\ [disk EXCEPT !.trade = c].candle = disk.candle
             /\ [disk EXCEPT !.trade = c].orders = disk.orders
  BY DEF IInv, States, StateOK, BlankState
<1> USE DEF InCycle, AfterFetch, Handling, Unrecorded, World, brokerVars,
        historyVars, Unsaved
<1>3. CASE Start
  BY <1>1, <1>3, SameSignals DEF Start, Fresh, runVars
<1>4. CASE Crash
  BY <1>1, <1>4, SameSignals DEF Crash, End, Fresh
<1>5. CASE StartCycle
  BY <1>1, <1>5, SameSignals DEF StartCycle
<1>6. CASE RequestFails \/ StopRefuses
  BY <1>1, <1>6, SameSignals DEF RequestFails, StopRefuses, Fails
<1>7. CASE GapBlocks
  BY <1>1, <1>7, SameSignals DEF GapBlocks
<1>8. CASE WarnNotReady
  BY <1>1, <1>8, SameSignals DEF WarnNotReady
<1>9. CASE TakeCandles \/ CandlesDone \/ StopAllows
  BY <1>1, <1>9, SameSignals DEF TakeCandles, CandlesDone, StopAllows, cycleVars
<1>10. CASE SnapshotRead
  BY <1>1, <1>10, SameSignals DEF SnapshotRead
<1>11. CASE SubmissionRaises
  BY <1>1, <1>2, <1>11, SameSignals DEF SubmissionRaises, Fails, Write
<1>12. CASE Recovery
  <2>1. CASE RecoveryAborted
    BY <1>1, <2>1, SameSignals DEF RecoveryAborted, End, Fresh
  <2>2. CASE RecoveryStarts
    BY <1>1, <2>2, SameSignals DEF RecoveryStarts, cycleVars
  <2>3. CASE AttemptSucceeds
    BY <1>1, <2>3, SameSignals DEF AttemptSucceeds, End, Fresh
  <2>4. CASE AttemptFails
    BY <1>1, <2>4, SameSignals DEF AttemptFails
  <2>5. CASE FailsClosed
    BY <1>1, <1>2, <2>5, SameSignals DEF FailsClosed, End, Fresh, Write
  <2> QED  BY <1>12, <2>1, <2>2, <2>3, <2>4, <2>5 DEF Recovery
<1>13. CASE MonitorStep
  <2>1. /\ disk'.signal = disk.signal /\ disk'.candle = disk.candle
        /\ disk'.orders = disk.orders
    <3>1. CASE MonitorWrites
      BY <1>2, <3>1 DEF MonitorWrites, Write
    <3>2. CASE MonitorStops \/ MonitorDies
      BY <1>2, <3>2 DEF MonitorStops, MonitorDies, Write
    <3> QED  BY <1>13, <3>1, <3>2 DEF MonitorStep
  <2>2. UNCHANGED <<pc, cycleVars, World>>
    BY <1>13 DEF MonitorStep
  <2> QED  BY <1>1, <2>1, <2>2, SameSignals DEF cycleVars
<1>14. CASE WorldStep
  BY <1>1, <1>14, SameSignals DEF WorldStep, cycleVars
<1>15. CASE UNCHANGED vars
  BY <1>1, <1>15, SameSignals DEF vars, cycleVars
<1> QED
  BY <1>3, <1>4, <1>5, <1>6, <1>7, <1>8, <1>9, <1>10, <1>11, <1>12, <1>13,
     <1>14, <1>15

\* The fetch and the repair leave the marker: a new store has the file's.
LEMMA FetchSignals ==
    ASSUME IInv, SignalInv, Fetched \/ Repaired
    PROVE  SignalInv'
<1>1. UNCHANGED <<disk, mem, submitted, returned>>
  BY DEF Fetched, Repaired, Unsaved, World, brokerVars, historyVars
<1>2. /\ LastSignal' = LastSignal /\ \A n : Past(n)' <=> Past(n)
      /\ \A m \in Nat : Behind(m)' <=> Behind(m)
  BY <1>1 DEF LastSignal, Past, Behind
<1>3. /\ pc \in InCycle
      /\ pc' \notin Handling /\ pc' \notin Unrecorded /\ pc' # "submitting"
  BY DEF Fetched, Repaired, Handling, Unrecorded, InCycle
<1>4. store'.made /\ store'.marker \in Nat /\ Behind(store'.marker)
  <2>1. CASE Fetched
    <3> DEFINE held == IF store.made THEN store
                       ELSE NewStore(Marker(mem.candle))
    <3>1. PICK S, odd : store' = Updated(held, S, odd)
      BY <2>1 DEF Fetched
    <3>2. Marker(mem.candle) = Marker(disk.candle) /\ Marker(mem.candle) \in 0..MaxBar
      BY <2>1, Numbers DEF Fetched, IInv, MarkerInv, States, StateOK, Marker, Bar
    <3>3. held.made /\ held.marker \in Nat /\ Behind(held.marker)
      BY <3>2, NewStoreOK, MarkersAreNumbers DEF SignalInv
    <3>4. held \in StoreType
      BY <3>2, NewStoreOK DEF IInv, Bounds
    <3> HIDE DEF held
    <3>5. store'.made = held.made /\ store'.marker = held.marker
      BY <3>1, <3>4 DEF Updated, StoreType
    <3> QED  BY <3>3, <3>5
  <2>2. CASE Repaired
    <3>1. PICK S, odd : store' = Updated(store, S, odd)
      BY <2>2 DEF Repaired
    <3>2. store'.made = store.made /\ store'.marker = store.marker
      BY <3>1 DEF Updated, IInv, Bounds, StoreType
    <3>3. pc \in AfterFetch
      BY <2>2 DEF Repaired, AfterFetch
    <3> QED  BY <3>2, <3>3, MarkersAreNumbers DEF SignalInv
  <2> QED  BY <2>1, <2>2
<1> QED
  BY <1>1, <1>2, <1>3, <1>4, MarkersAreNumbers DEF SignalInv

\* A candle is marked: the next one is beyond the marker, and a baseline puts
\* back what it goes before.
LEMMA MarkSignals ==
    ASSUME IInv, SignalInv, Baseline \/ SkipNotReady \/ NoSignal
    PROVE  SignalInv'
<1>1. PICK n \in store.bars, next \in {"idle", "candle"} :
        /\ Mark(n) /\ SaveThen(WithCandle(n), next)
        /\ \/ n > store.marker /\ UNCHANGED returned
           \/ returned' = returned \cup PutBack(n)
  BY DEF Baseline, SkipNotReady, NoSignal, NextNew, NewCandles, World,
     historyVars
<1>2. /\ pc \in AfterFetch /\ pc \in InCycle /\ UNCHANGED submitted
  BY DEF Baseline, SkipNotReady, NoSignal, AfterFetch, InCycle, World,
     brokerVars
<1>3. /\ n \in Bar /\ n \in Nat /\ n # None
  BY Numbers DEF IInv, Bounds, StoreType, Bar
<1>4. WithCandle(n).signal = disk.signal /\ WithCandle(n).orders = mem.orders
  BY <1>2 DEF WithCandle, SignalInv, IInv, States, StateOK, BlankState
<1>5. /\ mem' = WithCandle(n) /\ UNCHANGED clean
      /\ Save(WithCandle(n)) \/ disk' = disk
      /\ Save(WithCandle(n)) => disk'.candle = n
      /\ pc' \in {"idle", "candle", "failing"}
      /\ store'.marker = n
  BY <1>1, <1>3, MarkStep
<1>6. disk'.signal = disk.signal /\ mem'.signal = disk.signal
  BY <1>4, <1>5, SavedSignal
<1>7. LastSignal' = LastSignal
  BY <1>6 DEF LastSignal
<1>8. returned \subseteq returned'
  BY <1>1
<1>9. Behind(n)'
  <2> SUFFICES ASSUME NEW b \in Bar, n < b, b <= LastSignal
               PROVE  b \in returned' \/ LastSignal = n + 1
    BY <1>7 DEF Behind
  <2>1. b \in Nat /\ LastSignal \in Nat /\ store.marker \in Nat
    BY MarkersAreNumbers DEF Bar
  <2>2. CASE n > store.marker /\ UNCHANGED returned
    <3>1. Behind(store.marker)
      BY <1>2 DEF SignalInv
    <3> QED  BY <1>3, <2>1, <2>2, <3>1 DEF Behind
  <2>3. CASE returned' = returned \cup PutBack(n)
    <3>1. CASE n + 1 < LastSignal
      BY <1>3, <2>1, <2>3, <3>1 DEF PutBack
    <3>2. CASE ~(n + 1 < LastSignal)
      BY <1>3, <2>1, <3>2
    <3> QED  BY <3>1, <3>2
  <2> QED  BY <1>1, <2>2, <2>3
<1>10. store'.made = store.made
  BY <1>1 DEF Mark, Marked, IInv, Bounds, StoreType
<1>11. Behind(Marker(disk.candle))'
  <2>1. CASE Save(WithCandle(n))
    BY <1>3, <1>5, <1>9, <2>1 DEF Marker
  <2>2. CASE disk' = disk
    BY <1>7, <1>8, <2>2 DEF SignalInv, Behind
  <2> QED  BY <1>5, <2>1, <2>2
<1>12. \A b : Past(b) => Past(b)'
  BY <1>7, <1>8 DEF Past
<1>13. /\ \A b \in Bar : submitted'[b] > 0 => Past(b)'
       /\ \A b \in disk'.orders \cup mem'.orders : Past(b)'
  <2>1. disk'.orders \subseteq disk.orders \cup mem.orders
        /\ mem'.orders = mem.orders
    BY <1>4, <1>5 DEF Save, Saved, MergeConcurrentState
  <2> QED  BY <1>2, <1>12, <2>1 DEF SignalInv
<1>14. /\ pc' \notin Handling /\ pc' \notin Unrecorded /\ pc' # "submitting"
       /\ store'.made
  BY <1>2, <1>5, <1>10 DEF SignalInv, Handling, Unrecorded
<1> QED
  BY <1>5, <1>6, <1>9, <1>11, <1>13, <1>14 DEF SignalInv

\* A signal that was found is new, or its candle was put back.
LEMMA FoundSignals == IInv /\ SignalInv /\ SignalFound => SignalInv'
<1> SUFFICES ASSUME IInv, SignalInv, SignalFound PROVE SignalInv'
  OBVIOUS
<1>1. PICK n \in store.bars :
        n > store.marker /\ mem.signal # n /\ Mark(n) /\ mem' = WithCandle(n)
  BY DEF SignalFound, SignalAt, NextNew, NewCandles
<1>2. /\ pc = "candle" /\ pc' = "signal"
      /\ UNCHANGED <<disk, submitted, returned>>
  BY DEF SignalFound, Unsaved, World, brokerVars, historyVars
<1>3. /\ n \in Bar /\ n \in Nat /\ n # None
      /\ LastSignal \in Nat /\ store.marker \in Nat
  BY Numbers, MarkersAreNumbers DEF IInv, Bounds, StoreType, Bar
<1>4. mem'.candle = n /\ mem'.signal = disk.signal
  BY <1>1, <1>2
  DEF WithCandle, SignalInv, IInv, States, StateOK, BlankState, InCycle
<1>5. /\ LastSignal' = LastSignal /\ LastSignal # n
      /\ \A b : Past(b)' <=> Past(b)
  <2>1. LastSignal' = LastSignal
    BY <1>2 DEF LastSignal
  <2>2. LastSignal # n
    BY <1>1, <1>2, <1>3, Numbers DEF LastSignal, Marker, SignalInv, InCycle, Bar
  <2> QED  BY <1>2, <2>1, <2>2 DEF Past
<1>6. Behind(store.marker)
  BY <1>2 DEF SignalInv, AfterFetch
<1>7. \A b \in Bar : n < b /\ b <= LastSignal => b \in returned
  BY <1>1, <1>3, <1>6 DEF Behind, Bar
<1>8. LastSignal < n \/ n \in returned
  BY <1>1, <1>3, <1>5, <1>6 DEF Behind
<1>9. store'.made = store.made /\ store'.marker = n
  BY <1>1 DEF Mark, Marked, IInv, Bounds, StoreType
<1>10. Behind(n)' /\ Behind(Marker(disk.candle))'
  BY <1>2, <1>5, <1>7 DEF SignalInv, Behind
<1>11. /\ \A b \in Bar : submitted'[b] > 0 => Past(b)'
       /\ \A b \in disk'.orders \cup mem'.orders : Past(b)'
  <2>1. mem'.orders = mem.orders
    BY <1>1 DEF WithCandle, IInv, States, StateOK, BlankState
  <2> QED  BY <1>2, <1>5, <2>1 DEF SignalInv
<1> QED
  BY <1>2, <1>4, <1>5, <1>7, <1>8, <1>9, <1>10, <1>11
  DEF SignalInv, AfterFetch, Handling, Unrecorded

\* The signal is recorded as the last one; a submission is its first.
LEMMA HandledSignals ==
    ASSUME IInv, SignalInv,
           \/ AlertOnly \/ SignalBlocked \/ SubmissionReturns
           \/ Submit \/ StatusSaved
    PROVE  SignalInv'
<1>1. /\ pc \in Handling /\ pc \in InCycle /\ UNCHANGED <<store, returned>>
      /\ UNCHANGED submitted \/ Submit
  BY DEF AlertOnly, SignalBlocked, SubmissionReturns, Submit, StatusSaved,
     SignalHandled, Handling, InCycle, World, brokerVars, historyVars
<1>2. /\ Current = mem.candle /\ Current \in Bar /\ Current \in Nat
      /\ Current # None /\ store.marker = Current /\ LastSignal \in Nat
  BY <1>1, Numbers, MarkersAreNumbers
  DEF IInv, HandlingInv, MarkerInv, Current, Bar
<1>3. PICK s : /\ \/ Save(s) /\ pc' \in {"candle", "submitting", "failing"}
                  \/ mem' = s /\ disk' = disk /\ pc' = "failing" /\ ~Submit
               /\ s.signal = Current /\ s.candle = Current
               /\ StateOK(s) /\ s.orders \subseteq mem.orders \cup {Current}
               /\ Save(s) \/ s.orders = mem.orders
  <2>1. /\ StateOK([mem EXCEPT !.signal = Current])
        /\ [mem EXCEPT !.signal = Current].signal = Current
        /\ [mem EXCEPT !.signal = Current].candle = Current
        /\ [mem EXCEPT !.signal = Current].orders = mem.orders
    BY <1>2 DEF IInv, States, StateOK, BlankState, Current
  <2>2. StateOK(Recorded) /\ Recorded.signal = Current
        /\ Recorded.candle = Current
        /\ Recorded.orders = mem.orders \cup {Current}
    BY <1>2 DEF IInv, States, StateOK, BlankState, Current, Recorded
  <2>3. CASE AlertOnly \/ SignalBlocked \/ SubmissionReturns
    <3>1. SaveThen([mem EXCEPT !.signal = Current], "candle")
      BY <2>3 DEF AlertOnly, SignalBlocked, SubmissionReturns, SignalHandled
    <3>2. UNCHANGED submitted
      BY <2>3 DEF AlertOnly, SignalBlocked, SubmissionReturns, World, brokerVars
    <3>3. ~Submit
      BY <1>2, <3>2 DEF Submit, IInv, SlotInv
    <3> QED  BY <2>1, <3>1, <3>3 DEF SaveThen, Unsaved
  <2>4. CASE Submit \/ StatusSaved
    BY <2>2, <2>4 DEF Submit, StatusSaved
  <2> QED  BY <2>3, <2>4
<1>4. /\ pc' \in InCycle => Save(s)
      /\ pc' \notin {"repair", "judge"} /\ pc' \notin Unrecorded
      /\ mem' = s /\ Current' = Current
  BY <1>2, <1>3 DEF InCycle, Unrecorded, Save, Current
<1>5. Save(s) => /\ disk'.signal = Current /\ disk'.candle = Current
                 /\ disk'.orders \cup mem'.orders
                      \subseteq disk.orders \cup mem.orders \cup {Current}
  <2> SUFFICES ASSUME Save(s)
               PROVE  /\ disk'.signal = Current /\ disk'.candle = Current
                      /\ disk'.orders \cup mem'.orders
                           \subseteq disk.orders \cup mem.orders \cup {Current}
    OBVIOUS
  <2>1. disk'.signal = Current /\ disk'.candle = Current
    BY <1>2, <1>3, SavedSignal, SaveStep
  <2>2. disk'.orders \subseteq disk.orders \cup s.orders /\ mem' = s
    BY DEF Save, Saved, MergeConcurrentState
  <2> QED  BY <1>3, <2>1, <2>2
<1>6. CASE Save(s)
  <2>1. LastSignal' = Current /\ Marker(disk'.candle) = Current
    BY <1>2, <1>5, <1>6 DEF LastSignal, Marker
  <2>2. \A b \in Bar : Past(b) => Past(b)'
    <3> SUFFICES ASSUME NEW b \in Bar, b <= LastSignal
                 PROVE  b <= Current \/ b \in returned
      BY <1>1, <2>1 DEF Past
    <3> QED  BY <1>1, <1>2 DEF SignalInv, Bar
  <2>3. Past(Current)'
    BY <1>2, <1>4, <2>1 DEF Past
  <2>4. \A b \in Bar : submitted'[b] > 0 => Past(b)'
    <3>1. CASE UNCHANGED submitted
      BY <2>2, <3>1 DEF SignalInv
    <3>2. CASE Submit
      <4>1. submitted' = [submitted EXCEPT ![Current] = @ + 1]
        BY <3>2 DEF Submit
      <4>2. \A b \in Bar : b # Current => submitted'[b] = submitted[b]
        BY <4>1 DEF IInv, SlotInv
      <4> QED  BY <1>4, <2>2, <2>3, <4>2 DEF SignalInv
    <3> QED  BY <1>1, <3>1, <3>2
  <2>5. \A b \in disk'.orders \cup mem'.orders : Past(b)'
    <3>1. disk.orders \cup mem.orders \subseteq Bar
      BY DEF IInv, States, StateOK
    <3> QED  BY <1>4, <1>5, <1>6, <2>2, <2>3, <3>1 DEF SignalInv
  <2>6. Behind(store.marker)' /\ Behind(Marker(disk.candle))'
    BY <1>1, <1>2, <2>1 DEF Behind, Bar
  <2>7. store'.made
    BY <1>1 DEF SignalInv, AfterFetch
  <2>8. \A b \in Bar : Current < b /\ b <= Current => b \in returned'
    BY <1>2 DEF Bar
  <2> QED
    BY <1>3, <1>4, <1>5, <1>6, <2>1, <2>4, <2>5, <2>6, <2>7, <2>8
    DEF SignalInv, Unrecorded
<1>7. CASE ~Save(s)
  <2>1. /\ disk' = disk /\ pc' = "failing" /\ mem'.orders = mem.orders
        /\ UNCHANGED <<submitted, store, returned>>
    BY <1>1, <1>3, <1>4, <1>7
  <2> QED
    BY <2>1, SameSignals DEF InCycle, AfterFetch, Handling, Unrecorded
<1> QED  BY <1>6, <1>7

LEMMA SignalStep == IInv /\ SignalInv /\ [Next]_vars => SignalInv'
<1> SUFFICES ASSUME IInv, SignalInv, [Next]_vars PROVE SignalInv'
  OBVIOUS
<1>1. ASSUME Fetched \/ Repaired PROVE SignalInv'
  BY <1>1, FetchSignals
<1>2. ASSUME Baseline \/ SkipNotReady \/ NoSignal PROVE SignalInv'
  BY <1>2, MarkSignals
<1>3. ASSUME \/ AlertOnly \/ SignalBlocked \/ SubmissionReturns
             \/ Submit \/ StatusSaved
      PROVE  SignalInv'
  BY <1>3, HandledSignals
<1> QED
  BY <1>1, <1>2, <1>3, FoundSignals, QuietSignals DEF Next, Cycle

LEMMA InitSignals == Init => SignalInv
  BY Numbers
  DEF Init, SignalInv, BlankState, NoStore, LastSignal, Marker, AfterFetch,
      Handling, Unrecorded, InCycle, Behind, Bar

\* A step adds at most one submission: to a signal that had none, or whose
\* candle was put back.
LEMMA SubmitsNew ==
    ASSUME IInv, SignalInv, SubmittedOnce, [Next]_vars PROVE SubmittedOnce'
<1>1. returned \subseteq returned'
  BY DEF vars, Next, Cycle, Recovery, Start, Crash, StartCycle, RequestFails,
     Fetched, Repaired, GapBlocks, Baseline, TakeCandles, WarnNotReady,
     SkipNotReady, NoSignal, SignalFound, CandlesDone, AlertOnly,
     StopRefuses, StopAllows, SnapshotRead, SignalBlocked, Submit,
     StatusSaved, SubmissionReturns, SubmissionRaises, RecoveryAborted,
     RecoveryStarts, AttemptSucceeds, AttemptFails, FailsClosed, MonitorStep,
     WorldStep, World, historyVars
<1>2. CASE UNCHANGED submitted
  BY <1>1, <1>2 DEF SubmittedOnce
<1>3. CASE Submit
  <2>1. /\ submitted' = [submitted EXCEPT ![Current] = @ + 1]
        /\ LastSignal < Current \/ Current \in returned
        /\ Current \in Bar
    BY <1>3 DEF Submit, SignalInv, Unrecorded, Current, IInv, HandlingInv,
       Handling
  <2>2. submitted \in [Bar -> Nat]
    BY DEF IInv, SlotInv
  <2>3. Current \notin returned => submitted[Current] = 0
    <3>1. LastSignal \in Nat /\ Current \in Nat
      BY <2>1, MarkersAreNumbers DEF Bar
    <3> QED  BY <2>1, <2>2, <3>1 DEF SignalInv, Past
  <2> QED  BY <1>1, <2>1, <2>2, <2>3 DEF SubmittedOnce
<1>4. UNCHANGED submitted \/ Submit
  BY DEF vars, Next, Cycle, Recovery, Start, Crash, StartCycle, RequestFails,
     Fetched, Repaired, GapBlocks, Baseline, TakeCandles, WarnNotReady,
     SkipNotReady, NoSignal, SignalFound, CandlesDone, AlertOnly,
     StopRefuses, StopAllows, SnapshotRead, SignalBlocked, StatusSaved,
     SubmissionReturns, SubmissionRaises, RecoveryAborted, RecoveryStarts,
     AttemptSucceeds, AttemptFails, FailsClosed, MonitorStep, WorldStep,
     World, brokerVars
<1> QED  BY <1>2, <1>3, <1>4

----------------------------------------------------------------------------
(* Theorems.                                                               *)

\* Nobody but the cycle's saves touches the marker of the file.
LEMMA OnlySavesMark ==
    ASSUME IInv, Next, disk'.candle # disk.candle
    PROVE  \/ Baseline \/ SkipNotReady \/ NoSignal \/ AlertOnly
           \/ SignalBlocked \/ SubmissionReturns \/ Submit \/ StatusSaved
<1>1. \A c : /\ [disk EXCEPT !.estop = TRUE].candle = disk.candle
             /\ [disk EXCEPT !.trade = c].candle = disk.candle
  BY DEF IInv, States, StateOK, BlankState
<1>2. ~MonitorStep
  <2>1. ~MonitorWrites
    BY <1>1 DEF MonitorWrites, Write
  <2>2. ~MonitorStops /\ ~MonitorDies
    BY <1>1 DEF MonitorStops, MonitorDies, Unsaved, Write
  <2> QED  BY <2>1, <2>2 DEF MonitorStep
<1>3. ~Recovery
  BY <1>1 DEF Recovery, RecoveryAborted, RecoveryStarts, AttemptSucceeds,
     AttemptFails, FailsClosed, Unsaved, Write
<1>4. ~SubmissionRaises
  BY <1>1 DEF SubmissionRaises, Unsaved, Write
<1>5. ~(Start \/ Crash \/ WorldStep)
  BY DEF Start, Crash, WorldStep, Unsaved
<1>6. ~(StartCycle \/ RequestFails \/ Fetched \/ Repaired \/ GapBlocks
        \/ TakeCandles \/ WarnNotReady \/ SignalFound \/ CandlesDone
        \/ StopRefuses \/ StopAllows \/ SnapshotRead)
  BY DEF StartCycle, RequestFails, Fetched, Repaired, GapBlocks, TakeCandles,
     WarnNotReady, SignalFound, CandlesDone, StopRefuses, StopAllows,
     SnapshotRead, Unsaved
<1> QED  BY <1>2, <1>3, <1>4, <1>5, <1>6 DEF Next, Cycle


\* Every variable of the cycle has its type in every state: whatever is saved,
\* merged or read back is a state.
THEOREM TypeCorrect == Spec => []TypeOK
<1>1. IInv => TypeOK
  BY DEF IInv, Types, Bounds, States, SlotInv, TypeOK, StoreType
<1> QED  BY <1>1, Invariance, PTL

\* One slot: whatever the cycle was doing when it awaited, failed or was cut
\* off, two trades are never at work.
THEOREM OneAtATime == Spec => []OneTradeAtATime
<1>1. IInv => OneTradeAtATime
  <2> SUFFICES ASSUME IInv PROVE Cardinality(open) <= 1
    BY DEF OneTradeAtATime
  <2>1. CASE open = {}
    BY <2>1, FS_EmptySet
  <2>2. CASE open # {}
    <3>1. PICK n : open = {n}
      BY <2>2 DEF IInv, SlotInv
    <3>2. Cardinality({n}) = 1
      BY FS_Singleton
    <3> QED  BY <3>1, <3>2
  <2> QED  BY <2>1, <2>2
<1> QED  BY <1>1, Invariance, PTL

\* mark_processed against save: no write of the file's marker, whatever copy it
\* merges, names a candle that the store in memory has still to process.
THEOREM NotBehind == Spec => MarkerNotBehind
<1>1. IInv /\ [Next]_vars
        => [disk'.candle # disk.candle
              => Marker(disk'.candle) <= store'.marker]_vars
  <2> SUFFICES ASSUME IInv, Next, disk'.candle # disk.candle
               PROVE  Marker(disk'.candle) <= store'.marker
    OBVIOUS
  <2>1. \/ Baseline \/ SkipNotReady \/ NoSignal \/ AlertOnly \/ SignalBlocked
        \/ SubmissionReturns \/ Submit \/ StatusSaved
    BY OnlySavesMark
  <2>2. CASE Baseline \/ SkipNotReady \/ NoSignal
    <3>1. PICK n \in store.bars, next \in PC :
            Mark(n) /\ SaveThen(WithCandle(n), next)
      BY <2>2 DEF Baseline, SkipNotReady, NoSignal, NextNew, NewCandles, PC,
         Awaiting
    <3>2. n \in Bar /\ n \in Nat /\ n # None
      BY Numbers DEF IInv, Bounds, StoreType, Bar
    <3>3. store'.marker = n /\ disk'.candle = n
      BY <3>1, <3>2, MarkStep
    <3> QED  BY <3>2, <3>3 DEF Marker
  <2>3. CASE \/ AlertOnly \/ SignalBlocked \/ SubmissionReturns
             \/ Submit \/ StatusSaved
    <3> DEFINE s == [mem EXCEPT !.signal = Current]
    <3>1. /\ pc \in Handling /\ store' = store
          /\ SaveThen(s, "candle") \/ Save(Recorded)
      BY <2>3 DEF AlertOnly, SignalBlocked, SubmissionReturns, Submit,
         StatusSaved, SignalHandled, Handling
    <3>2. mem.candle \in Bar /\ mem.candle = store.marker /\ store.marker \in Nat
      BY <3>1, Numbers DEF IInv, HandlingInv, MarkerInv, Bar
    <3>3. /\ StateOK(s) /\ s.candle = mem.candle
          /\ StateOK(Recorded) /\ Recorded.candle = mem.candle
          /\ mem.candle # None
      BY <3>2, Numbers DEF IInv, States, StateOK, BlankState, Current, Recorded
    <3> HIDE DEF s
    <3>4. disk'.candle = mem.candle
      <4>1. CASE Save(Recorded)
        BY <3>3, <4>1, SaveStep
      <4>2. CASE SaveThen(s, "candle")
        <5>1. Save(s) => disk'.candle = s.candle
          BY <3>3, <4>2, SaveThenStep
        <5>2. Save(s) \/ disk' = disk
          BY <3>3, <4>2, SaveThenStep
        <5> QED  BY <3>3, <5>1, <5>2
      <4> QED  BY <3>1, <4>1, <4>2
    <3> QED  BY <3>1, <3>2, <3>3, <3>4 DEF Marker
  <2> QED  BY <2>1, <2>2, <2>3
<1> QED  BY <1>1, Invariance, PTL DEF Spec, MarkerNotBehind

\* assert_trading_allowed: a stop that was in the file when the cycle began
\* blocks all of its submissions.
THEOREM StopBlocks == Spec => StopAtStartBlocks
<1>1. IInv /\ [Next]_vars => [submitted' # submitted => ~stopAtStart]_vars
  <2> SUFFICES ASSUME IInv, Next, submitted' # submitted PROVE ~stopAtStart
    OBVIOUS
  <2>1. Submit
    BY DEF Next, Cycle, Recovery, Start, Crash, StartCycle, RequestFails,
       Fetched, Repaired, GapBlocks, Baseline, TakeCandles, WarnNotReady,
       SkipNotReady, NoSignal, SignalFound, CandlesDone, AlertOnly,
       StopRefuses, StopAllows, SnapshotRead, SignalBlocked, StatusSaved,
       SubmissionReturns, SubmissionRaises, RecoveryAborted, RecoveryStarts,
       AttemptSucceeds, AttemptFails, FailsClosed, MonitorStep, WorldStep,
       World, brokerVars
  <2> QED  BY <2>1 DEF Submit, IInv, StopInv, InCycle
<1> QED  BY <1>1, Invariance, PTL DEF Spec, StopAtStartBlocks

\* README.md, "prevent duplicate order submission after restart": through every
\* failed cycle, failed write, recovery, crash and restart, and however late the
\* broker serves a candle, the signal of a candle that no baseline put before
\* the loop again is submitted at most once.
THEOREM NoneTwice == Spec => []SubmittedOnce
<1>1. Init => SignalInv /\ SubmittedOnce
  BY InitSignals DEF Init, SubmittedOnce
<1>2. IInv /\ SignalInv /\ SubmittedOnce /\ [Next]_vars
        => SignalInv' /\ SubmittedOnce'
  BY SignalStep, SubmitsNew
<1> QED  BY <1>1, <1>2, Invariance, PTL DEF Spec

----------------------------------------------------------------------------
(* The cycle implements the ledger.                                        *)

\* The copy of the cycle never knows a stop or an order that the file does
\* not; it is saved unmerged only when it knows all of them.
CopyInv ==
    /\ mem.estop => disk.estop
    /\ mem.orders \subseteq disk.orders
    /\ clean => mem.estop = disk.estop /\ mem.orders = disk.orders
    /\ pc = "submitting" => Current \in mem.orders

\* What the main loop does to the file and its copy, as the ledger sees it.
Idle ==
    /\ UNCHANGED <<LastSignal, open, returned>>
    /\ disk'.orders = disk.orders /\ disk'.estop = disk.estop

Halted ==
    /\ UNCHANGED <<LastSignal, open, returned>>
    /\ disk'.orders = disk.orders /\ disk'.estop

LEMMA CopySaved ==
    ASSUME IInv, CopyInv, NEW s, StateOK(s), s.estop = mem.estop,
           mem.orders \subseteq s.orders, Save(s)
    PROVE  /\ mem' = s /\ clean' = clean
           /\ disk'.estop = disk.estop
           /\ disk'.orders = disk.orders \cup s.orders
           /\ clean => disk' = s
<1>1. /\ MergeConcurrentState(disk, s).estop = (disk.estop \/ s.estop)
      /\ MergeConcurrentState(disk, s).orders = disk.orders \cup s.orders
  BY DEF MergeConcurrentState
<1>2. {disk.estop, mem.estop} \subseteq BOOLEAN
  BY DEF IInv, States, StateOK
<1> QED  BY <1>1, <1>2 DEF Save, Saved, CopyInv

\* Steps that write nothing.
LEMMA CopyKept ==
    ASSUME CopyInv, Unsaved, UNCHANGED mem, pc' = "submitting" => pc = pc'
    PROVE  CopyInv' /\ disk' = disk
  BY DEF CopyInv, Unsaved, Current

\* Writes of others, which only ever add the stop.
LEMMA OthersWrite ==
    ASSUME IInv, CopyInv, UNCHANGED <<mem, open, returned>>,
           \/ \E t : Write([disk EXCEPT !.trade = t])
           \/ Write([disk EXCEPT !.estop = TRUE]),
           pc' = "submitting" => pc = pc'
    PROVE  CopyInv' /\ (Idle \/ Halted)
<1>1. \A t : /\ [disk EXCEPT !.trade = t].orders = disk.orders
             /\ [disk EXCEPT !.trade = t].signal = disk.signal
             /\ [disk EXCEPT !.trade = t].estop = disk.estop
  BY DEF IInv, States, StateOK, BlankState
<1>2. /\ [disk EXCEPT !.estop = TRUE].orders = disk.orders
      /\ [disk EXCEPT !.estop = TRUE].signal = disk.signal
      /\ [disk EXCEPT !.estop = TRUE].estop = TRUE
  BY DEF IInv, States, StateOK, BlankState
<1>3. /\ disk'.orders = disk.orders /\ disk'.signal = disk.signal
      /\ disk'.estop = disk.estop \/ disk'.estop = TRUE
      /\ clean' = FALSE
  BY <1>1, <1>2 DEF Write
<1> QED
  BY <1>3 DEF CopyInv, Current, Idle, Halted, LastSignal

LEMMA QuietLedger ==
    ASSUME IInv, CopyInv,
           \/ Start \/ Crash \/ StartCycle \/ RequestFails \/ Fetched
           \/ Repaired \/ GapBlocks \/ TakeCandles \/ WarnNotReady
           \/ SignalFound \/ CandlesDone \/ StopRefuses \/ StopAllows
           \/ SnapshotRead \/ SubmissionRaises \/ Recovery \/ MonitorStep
           \/ UNCHANGED vars
    PROVE  CopyInv' /\ (Idle \/ Halted)
<1>1. disk' = disk /\ UNCHANGED <<open, returned>> => Idle
  BY DEF Idle, LastSignal
<1> USE DEF World, brokerVars, historyVars
<1>2. CASE Start
  BY <1>1, <1>2, CopyKept DEF Start, Fresh, Unsaved
<1>3. CASE Crash
  BY <1>1, <1>3, CopyKept DEF Crash, End, Fresh
<1>4. CASE StartCycle
  BY <1>1, <1>4 DEF StartCycle, CopyInv, Current
<1>5. CASE RequestFails \/ StopRefuses
  BY <1>1, <1>5, CopyKept DEF RequestFails, StopRefuses, Fails
<1>6. CASE Fetched
  <2>1. pc' # "submitting"
    BY <1>6 DEF Fetched
  <2> QED  BY <1>1, <1>6, <2>1, CopyKept DEF Fetched
<1>7. CASE Repaired \/ GapBlocks
  <2>1. pc' # "submitting"
    BY <1>7 DEF Repaired, GapBlocks
  <2> QED  BY <1>1, <1>7, <2>1, CopyKept DEF Repaired, GapBlocks
<1>8. CASE TakeCandles \/ CandlesDone \/ StopAllows \/ SnapshotRead
  <2>1. pc' # "submitting"
    BY <1>8 DEF TakeCandles, CandlesDone, StopAllows, SnapshotRead
  <2> QED
    BY <1>1, <1>8, <2>1, CopyKept
    DEF TakeCandles, CandlesDone, StopAllows, SnapshotRead, cycleVars
<1>9. CASE WarnNotReady
  <2>1. pc' # "submitting"
    BY <1>9 DEF WarnNotReady
  <2> QED  BY <1>1, <1>9, <2>1, CopyKept DEF WarnNotReady
<1>10. CASE SignalFound
  <2>1. PICK n : mem' = WithCandle(n)
    BY <1>10 DEF SignalFound
  <2>2. mem'.estop = mem.estop /\ mem'.orders = mem.orders
    BY <2>1 DEF WithCandle, IInv, States, StateOK, BlankState
  <2> QED
    BY <1>1, <1>10, <2>2 DEF SignalFound, CopyInv, Unsaved
<1>11. CASE SubmissionRaises
  <2>1. pc' = "failing" /\ UNCHANGED <<mem, open, returned>>
    BY <1>11 DEF SubmissionRaises, Fails
  <2> QED
    BY <1>1, <1>11, <2>1, CopyKept, OthersWrite DEF SubmissionRaises
<1>12. CASE Recovery
  <2>1. UNCHANGED <<mem, open, returned>> /\ pc' # "submitting"
    BY <1>12 DEF Recovery, RecoveryAborted, RecoveryStarts, AttemptSucceeds,
       AttemptFails, FailsClosed, End, Fresh, cycleVars
  <2>2. Unsaved \/ Write([disk EXCEPT !.estop = TRUE])
    BY <1>12 DEF Recovery, RecoveryAborted, RecoveryStarts, AttemptSucceeds,
       AttemptFails, FailsClosed
  <2> QED  BY <1>1, <2>1, <2>2, CopyKept, OthersWrite
<1>13. CASE MonitorStep
  <2>1. UNCHANGED <<pc, mem, open, returned>>
    BY <1>13 DEF MonitorStep, cycleVars
  <2>2. CASE MonitorWrites
    BY <2>1, <2>2, OthersWrite DEF MonitorWrites
  <2>3. CASE MonitorStops
    BY <2>1, <2>3, OthersWrite DEF MonitorStops
  <2>4. CASE MonitorDies
    BY <1>1, <2>1, <2>4, CopyKept DEF MonitorDies
  <2> QED  BY <1>13, <2>2, <2>3, <2>4 DEF MonitorStep
<1>14. CASE UNCHANGED vars
  BY <1>1, <1>14, CopyKept DEF vars, cycleVars, Unsaved
<1> QED
  BY <1>2, <1>3, <1>4, <1>5, <1>6, <1>7, <1>8, <1>9, <1>10, <1>11, <1>12,
     <1>13, <1>14

\* The broker: a trade may end.
LEMMA WorldLedger ==
    ASSUME IInv, CopyInv, WorldStep
    PROVE  /\ CopyInv' /\ disk' = disk
           /\ open' = open \/ \E n \in Bar : open' = open \ {n}
           /\ returned' = returned
<1>1. CopyInv' /\ disk' = disk
  BY CopyKept DEF WorldStep, cycleVars
<1>2. open' = open \/ \E n \in open : open' = open \ {n}
  BY DEF WorldStep, TradeFills, TradeEnds, DayEnds, CandleCloses
<1>3. returned' = returned
  BY DEF WorldStep, historyVars
<1> QED  BY <1>1, <1>2, <1>3 DEF IInv, SlotInv

\* A candle is marked, whether that is written or not: the books stay as they
\* are, and what a baseline goes before is returned.
LEMMA MarkLedger ==
    ASSUME IInv, SignalInv, CopyInv, Baseline \/ SkipNotReady \/ NoSignal
    PROVE  CopyInv' /\ (Idle \/ \E n \in Bar : Ledger!Return(n))
<1>1. PICK n \in store.bars, next \in {"idle", "candle"} :
        /\ Mark(n) /\ SaveThen(WithCandle(n), next)
        /\ returned' = returned \/ returned' = returned \cup PutBack(n)
  BY DEF Baseline, SkipNotReady, NoSignal, NextNew, NewCandles, World,
     historyVars
<1>2. pc' \in {"idle", "candle", "failing"} /\ UNCHANGED open /\ pc \in InCycle
  BY DEF Baseline, SkipNotReady, NoSignal, World, brokerVars, SaveThen, InCycle
<1>3. /\ StateOK(WithCandle(n)) /\ n \in Bar
      /\ WithCandle(n).estop = mem.estop
      /\ WithCandle(n).orders = mem.orders
      /\ WithCandle(n).signal = disk.signal
  BY <1>2 DEF IInv, Bounds, StoreType, States, StateOK, BlankState, WithCandle,
         SignalInv
<1>4. /\ CopyInv' /\ disk'.signal = disk.signal
      /\ disk'.orders = disk.orders /\ disk'.estop = disk.estop
  <2>1. CASE Save(WithCandle(n))
    BY <1>2, <1>3, <2>1, SavedSignal, CopySaved DEF CopyInv
  <2>2. CASE mem' = WithCandle(n) /\ Unsaved
    BY <1>2, <1>3, <2>2 DEF CopyInv, Unsaved
  <2> QED  BY <1>1, <2>1, <2>2 DEF SaveThen
<1>5. LastSignal' = LastSignal
  BY <1>4 DEF LastSignal
<1>6. CASE returned' = returned
  BY <1>2, <1>4, <1>5, <1>6 DEF Idle
<1>7. CASE returned' = returned \cup PutBack(n)
  <2>1. CASE n + 1 < LastSignal
    <3>1. Ledger!Return(n)
      BY <1>2, <1>4, <1>5, <1>7, <2>1 DEF Ledger!Return, PutBack
    <3> QED  BY <1>3, <1>4, <3>1
  <2>2. CASE ~(n + 1 < LastSignal)
    BY <1>2, <1>4, <1>5, <1>7, <2>2 DEF Idle, PutBack
  <2> QED  BY <2>1, <2>2
<1> QED  BY <1>1, <1>6, <1>7

\* A signal is dealt with: the copy is saved with its candle, and with its
\* order when it is submitted.
LEMMA HandledLedger ==
    ASSUME IInv, SignalInv, CopyInv,
           \/ AlertOnly \/ SignalBlocked \/ SubmissionReturns
           \/ Submit \/ StatusSaved
    PROVE  CopyInv' /\ [Ledger!Next]_(Ledger!vars)
<1>1. /\ pc \in Handling /\ Current \in Bar /\ Current \in Nat
      /\ Current # None /\ LastSignal \in Nat /\ UNCHANGED returned
      /\ pc \in Unrecorded => Ledger!Due(Current)
      /\ pc = "submitting" => LastSignal = Current
  <2>1. pc \in Handling /\ UNCHANGED returned
    BY DEF AlertOnly, SignalBlocked, SubmissionReturns, Submit, StatusSaved,
       SignalHandled, Handling, World, historyVars
  <2>2. /\ Current \in Bar /\ Current \in Nat /\ Current # None
        /\ LastSignal \in Nat
    BY <2>1, Numbers, MarkersAreNumbers DEF IInv, HandlingInv, Current, Bar
  <2>3. pc = "submitting" => LastSignal = Current
    BY <2>2 DEF SignalInv, Current, LastSignal, Marker
  <2>4. pc \in Unrecorded => Ledger!Due(Current)
    <3> SUFFICES ASSUME pc \in Unrecorded, Current \notin returned
                 PROVE  Current > LastSignal /\ Current \notin disk.orders
      BY DEF Ledger!Due, LastSignal
    <3>1. LastSignal < Current
      BY DEF SignalInv, Current
    <3> QED  BY <2>2, <3>1 DEF SignalInv, Past
  <2> QED  BY <2>1, <2>2, <2>3, <2>4
<1> DEFINE noted == [mem EXCEPT !.signal = Current]
<1>2. /\ StateOK(noted) /\ noted.signal = Current
      /\ noted.estop = mem.estop /\ noted.orders = mem.orders
      /\ noted.candle = Current
  BY <1>1 DEF IInv, States, StateOK, BlankState, Current
<1>3. /\ StateOK(Recorded) /\ Recorded.signal = Current
      /\ Recorded.estop = mem.estop
      /\ Recorded.orders = mem.orders \cup {Current}
      /\ Recorded.candle = Current
  BY <1>1 DEF IInv, States, StateOK, BlankState, Recorded, Current
<1> HIDE DEF noted
<1>4. ASSUME NEW s, StateOK(s), s.signal = Current, Save(s),
             s.estop = mem.estop, mem.orders \subseteq s.orders
      PROVE  /\ LastSignal' = Current
             /\ disk'.estop = disk.estop
             /\ disk'.orders = disk.orders \cup s.orders
             /\ mem' = s /\ clean' = clean /\ (clean => disk' = s)
  BY <1>1, <1>4, SavedSignal, CopySaved DEF LastSignal, Marker
<1>5. CASE AlertOnly \/ SignalBlocked \/ SubmissionReturns
  <2>1. SaveThen(noted, "candle") /\ UNCHANGED open
    BY <1>5 DEF AlertOnly, SignalBlocked, SubmissionReturns, SignalHandled,
       World, brokerVars, noted
  <2>2. CASE Save(noted)
    <3>1. CopyInv'
      BY <1>2, <1>4, <2>1, <2>2 DEF CopyInv, SaveThen
    <3>2. /\ LastSignal' = Current /\ disk'.estop = disk.estop
          /\ disk'.orders = disk.orders
      BY <1>2, <1>4, <2>2 DEF CopyInv
    <3>3. pc = "submitting" \/ pc \in Unrecorded
      BY <1>1 DEF Handling, Unrecorded
    <3>4. Ledger!Pass(Current) \/ UNCHANGED Ledger!vars
      BY <1>1, <2>1, <3>2, <3>3 DEF Ledger!Pass, Ledger!vars, LastSignal
    <3> QED  BY <1>1, <3>1, <3>4 DEF Ledger!Next
  <2>3. CASE mem' = noted /\ Unsaved /\ pc' = "failing"
    <3>1. CopyInv'
      BY <1>2, <2>3 DEF CopyInv, Unsaved
    <3>2. UNCHANGED Ledger!vars
      BY <1>1, <2>1, <2>3 DEF Ledger!vars, LastSignal, Unsaved
    <3> QED  BY <3>1, <3>2
  <2> QED  BY <2>1, <2>2, <2>3 DEF SaveThen
<1>6. CASE StatusSaved
  <2>1. Save(Recorded) /\ pc = "submitting" /\ UNCHANGED <<pc, open>>
    BY <1>6 DEF StatusSaved, World, brokerVars
  <2>2. CopyInv'
    BY <1>3, <1>4, <2>1 DEF CopyInv, Current
  <2>3. /\ LastSignal' = Current /\ disk'.estop = disk.estop
        /\ disk'.orders = disk.orders
    BY <1>3, <1>4, <2>1 DEF CopyInv
  <2>4. UNCHANGED Ledger!vars
    BY <1>1, <2>1, <2>3 DEF Ledger!vars, LastSignal
  <2> QED  BY <2>2, <2>4
<1>7. CASE Submit
  <2>1. /\ Save(Recorded) /\ pc = "product" /\ pc' = "submitting"
        /\ open' = open \cup {Current}
    BY <1>7 DEF Submit
  <2>2. open = {}
    BY <1>7 DEF Submit, IInv, SlotInv
  <2>3. CopyInv'
    BY <1>3, <1>4, <2>1 DEF CopyInv, Current
  <2>4. /\ LastSignal' = Current /\ disk'.estop = disk.estop
        /\ disk'.orders = disk.orders \cup {Current}
    BY <1>3, <1>4, <2>1 DEF CopyInv
  <2>5. Ledger!Due(Current)
    BY <1>1, <2>1 DEF Unrecorded
  <2>6. Ledger!Trade(Current)
    BY <1>1, <2>1, <2>2, <2>4, <2>5 DEF Ledger!Trade, LastSignal
  <2> QED  BY <1>1, <2>3, <2>6 DEF Ledger!Next
<1> QED  BY <1>5, <1>6, <1>7

LEMMA LedgerStep ==
    ASSUME IInv, SignalInv, CopyInv, [Next]_vars
    PROVE  CopyInv' /\ [Ledger!Next]_(Ledger!vars)
<1>1. Idle => UNCHANGED Ledger!vars
  BY DEF Idle, Ledger!vars, LastSignal
<1>2. Halted => Ledger!Next
  BY DEF Halted, Ledger!Next, Ledger!Stop, LastSignal, IInv, States, StateOK
<1>3. CASE AlertOnly \/ SignalBlocked \/ SubmissionReturns \/ Submit
           \/ StatusSaved
  BY <1>3, HandledLedger
<1>4. CASE Baseline \/ SkipNotReady \/ NoSignal
  BY <1>1, <1>4, MarkLedger DEF Ledger!Next
<1>5. CASE WorldStep
  <2>1. open' = open => UNCHANGED Ledger!vars
    BY <1>5, WorldLedger DEF Ledger!vars, LastSignal
  <2>2. \A n \in Bar : open' = open \ {n} => Ledger!Next
    BY <1>5, WorldLedger DEF Ledger!Next, Ledger!Close, LastSignal
  <2> QED  BY <1>5, <2>1, <2>2, WorldLedger
<1>6. ASSUME \/ Start \/ Crash \/ StartCycle \/ RequestFails \/ Fetched
             \/ Repaired \/ GapBlocks \/ TakeCandles \/ WarnNotReady
             \/ SignalFound \/ CandlesDone \/ StopRefuses \/ StopAllows
             \/ SnapshotRead \/ SubmissionRaises \/ Recovery \/ MonitorStep
             \/ UNCHANGED vars
      PROVE  CopyInv' /\ [Ledger!Next]_(Ledger!vars)
  BY <1>1, <1>2, <1>6, QuietLedger
<1> QED  BY <1>3, <1>4, <1>5, <1>6 DEF Next, Cycle

LEMMA LedgerStart == Init => CopyInv /\ Ledger!Init
  BY DEF Init, CopyInv, BlankState, Ledger!Init, LastSignal, Marker

\* However cycles fail, copies age, processes die and start again, the main
\* loop behaves as the ledger: signals in order and at most once, one trade at
\* a time, known to the file at once and for good, and no way back from a stop.
THEOREM Implements == Spec => ImplementsTradeLedger
<1>1. Init => SignalInv /\ CopyInv /\ Ledger!Init
  BY InitSignals, LedgerStart
<1>2. IInv /\ SignalInv /\ CopyInv /\ [Next]_vars
        => SignalInv' /\ CopyInv' /\ [Ledger!Next]_(Ledger!vars)
  BY SignalStep, LedgerStep
<1> QED
  BY <1>1, <1>2, Invariance, PTL DEF Spec, ImplementsTradeLedger, Ledger!Spec
=============================================================================
