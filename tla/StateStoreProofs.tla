-------------------------- MODULE StateStoreProofs --------------------------
(***************************************************************************)
(* Proofs about the state store, for any holders, callers' values and      *)
(* bound on the clock: its types, that the critical fields of the file are *)
(* never lost, and that it implements FreshStore.                          *)
(***************************************************************************)
EXTENDS StateStore, TLAPS

\* The empty active_trade is a dictionary.
LEMMA NoTradeIsDict == NoTrade \in Dict
<1>1. NoTrade \in [{} -> Val]  BY DEF NoTrade
<1>2. {} \in SUBSET Key  OBVIOUS
<1> QED  BY <1>1, <1>2 DEF Dict

\* {**current, **incoming} of two dictionaries is a dictionary.
LEMMA OverlayIsDict ==
    ASSUME NEW c \in Dict, NEW i \in Dict
    PROVE  Overlay(c, i) \in Dict
<1>1. PICK K \in SUBSET Key : c \in [K -> Val]  BY DEF Dict
<1>2. PICK L \in SUBSET Key : i \in [L -> Val]  BY DEF Dict
<1>3. Overlay(c, i) \in [K \cup L -> Val]  BY <1>1, <1>2 DEF Overlay
<1>4. K \cup L \in SUBSET Key  OBVIOUS
<1> QED  BY <1>3, <1>4 DEF Dict

\* Merging two states yields a state.
LEMMA MergeIsState ==
    ASSUME NEW c \in State, NEW i \in State
    PROVE  MergeConcurrentState(c, i) \in State
<1>1. c.trade \in Dict /\ i.trade \in Dict  BY DEF State
<1>2. Overlay(c.trade, i.trade) \in Dict  BY <1>1, OverlayIsDict
<1>3. MergeActiveTrade(c.trade, i.trade) \in Dict
  BY <1>1, <1>2 DEF MergeActiveTrade
<1> QED  BY <1>3 DEF MergeConcurrentState, State, Either

\* A merge keeps every critical field of the state on disk.
LEMMA MergeKeeps ==
    ASSUME NEW c \in State, NEW i \in State
    PROVE  KeepsCritical(c, MergeConcurrentState(c, i))
<1>1. c.estop \in BOOLEAN /\ i.estop \in BOOLEAN  BY DEF State
<1> QED  BY <1>1 DEF MergeConcurrentState, KeepsCritical, Either

\* A state keeps its own critical fields.
LEMMA KeepsSelf == ASSUME NEW s \in State PROVE KeepsCritical(s, s)
  BY DEF KeepsCritical

\* BlankState is a state, and there is nothing in it to keep.
LEMMA BlankIsState == BlankState \in State
  BY NoTradeIsDict DEF BlankState, State

LEMMA AnythingKeepsBlank == ASSUME NEW s PROVE KeepsCritical(BlankState, s)
  BY DEF KeepsCritical, BlankState

----------------------------------------------------------------------------
\* The inductive invariant: types, stamps older than the clock, and fresh
\* copies that have all critical fields of the file.  The stamps are needed
\* because a new stamp must differ from that of every stale copy.
IInv == TypeOK /\ StampsAreOld /\ UnchangedCopyIsCurrent /\ NoFileIsBlank

USE CallersWriteDicts, NoneIsNoValue, ClockIsBounded

LEMMA InitHolds == Init => IInv
<1> SUFFICES ASSUME Init PROVE IInv  OBVIOUS
<1>1. TypeOK  BY BlankIsState DEF Init, TypeOK
<1>2. StampsAreOld  BY DEF Init, StampsAreOld
<1>3. UnchangedCopyIsCurrent  BY DEF Init, UnchangedCopyIsCurrent
<1>4. NoFileIsBlank  BY DEF Init, NoFileIsBlank
<1> QED  BY <1>1, <1>2, <1>3, <1>4 DEF IInv

\* What save() would write keeps every critical field of the file.
LEMMA SavedKeeps ==
    ASSUME IInv, NEW h \in held
    PROVE  /\ Saved(disk, mem[h], Unchanged(h)) \in State
           /\ KeepsCritical(disk, Saved(disk, mem[h], Unchanged(h)))
<1>1. disk \in State /\ mem[h] \in State  BY DEF IInv, TypeOK
<1>2. CASE ~Unchanged(h)
  BY <1>1, <1>2, MergeIsState, MergeKeeps DEF Saved
<1>3. CASE Unchanged(h)
  <2>1. FileExists
    BY <1>3 DEF IInv, TypeOK, StampsAreOld, Unchanged, FileExists
  <2>2. KeepsCritical(disk, mem[h])
    BY <2>1, <1>3 DEF IInv, UnchangedCopyIsCurrent
  <2> QED  BY <1>1, <1>3, <2>2 DEF Saved
<1> QED  BY <1>2, <1>3

\* A transaction that writes a state keeping the critical fields preserves the
\* invariant: every copy is now stale.
LEMMA TransactionStep ==
    ASSUME IInv, NEW new \in State, KeepsCritical(disk, new),
           Transaction(new), UNCHANGED <<held, mem, stamp, tradeEdited>>
    PROVE  IInv'
<1>1. TypeOK'  BY DEF IInv, TypeOK, Transaction, Tick
<1>2. StampsAreOld'
  BY DEF IInv, TypeOK, StampsAreOld, Transaction, Tick
<1>3. \A h \in held' : ~Unchanged(h)'
  BY DEF IInv, TypeOK, StampsAreOld, Transaction, Tick, Unchanged
<1>4. UnchangedCopyIsCurrent'  BY <1>3 DEF UnchangedCopyIsCurrent
<1>5. NoFileIsBlank'
  BY DEF IInv, TypeOK, NoFileIsBlank, FileExists, Transaction, Tick
<1> QED  BY <1>1, <1>2, <1>4, <1>5 DEF IInv

\* An edit that keeps the critical fields of the copy preserves the invariant.
LEMMA EditStep ==
    ASSUME IInv, NEW h \in Holder, NEW new \in State,
           KeepsCritical(mem[h], new), EditCopy(h, new),
           tradeEdited' \subseteq held
    PROVE  IInv'
<1>1. TypeOK'  BY DEF IInv, TypeOK, EditCopy
<1>2. StampsAreOld'  BY DEF IInv, StampsAreOld, EditCopy
<1>3. UnchangedCopyIsCurrent'
  <2> SUFFICES ASSUME NEW k \in held', FileExists', Unchanged(k)'
               PROVE  KeepsCritical(disk', mem'[k])
    BY DEF UnchangedCopyIsCurrent, KeepsCritical
  <2>1. k \in held /\ FileExists /\ Unchanged(k)
    BY DEF EditCopy, FileExists, Unchanged
  <2>2. KeepsCritical(disk, mem[k])
    BY <2>1 DEF IInv, UnchangedCopyIsCurrent
  <2>3. CASE k = h
    <3>1. mem'[k] = new  BY <2>3 DEF IInv, TypeOK, EditCopy
    <3> QED  BY <2>2, <2>3, <3>1 DEF KeepsCritical, EditCopy
  <2>4. CASE k # h
    <3>1. mem'[k] = mem[k]
      BY <2>1, <2>4 DEF IInv, TypeOK, EditCopy
    <3> QED  BY <2>2, <3>1 DEF EditCopy
  <2> QED  BY <2>3, <2>4
<1>4. NoFileIsBlank'  BY DEF IInv, NoFileIsBlank, FileExists, EditCopy
<1> QED  BY <1>1, <1>2, <1>3, <1>4 DEF IInv

\* load() preserves the invariant.
LEMMA LoadStep ==
    ASSUME IInv, NEW h \in Holder, Load(h)
    PROVE  IInv'
<1>1. TypeOK'  BY DEF IInv, TypeOK, Load, Tick
<1>2. StampsAreOld'
  BY DEF IInv, TypeOK, StampsAreOld, Load, Tick, FileExists
<1>3. UnchangedCopyIsCurrent'
  <2> SUFFICES ASSUME NEW k \in held', FileExists', Unchanged(k)'
               PROVE  KeepsCritical(disk', mem'[k])
    BY DEF UnchangedCopyIsCurrent, KeepsCritical
  <2>1. CASE k = h
    <3>1. mem'[k] = disk  BY <2>1 DEF IInv, TypeOK, Load
    <3> QED  BY <3>1, KeepsSelf DEF IInv, TypeOK, Load
  <2>2. CASE k # h
    <3>1. k \in held /\ mem'[k] = mem[k] /\ FileExists /\ Unchanged(k)
      BY <2>2 DEF IInv, TypeOK, Load, FileExists, Unchanged
    <3> QED  BY <3>1 DEF IInv, UnchangedCopyIsCurrent, Load
  <2> QED  BY <2>1, <2>2
<1>4. NoFileIsBlank'  BY DEF IInv, NoFileIsBlank, FileExists, Load
<1> QED  BY <1>1, <1>2, <1>3, <1>4 DEF IInv

\* save() preserves the invariant.
LEMMA SaveStep ==
    ASSUME IInv, NEW h \in Holder, Save(h)
    PROVE  IInv'
<1>0. h \in held  BY DEF Save
<1> DEFINE new == Saved(disk, mem[h], Unchanged(h))
<1>n. new \in State /\ KeepsCritical(disk, new)  BY <1>0, SavedKeeps
<1>1. TypeOK'  BY <1>n DEF IInv, TypeOK, Save, Tick
<1>2. StampsAreOld'
  BY DEF IInv, TypeOK, StampsAreOld, Save, Tick
<1>3. UnchangedCopyIsCurrent'
  <2> SUFFICES ASSUME NEW k \in held', FileExists', Unchanged(k)'
               PROVE  KeepsCritical(disk', mem'[k])
    BY DEF UnchangedCopyIsCurrent, KeepsCritical
  <2>1. k = h /\ Unchanged(h)
    BY DEF IInv, TypeOK, StampsAreOld, Save, Tick, Unchanged
  <2>2. disk' = mem[h] /\ mem'[k] = mem[h]
    BY <2>1 DEF Save, Saved
  <2> QED  BY <2>2, KeepsSelf DEF IInv, TypeOK
<1>4. NoFileIsBlank'
  BY DEF IInv, TypeOK, NoFileIsBlank, FileExists, Save, Tick
<1> QED  BY <1>1, <1>2, <1>3, <1>4 DEF IInv

\* A failed save() preserves the invariant.
LEMMA SaveFailsStep ==
    ASSUME IInv, NEW h \in Holder, SaveFails(h)
    PROVE  IInv'
<1>1. TypeOK'  BY DEF IInv, TypeOK, SaveFails, Tick
<1>2. StampsAreOld'
  BY DEF IInv, TypeOK, StampsAreOld, SaveFails, Tick
<1>3. UnchangedCopyIsCurrent'
  <2> SUFFICES ASSUME NEW k \in held', FileExists', Unchanged(k)'
               PROVE  KeepsCritical(disk', mem'[k])
    BY DEF UnchangedCopyIsCurrent, KeepsCritical
  <2>1. k \in held /\ FileExists /\ Unchanged(k)
    BY DEF IInv, TypeOK, StampsAreOld, SaveFails, Tick, Unchanged, FileExists
  <2> QED  BY <2>1 DEF IInv, UnchangedCopyIsCurrent, SaveFails
<1>4. NoFileIsBlank'
  BY DEF IInv, NoFileIsBlank, FileExists, SaveFails
<1> QED  BY <1>1, <1>2, <1>3, <1>4 DEF IInv

\* The monitor's write and the copy it goes on with preserve the invariant.
LEMMA RecordStep ==
    ASSUME IInv, NEW h \in Holder, NEW d \in TradeDict, RecordInTrade(h, d)
    PROVE  IInv' /\ KeepsCritical(disk, disk')
<1> DEFINE new == [disk EXCEPT !.trade = Overlay(disk.trade, d)]
<1>n. new \in State /\ KeepsCritical(disk, new)
  BY OverlayIsDict DEF IInv, TypeOK, State, KeepsCritical
<1>d. disk' = new  BY DEF RecordInTrade, Transaction
<1>1. TypeOK'
  BY <1>n, <1>d DEF IInv, TypeOK, RecordInTrade, Transaction, Tick
<1>2. StampsAreOld'
  BY DEF IInv, TypeOK, StampsAreOld, RecordInTrade, Transaction, Tick
<1>3. UnchangedCopyIsCurrent'
  <2> SUFFICES ASSUME NEW k \in held', FileExists', Unchanged(k)'
               PROVE  KeepsCritical(disk', mem'[k])
    BY DEF UnchangedCopyIsCurrent, KeepsCritical
  <2>1. k = h
    BY DEF IInv, TypeOK, StampsAreOld, RecordInTrade, Transaction, Tick,
           Unchanged
  <2>2. mem'[k] = disk'  BY <2>1 DEF IInv, TypeOK, RecordInTrade
  <2> QED  BY <2>2, <1>n, <1>d, KeepsSelf
<1>4. NoFileIsBlank'
  BY DEF IInv, TypeOK, NoFileIsBlank, FileExists, RecordInTrade,
         Transaction, Tick
<1> QED  BY <1>1, <1>2, <1>3, <1>4, <1>n, <1>d DEF IInv

\* A crash preserves the invariant: no copy is left.
LEMMA CrashStep == ASSUME IInv, Crash PROVE IInv'
<1>1. TypeOK'  BY BlankIsState DEF IInv, TypeOK, Crash
<1>2. StampsAreOld'  BY DEF IInv, TypeOK, StampsAreOld, Crash
<1>3. UnchangedCopyIsCurrent'  BY DEF UnchangedCopyIsCurrent, Crash
<1>4. NoFileIsBlank'  BY DEF IInv, NoFileIsBlank, FileExists, Crash
<1> QED  BY <1>1, <1>2, <1>3, <1>4 DEF IInv

\* Every step preserves the invariant and the critical fields of the file.
LEMMA NextHolds ==
    ASSUME IInv, [Next]_vars
    PROVE  IInv' /\ KeepsCritical(disk, disk')
<1>t. disk \in State /\ \A h \in Holder : mem[h] \in State
  BY DEF IInv, TypeOK
<1>s. disk' = disk => KeepsCritical(disk, disk')  BY <1>t, KeepsSelf
<1>1. ASSUME NEW h \in Holder, Load(h) PROVE IInv' /\ KeepsCritical(disk, disk')
  BY <1>1, <1>s, LoadStep DEF Load
<1>2. ASSUME NEW h \in Holder, Save(h) PROVE IInv' /\ KeepsCritical(disk, disk')
  BY <1>2, SaveStep, SavedKeeps DEF Save
<1>3. ASSUME NEW h \in Holder, SaveFails(h)
      PROVE  IInv' /\ KeepsCritical(disk, disk')
  BY <1>3, <1>s, SaveFailsStep DEF SaveFails
<1>4. ASSUME NEW d \in TradeDict, ActivateStop(d)
      PROVE  IInv' /\ KeepsCritical(disk, disk')
  <2> DEFINE new == [disk EXCEPT !.estop = TRUE,
                                 !.trade = Overlay(disk.trade, d)]
  <2>1. new \in State /\ KeepsCritical(disk, new)
    BY <1>t, OverlayIsDict DEF State, KeepsCritical
  <2> QED  BY <1>4, <2>1, TransactionStep DEF ActivateStop, Transaction
<1>5. ASSUME ClearTrade PROVE IInv' /\ KeepsCritical(disk, disk')
  <2> DEFINE new == [disk EXCEPT !.trade = NoTrade]
  <2>1. new \in State /\ KeepsCritical(disk, new)
    BY <1>t, NoTradeIsDict DEF State, KeepsCritical
  <2> QED  BY <1>5, <2>1, TransactionStep DEF ClearTrade, Transaction
<1>6. ASSUME NEW h \in Holder, NEW d \in TradeDict, RecordInTrade(h, d)
      PROVE  IInv' /\ KeepsCritical(disk, disk')
  BY <1>6, RecordStep
<1>e. ASSUME NEW h \in Holder, NEW new \in State, KeepsCritical(mem[h], new),
             EditCopy(h, new), tradeEdited' \subseteq held
      PROVE  IInv' /\ KeepsCritical(disk, disk')
  BY <1>e, <1>s, EditStep DEF EditCopy
<1>7. ASSUME NEW h \in Holder, NEW d \in TradeDict, ReplaceTrade(h, d)
      PROVE  IInv' /\ KeepsCritical(disk, disk')
  <2> DEFINE new == [mem[h] EXCEPT !.trade = d]
  <2>1. new \in State /\ KeepsCritical(mem[h], new)
    BY <1>t DEF State, KeepsCritical
  <2>2. tradeEdited' \subseteq held
    BY <1>7 DEF ReplaceTrade, EditCopy, IInv, TypeOK
  <2> QED  BY <1>7, <1>e, <2>1, <2>2 DEF ReplaceTrade
<1>8. ASSUME NEW h \in Holder, NEW d \in TradeDict, ExtendTrade(h, d)
      PROVE  IInv' /\ KeepsCritical(disk, disk')
  <2> DEFINE new == [mem[h] EXCEPT !.trade = Overlay(@, d)]
  <2>0. Overlay(mem[h].trade, d) \in Dict
    BY <1>t, OverlayIsDict DEF State
  <2>1. new \in State /\ KeepsCritical(mem[h], new)
    BY <1>t, <2>0 DEF State, KeepsCritical
  <2>2. tradeEdited' \subseteq held
    BY <1>8 DEF ExtendTrade, EditCopy, IInv, TypeOK
  <2> QED  BY <1>8, <1>e, <2>1, <2>2 DEF ExtendTrade
<1>9. ASSUME NEW h \in Holder, NEW d \in TradeDict, StopInMemory(h, d)
      PROVE  IInv' /\ KeepsCritical(disk, disk')
  <2> DEFINE new == [mem[h] EXCEPT !.estop = TRUE, !.trade = Overlay(@, d)]
  <2>0. Overlay(mem[h].trade, d) \in Dict
    BY <1>t, OverlayIsDict DEF State
  <2>1. new \in State /\ KeepsCritical(mem[h], new)
    BY <1>t, <2>0 DEF State, KeepsCritical
  <2>2. tradeEdited' \subseteq held
    BY <1>9 DEF StopInMemory, EditCopy, IInv, TypeOK
  <2> QED  BY <1>9, <1>e, <2>1, <2>2 DEF StopInMemory
<1>10. ASSUME NEW h \in Holder, NEW c \in Candle, MarkProcessed(h, c)
       PROVE  IInv' /\ KeepsCritical(disk, disk')
  <2> DEFINE new == [mem[h] EXCEPT !.candle = c]
  <2>1. new \in State /\ KeepsCritical(mem[h], new)
    BY <1>t DEF State, KeepsCritical
  <2>2. tradeEdited' \subseteq held
    BY <1>10 DEF MarkProcessed, IInv, TypeOK
  <2> QED  BY <1>10, <1>e, <2>1, <2>2 DEF MarkProcessed
<1>11. ASSUME NEW h \in Holder, NEW g \in Signal, RecordSignal(h, g)
       PROVE  IInv' /\ KeepsCritical(disk, disk')
  <2> DEFINE new == [mem[h] EXCEPT !.signal = g]
  <2>1. new \in State /\ KeepsCritical(mem[h], new)
    BY <1>t DEF State, KeepsCritical
  <2>2. tradeEdited' \subseteq held
    BY <1>11 DEF RecordSignal, IInv, TypeOK
  <2> QED  BY <1>11, <1>e, <2>1, <2>2 DEF RecordSignal
<1>12. ASSUME NEW h \in Holder, NEW o \in OrderId, AddOrder(h, o)
       PROVE  IInv' /\ KeepsCritical(disk, disk')
  <2> DEFINE new == [mem[h] EXCEPT !.orders = @ \cup {o}]
  <2>1. new \in State /\ KeepsCritical(mem[h], new)
    BY <1>t DEF State, KeepsCritical
  <2>2. tradeEdited' \subseteq held
    BY <1>12 DEF AddOrder, IInv, TypeOK
  <2> QED  BY <1>12, <1>e, <2>1, <2>2 DEF AddOrder
<1>13. ASSUME Crash PROVE IInv' /\ KeepsCritical(disk, disk')
  BY <1>13, <1>s, CrashStep DEF Crash
<1>14. ASSUME UNCHANGED vars PROVE IInv' /\ KeepsCritical(disk, disk')
  <2>1. disk' = disk  BY <1>14 DEF vars
  <2>2. IInv'
    BY <1>14 DEF vars, IInv, TypeOK, StampsAreOld, UnchangedCopyIsCurrent,
                 NoFileIsBlank, FileExists, Unchanged, KeepsCritical
  <2> QED  BY <2>1, <2>2, <1>s
<1> QED
  BY <1>1, <1>2, <1>3, <1>4, <1>5, <1>6, <1>7, <1>8, <1>9, <1>10, <1>11,
     <1>12, <1>13, <1>14 DEF Next

\* Types, for every set of holders and values.
THEOREM TypeCorrect == Spec => []TypeOK
<1>1. IInv => TypeOK  BY DEF IInv
<1>2. IInv /\ [Next]_vars => IInv'  BY NextHolds
<1> QED  BY InitHolds, <1>1, <1>2, PTL DEF Spec

\* A copy that save() would write as it is has the emergency stop, the known
\* orders and the markers of the file.
THEOREM CopiesCurrent == Spec => []UnchangedCopyIsCurrent
<1>1. IInv => UnchangedCopyIsCurrent  BY DEF IInv
<1>2. IInv /\ [Next]_vars => IInv'  BY NextHolds
<1> QED  BY InitHolds, <1>1, <1>2, PTL DEF Spec

\* An emergency stop, a known order or a processed marker on disk survives
\* every save of every stale copy, every transaction and every crash.
THEOREM CriticalKept == Spec => CriticalFieldsKept
<1>1. IInv /\ [Next]_vars => IInv'  BY NextHolds
<1>2. IInv /\ [Next]_vars => [KeepsCritical(disk, disk')]_vars
  BY NextHolds
<1> QED  BY InitHolds, <1>1, <1>2, PTL DEF Spec, CriticalFieldsKept

----------------------------------------------------------------------------
(* StateStore implements FreshStore.                                       *)

\* The instance has operators of BotState of its own; they are the same.
LEMMA SameOperators ==
    /\ Abstract!NoTrade = NoTrade
    /\ Abstract!BlankState = BlankState
    /\ \A c, i : Abstract!Overlay(c, i) = Overlay(c, i)
    /\ \A c, i, u : Abstract!Saved(c, i, u) = Saved(c, i, u)
  BY DEF NoTrade, BlankState, Overlay, Saved, MergeConcurrentState,
         MergeActiveTrade, SameActiveTrade, HasKey, IdentityKeys, Either,
         Abstract!NoTrade, Abstract!BlankState, Abstract!Overlay,
         Abstract!Saved, Abstract!MergeConcurrentState,
         Abstract!MergeActiveTrade, Abstract!SameActiveTrade,
         Abstract!HasKey, Abstract!IdentityKeys, Abstract!Either

\* A reading of the clock is new: a stamp given now differs from every stamp
\* given before, so a write leaves no other copy fresh.
LEMMA WriteMakesStale ==
    ASSUME IInv, Tick, diskStamp' = clock'
    PROVE  /\ FileExists'
           /\ \A k \in Holder : stamp[k] # diskStamp'
  BY DEF IInv, TypeOK, StampsAreOld, Tick, FileExists

\* Each action of StateStore is the action of FreshStore of the same purpose.
LEMMA LoadMaps ==
    ASSUME IInv, NEW h \in Holder, Load(h) PROVE Abstract!Load(h)
<1>1. CASE FileExists
  <2>1. Fresh' = Fresh \cup {h}
    BY <1>1 DEF IInv, TypeOK, Load, Fresh, FileExists, Unchanged
  <2> QED  BY <1>1, <2>1 DEF Load, Abstract!Load, FileExists
<1>2. CASE ~FileExists
  <2>1. Fresh' = {}  BY <1>2 DEF Load, Fresh, FileExists
  <2> QED  BY <1>2, <2>1 DEF Load, Abstract!Load, FileExists
<1> QED  BY <1>1, <1>2

LEMMA SaveMaps ==
    ASSUME IInv, NEW h \in Holder, Save(h) PROVE Abstract!Save(h)
<1>1. h \in held /\ Tick /\ diskStamp' = clock'  BY DEF Save
<1>2. h \in Fresh <=> Unchanged(h)
  BY <1>1 DEF IInv, TypeOK, StampsAreOld, Fresh, FileExists, Unchanged
<1>3. FileExists' /\ \A k \in Holder : stamp[k] # diskStamp'
  BY <1>1, WriteMakesStale
<1>4. held \subseteq Holder /\ stamp \in [Holder -> Nat]
  BY DEF IInv, TypeOK
<1>5. disk' = Saved(disk, mem[h], h \in Fresh)
  <2>1. CASE Unchanged(h)  BY <1>2, <2>1 DEF Save, Saved
  <2>2. CASE ~Unchanged(h)  BY <1>2, <2>2 DEF Save, Saved
  <2> QED  BY <2>1, <2>2
<1>6. Fresh' = Fresh \cap {h}
  <2>1. CASE Unchanged(h)
    <3>1. stamp' = [stamp EXCEPT ![h] = clock'] /\ held' = held
      BY <2>1 DEF Save
    <3>2. \A k \in held : stamp'[k] = diskStamp' <=> k = h
      BY <3>1, <1>1, <1>3, <1>4
    <3> QED  BY <3>1, <3>2, <1>1, <1>2, <1>3, <2>1 DEF Fresh, Unchanged
  <2>2. CASE ~Unchanged(h)
    <3>1. stamp' = stamp /\ held' = held  BY <2>2 DEF Save
    <3> QED  BY <3>1, <1>2, <1>3, <1>4, <2>2 DEF Fresh, Unchanged
  <2> QED  BY <2>1, <2>2
<1>7. FileExists' = TRUE  BY <1>3 DEF FileExists
<1> QED  BY <1>1, <1>5, <1>6, <1>7, SameOperators DEF Save, Abstract!Save

LEMMA SaveFailsMaps ==
    ASSUME IInv, NEW h \in Holder, SaveFails(h) PROVE Abstract!SaveFails(h)
<1>1. Fresh' = Fresh \ {h}
  BY DEF IInv, TypeOK, StampsAreOld, SaveFails, Tick, Fresh, FileExists,
         Unchanged
<1> QED  BY <1>1 DEF SaveFails, Abstract!SaveFails, FileExists

LEMMA TransactionMaps ==
    ASSUME IInv, NEW new, Transaction(new),
           UNCHANGED <<held, mem, stamp, tradeEdited>>
    PROVE  Abstract!Update(new)
<1>1. FileExists' /\ \A k \in Holder : stamp[k] # diskStamp'
  BY WriteMakesStale DEF Transaction
<1>2. Fresh' = {}
  BY <1>1 DEF IInv, TypeOK, Fresh, Unchanged
<1>3. FileExists' = TRUE  BY <1>1 DEF FileExists
<1> QED  BY <1>2, <1>3 DEF Transaction, Abstract!Update

LEMMA RecordMaps ==
    ASSUME IInv, NEW h \in Holder, NEW d, RecordInTrade(h, d)
    PROVE  Abstract!UpdateAndHold(h,
               [disk EXCEPT !.trade = Overlay(disk.trade, d)])
<1>1. FileExists' /\ \A k \in Holder : stamp[k] # diskStamp'
  BY WriteMakesStale DEF RecordInTrade, Transaction
<1>2. /\ held' = held \cup {h}
      /\ stamp' = [stamp EXCEPT ![h] = clock']
      /\ diskStamp' = clock'
  BY DEF RecordInTrade, Transaction
<1>3. held \subseteq Holder /\ stamp \in [Holder -> Nat]
  BY DEF IInv, TypeOK
<1>4. \A k \in held' : stamp'[k] = diskStamp' <=> k = h
  BY <1>1, <1>2, <1>3
<1>5. Fresh' = {h}  BY <1>1, <1>2, <1>4 DEF Fresh, Unchanged
<1>6. FileExists' = TRUE  BY <1>1 DEF FileExists
<1> QED
  BY <1>5, <1>6 DEF RecordInTrade, Transaction, Abstract!UpdateAndHold

LEMMA EditMaps ==
    ASSUME IInv, NEW h \in Holder, NEW new, EditCopy(h, new)
    PROVE  Abstract!Edit(h, new)
<1>1. Fresh' = Fresh  BY DEF EditCopy, Fresh, FileExists, Unchanged
<1> QED  BY <1>1 DEF EditCopy, Abstract!Edit, FileExists

LEMMA CrashMaps == ASSUME IInv, Crash PROVE Abstract!Crash
<1>1. Fresh' = {}  BY DEF Crash, Fresh
<1> QED  BY <1>1, SameOperators DEF Crash, Abstract!Crash, FileExists

LEMMA StepMaps ==
    ASSUME IInv, [Next]_vars
    PROVE  Abstract!Next \/ UNCHANGED <<disk, FileExists, held, mem, Fresh>>
<1>1. ASSUME NEW h \in Holder, Load(h) PROVE Abstract!Next
  BY <1>1, LoadMaps DEF Abstract!Next
<1>2. ASSUME NEW h \in Holder, Save(h) PROVE Abstract!Next
  BY <1>2, SaveMaps DEF Abstract!Next
<1>3. ASSUME NEW h \in Holder, SaveFails(h) PROVE Abstract!Next
  BY <1>3, SaveFailsMaps DEF Abstract!Next
<1>4. ASSUME NEW d \in TradeDict, ActivateStop(d) PROVE Abstract!Next
  BY <1>4, TransactionMaps, SameOperators DEF ActivateStop, Abstract!Next
<1>5. ASSUME ClearTrade PROVE Abstract!Next
  BY <1>5, TransactionMaps, SameOperators DEF ClearTrade, Abstract!Next
<1>6. ASSUME NEW h \in Holder, NEW d \in TradeDict, RecordInTrade(h, d)
      PROVE  Abstract!Next
  BY <1>6, RecordMaps, SameOperators DEF Abstract!Next
<1>e. ASSUME NEW h \in Holder, NEW new \in Abstract!Edits(mem[h]),
             EditCopy(h, new)
      PROVE  Abstract!Next
  BY <1>e, EditMaps DEF Abstract!Next
<1>7. ASSUME NEW h \in Holder, NEW d \in TradeDict, ReplaceTrade(h, d)
      PROVE  Abstract!Next
  BY <1>7, <1>e DEF ReplaceTrade, Abstract!Edits
<1>8. ASSUME NEW h \in Holder, NEW d \in TradeDict, ExtendTrade(h, d)
      PROVE  Abstract!Next
  BY <1>8, <1>e, SameOperators DEF ExtendTrade, Abstract!Edits
<1>9. ASSUME NEW h \in Holder, NEW d \in TradeDict, StopInMemory(h, d)
      PROVE  Abstract!Next
  BY <1>9, <1>e, SameOperators DEF StopInMemory, Abstract!Edits
<1>10. ASSUME NEW h \in Holder, NEW c \in Candle, MarkProcessed(h, c)
       PROVE  Abstract!Next
  BY <1>10, <1>e DEF MarkProcessed, Abstract!Edits
<1>11. ASSUME NEW h \in Holder, NEW g \in Signal, RecordSignal(h, g)
       PROVE  Abstract!Next
  BY <1>11, <1>e DEF RecordSignal, Abstract!Edits
<1>12. ASSUME NEW h \in Holder, NEW o \in OrderId, AddOrder(h, o)
       PROVE  Abstract!Next
  BY <1>12, <1>e DEF AddOrder, Abstract!Edits
<1>13. ASSUME Crash PROVE Abstract!Next
  BY <1>13, CrashMaps DEF Abstract!Next
<1>14. ASSUME UNCHANGED vars
       PROVE  UNCHANGED <<disk, FileExists, held, mem, Fresh>>
  BY <1>14 DEF vars, FileExists, Fresh, Unchanged
<1> QED
  BY <1>1, <1>2, <1>3, <1>4, <1>5, <1>6, <1>7, <1>8, <1>9, <1>10, <1>11,
     <1>12, <1>13, <1>14 DEF Next

LEMMA InitMaps == Init => Abstract!Init
<1> SUFFICES ASSUME Init PROVE Abstract!Init  OBVIOUS
<1>1. Fresh = {} /\ FileExists = FALSE  BY DEF Init, Fresh, FileExists
<1> QED  BY <1>1, SameOperators DEF Init, Abstract!Init

\* The time-stamped store behaves as a store that knows which copies are
\* up to date: no stale copy is ever written unmerged, no fresh one merged.
THEOREM Implements == Spec => ImplementsFreshStore
<1>1. IInv /\ [Next]_vars => IInv'  BY NextHolds
<1>2. IInv /\ [Next]_vars => [Abstract!Next]_(Abstract!vars)
  BY StepMaps DEF Abstract!vars
<1> QED
  BY InitHolds, InitMaps, <1>1, <1>2, PTL
     DEF Spec, ImplementsFreshStore, Abstract!Spec
=============================================================================
