---------------------------- MODULE SignalsProofs ----------------------------
(***************************************************************************)
(* A process that follows the bias loses no crossing and signals none       *)
(* twice, for every set of agents, threshold and history of candles that    *)
(* come late, are revised or are handled in vain.                            *)
(***************************************************************************)
EXTENDS Signals, FiniteSetTheorems, TLAPS

----------------------------------------------------------------------------
(* Rows and sides.                                                          *)

\* The row of a candle is a number that grows with the candle and with the
\* candles held.
LEMMA RowGrows ==
    ASSUME rows \subseteq Bar, NEW m \in Bar, NEW n \in Bar, m <= n
    PROVE  /\ Row(m) \in Nat /\ Row(n) \in Nat
           /\ Row(m) <= Row(n)
<1> DEFINE Upto(k) == {j \in rows : j <= k}
<1>1. IsFiniteSet(rows)
  <2>1. IsFiniteSet(Bar)
    BY FS_Interval, SignalsAssumption DEF Bar
  <2> QED  BY <2>1, FS_Subset
<1>2. Upto(m) \subseteq Upto(n)
  <2> SUFFICES ASSUME NEW j \in rows, j <= m PROVE j <= n
    OBVIOUS
  <2>1. j \in Int /\ m \in Int /\ n \in Int
    BY DEF Bar
  <2> QED  BY <2>1
<1>3. IsFiniteSet(Upto(n))
  BY <1>1, FS_Subset
<1>4. Cardinality(Upto(m)) <= Cardinality(Upto(n))
  BY <1>2, <1>3, FS_Subset
<1>5. IsFiniteSet(Upto(m))
  BY <1>1, FS_Subset
<1>6. Cardinality(Upto(m)) \in Nat /\ Cardinality(Upto(n)) \in Nat
  BY <1>3, <1>5, FS_CardinalityType
<1> QED  BY <1>4, <1>6 DEF Row

\* Where enough rows are there, every agent votes.
LEMMA AllVote ==
    ASSUME rows \subseteq Bar, NEW n \in Bar, Ready(n), NEW vote
    PROVE  Votes(n, vote) = {a \in Agents : view[n][a] = vote}
<1>1. Row(n) \in Nat /\ Row(n) >= Required
  BY RowGrows DEF Ready, Bar
<1>2. \A a \in Agents : First[a] <= Row(n)
  <2> SUFFICES ASSUME NEW a \in Agents PROVE First[a] <= Row(n)
    OBVIOUS
  <2>1. First[a] \in Nat /\ First[a] <= Required /\ Required \in Nat
    BY SignalsAssumption
  <2> QED  BY <2>1, <1>1
<1> QED  BY <1>2 DEF Votes

\* A candle that is added changes neither the side nor the readiness of
\* another one that was ready.
LEMMA SideStays ==
    ASSUME rows \subseteq Bar, NEW n \in Bar, NEW k \in Bar, k # n, Ready(k),
           rows' = rows \cup {n}, view \in [Bar -> Views], NEW v \in Views,
           view' = [view EXCEPT ![n] = v]
    PROVE  Ready(k)' /\ Side(k)' = Side(k)
<1> DEFINE Upto == {j \in rows : j <= k}
           More == {j \in rows' : j <= k}
<1>1. IsFiniteSet(More)
  <2>1. IsFiniteSet(Bar)
    BY FS_Interval, SignalsAssumption DEF Bar
  <2>2. More \subseteq Bar
    OBVIOUS
  <2> QED  BY <2>1, <2>2, FS_Subset
<1>2. Upto \subseteq More
  OBVIOUS
<1>3. IsFiniteSet(Upto) /\ Cardinality(Upto) <= Cardinality(More)
  BY <1>1, <1>2, FS_Subset
<1>4. Cardinality(Upto) \in Nat /\ Cardinality(More) \in Nat
  BY <1>1, <1>3, FS_CardinalityType
<1>5. Row(k) = Cardinality(Upto) /\ Row(k)' = Cardinality(More)
  BY DEF Row
<1>6. Required \in Nat
  BY SignalsAssumption
<1>7. Ready(k)' /\ Row(k)' \in Nat /\ Row(k)' >= Required
  <2> HIDE DEF Upto, More
  <2> QED  BY <1>3, <1>4, <1>5, <1>6 DEF Ready
<1>8. \A a \in Agents : First[a] <= Row(k)'
  <2> SUFFICES ASSUME NEW a \in Agents PROVE First[a] <= Row(k)'
    OBVIOUS
  <2>1. First[a] \in Nat /\ First[a] <= Required
    BY SignalsAssumption
  <2> QED  BY <2>1, <1>6, <1>7
<1>9. view'[k] = view[k]
  OBVIOUS
<1>10. \A vote : Votes(k, vote)' = {a \in Agents : view[k][a] = vote}
  BY <1>8, <1>9 DEF Votes
<1>11. \A vote : Votes(k, vote)' = Votes(k, vote)
  BY <1>10, AllVote
<1>12. Total(k)' = Total(k)
  BY <1>11 DEF Total
<1> QED  BY <1>7, <1>12 DEF Side

\* The sides of an unchanged window.
LEMMA SideSame ==
    ASSUME UNCHANGED <<rows, view>>, NEW k
    PROVE  Side(k)' = Side(k) /\ Ready(k)' = Ready(k)
<1>1. Row(k)' = Row(k)
  BY DEF Row
<1>2. \A vote : Votes(k, vote)' = Votes(k, vote)
  BY <1>1 DEF Votes
<1>3. Total(k)' = Total(k)
  BY <1>2 DEF Total
<1> QED  BY <1>1, <1>3 DEF Side, Ready

LEMMA SideType == ASSUME NEW k PROVE Side(k) \in Sides
  BY DEF Side, Sides
----------------------------------------------------------------------------
(* The invariant.                                                           *)

\* The marker of the file is not ahead of the process's, and the last signal
\* of the file not ahead of its marker.
MarkersInOrder == saved <= done /\ last[1] <= saved /\ latest.bar <= done

\* What following the bias means: the last processed candle was complete, and
\* the latest signal is of its side.
Followed ==
    following =>
        /\ done \in rows
        /\ Ready(done)
        /\ Side(done) # "none" => latest.side = Side(done)
        /\ latest.bar = done => latest.side = Side(done)

SidedOrBlank == latest.side = "none" => latest = NoSignal

IInv ==
    /\ TypeOK /\ MarkersInOrder /\ Followed /\ SidedOrBlank
    /\ ProtectedOnBothSides

\* Distances of the protective prices.
LEMMA Distance ==
    ASSUME NEW atr \in Nat, atr > 0, NEW mult \in Positive
    PROVE  atr * mult \in Nat /\ atr * mult > 0
<1>1. mult \in Nat /\ mult >= 1
  BY DEF Positive
<1>2. atr * mult \in Nat
  BY <1>1
<1>3. atr * mult >= atr * 1
  BY <1>1
<1> QED  BY <1>2, <1>3

\* A signal that is built has its type and its prices on their sides.
LEMMA BuiltRight ==
    ASSUME NEW n \in Bar, NEW side \in {"BUY", "SELL"}, NEW price \in Prices,
           NEW atr \in Ranges, Buildable(Built(n, side, price, atr), atr)
    PROVE  LET signal == Built(n, side, price, atr)
           IN  /\ signal \in [bar : 0..MaxBar, side : Sides, entry : Nat,
                              sl : Nat, tp : Nat]
               /\ signal.bar = n /\ signal.side = side
               /\ side = "BUY" => 0 < signal.sl /\ signal.sl < signal.entry
                                  /\ signal.entry < signal.tp
               /\ side = "SELL" => 0 < signal.tp /\ signal.tp < signal.entry
                                   /\ signal.entry < signal.sl
<1>1. price \in Nat /\ atr \in Nat /\ atr > 0
  BY SignalsAssumption DEF Buildable
<1> DEFINE d == atr * SlMult
           e == atr * TpMult
<1>2. d \in Nat /\ d > 0
  BY <1>1, Distance, SignalsAssumption
<1>3. e \in Nat /\ e > 0
  BY <1>1, Distance, SignalsAssumption
<1>4. n \in 0..MaxBar /\ side \in Sides
  BY SignalsAssumption DEF Bar, Sides
<1>5. Built(n, side, price, atr) =
        [bar |-> n, side |-> side, entry |-> price,
         sl |-> IF side = "BUY" THEN price - d ELSE price + d,
         tp |-> IF side = "BUY" THEN price + e ELSE price - e]
  BY DEF Built
<1>6. /\ (IF side = "BUY" THEN price - d ELSE price + d) > 0
      /\ (IF side = "BUY" THEN price + e ELSE price - e) > 0
  BY <1>5 DEF Buildable
<1> HIDE DEF d, e
<1>7. CASE side = "BUY"
  BY <1>1, <1>2, <1>3, <1>4, <1>5, <1>6, <1>7
<1>8. CASE side = "SELL"
  BY <1>1, <1>2, <1>3, <1>4, <1>5, <1>6, <1>8
<1> QED  BY <1>7, <1>8

\* The candle after the one that is followed has it as the row before.
LEMMA PreviousIsDone ==
    ASSUME rows \subseteq Bar, done \in rows, NEW n \in rows, IsNext(n)
    PROVE  /\ IsPrevious(done, n)
           /\ \A m : IsPrevious(m, n) => m = done
<1>1. \A m \in rows : m \in Int
  BY DEF Bar
<1>2. IsPrevious(done, n)
  BY <1>1 DEF IsNext, IsPrevious
<1>3. ASSUME NEW m, IsPrevious(m, n) PROVE m = done
  BY <1>1, <1>2, <1>3 DEF IsPrevious
<1> QED  BY <1>2, <1>3

LEMMA InitInv == Init => IInv
<1> SUFFICES ASSUME Init PROVE IInv
  OBVIOUS
<1>1. NoView \in [Bar -> Views]
  BY SignalsAssumption DEF NoView
<1>2. NoSignal \in [bar : 0..MaxBar, side : Sides, entry : Nat, sl : Nat,
                    tp : Nat]
  BY SignalsAssumption DEF NoSignal, Sides
<1>3. TypeOK
  BY <1>1, <1>2, SignalsAssumption DEF Init, TypeOK, Id, NoSignal, Sides
<1> QED
  BY <1>3 DEF Init, IInv, MarkersInOrder, Followed, SidedOrBlank,
              ProtectedOnBothSides, Id, NoSignal

----------------------------------------------------------------------------
(* Steps.                                                                   *)

LEMMA FetchStep == IInv /\ Fetch => IInv'
<1> SUFFICES ASSUME IInv, Fetch PROVE IInv'
  OBVIOUS
<1> USE DEF IInv
<1>1. PICK n \in Bar, v \in Views :
         /\ rows' = rows \cup {n}
         /\ view' = [view EXCEPT ![n] = v]
         /\ following' = (following /\ (n \in rows => v = view[n]))
  BY DEF Fetch
<1>2. UNCHANGED <<done, saved, last, latest>>
  BY DEF Fetch
<1>3. TypeOK'
  BY <1>1, <1>2 DEF TypeOK
<1>4. MarkersInOrder' /\ SidedOrBlank' /\ ProtectedOnBothSides'
  BY <1>2 DEF MarkersInOrder, SidedOrBlank, ProtectedOnBothSides
<1>5. ASSUME following'
      PROVE  done \in rows' /\ Ready(done)' /\ Side(done)' = Side(done)
  <2>1. following /\ (n \in rows => v = view[n])
    BY <1>1, <1>5
  <2>2. done \in rows /\ Ready(done) /\ done \in Bar
    BY <2>1 DEF Followed, TypeOK
  <2>3. PICK k \in Bar : k = done
    BY <2>2
  <2>4. CASE n \in rows
    <3>1. UNCHANGED <<rows, view>>
      BY <1>1, <2>1, <2>4 DEF TypeOK
    <3>2. Side(done)' = Side(done) /\ Ready(done)' = Ready(done)
      BY <3>1, <1>2 DEF Side, Total, Votes, Row, Ready
    <3> QED  BY <3>1, <3>2, <2>2
  <2>5. CASE n \notin rows
    <3>1. n # k
      BY <2>2, <2>3, <2>5
    <3>2. Ready(k)' /\ Side(k)' = Side(k)
      BY <3>1, <1>1, <2>2, <2>3, SideStays DEF TypeOK
    <3>3. Ready(done)' = Ready(k)' /\ Side(done)' = Side(k)'
      BY <1>2, <2>3 DEF Side, Total, Votes, Row, Ready
    <3> QED  BY <3>2, <3>3, <1>1, <2>2, <2>3
  <2> QED  BY <2>4, <2>5
<1>6. Followed'
  <2> SUFFICES ASSUME following'
               PROVE  /\ done' \in rows'
                      /\ Ready(done)'
                      /\ Side(done)' # "none" => latest'.side = Side(done)'
                      /\ latest'.bar = done' => latest'.side = Side(done)'
    BY DEF Followed
  <2>1. following
    BY <1>1
  <2>2. /\ Side(done) # "none" => latest.side = Side(done)
        /\ latest.bar = done => latest.side = Side(done)
    BY <2>1 DEF Followed
  <2> QED  BY <1>2, <1>5, <2>2
<1> QED  BY <1>3, <1>4, <1>6

LEMMA RestartStep == IInv /\ Restart => IInv'
<1> SUFFICES ASSUME IInv, Restart PROVE IInv'
  OBVIOUS
<1> USE DEF IInv
<1>1. PICK n \in Bar, v \in Views :
         /\ rows' = {n}
         /\ view' = [NoView EXCEPT ![n] = v]
         /\ done' = IF saved > n THEN saved ELSE n
         /\ saved' = done'
         /\ latest' = NoSignal
         /\ following' = FALSE
         /\ UNCHANGED last
  BY DEF Restart
<1>2. n \in 0..MaxBar /\ n \in Nat /\ saved \in 0..MaxBar /\ MaxBar \in Nat
  BY SignalsAssumption DEF Bar, TypeOK
<1>3. done' \in 0..MaxBar /\ done' >= saved
  BY <1>1, <1>2
<1>4. view' \in [Bar -> Views]
  <2>1. NoView \in [Bar -> Views]
    BY SignalsAssumption DEF NoView
  <2> QED  BY <2>1, <1>1
<1>5. latest' \in [bar : 0..MaxBar, side : Sides, entry : Nat, sl : Nat,
                  tp : Nat]
  BY <1>1, <1>2 DEF NoSignal, Sides
<1>6. TypeOK'
  BY <1>1, <1>3, <1>4, <1>5 DEF TypeOK
<1>7. last[1] \in Int /\ last[1] <= saved
  BY DEF TypeOK, MarkersInOrder
<1>8. MarkersInOrder'
  BY <1>1, <1>2, <1>3, <1>7 DEF MarkersInOrder, NoSignal
<1> QED
  BY <1>1, <1>6, <1>8 DEF Followed, SidedOrBlank, ProtectedOnBothSides, NoSignal

\* A candle that is marked.
LEMMA MarkStep ==
    ASSUME IInv, NEW n \in rows, IsNext(n), Mark(n),
           following' \in BOOLEAN, UNCHANGED latest,
           following' => Ready(n) /\ (Side(n) # "none" => latest.side = Side(n))
    PROVE  IInv'
<1> USE DEF IInv
<1>1. /\ rows' = rows /\ view' = view /\ last' = last /\ latest' = latest
      /\ done' = n /\ saved' = n
  BY DEF Mark
<1>2. n \in 0..MaxBar /\ n > done /\ n \in Bar
  <2>1. n \in Bar
    BY DEF TypeOK
  <2> QED  BY <2>1, SignalsAssumption DEF Bar, IsNext
<1>3. TypeOK'
  BY <1>1, <1>2 DEF TypeOK
<1>4. /\ last[1] \in Int /\ latest.bar \in Int /\ saved \in Int
      /\ done \in Int /\ n \in Int
  BY <1>2 DEF TypeOK, Bar
<1>5. MarkersInOrder' /\ latest.bar # n
  BY <1>1, <1>2, <1>4 DEF MarkersInOrder
<1>6. Side(n)' = Side(n) /\ Ready(n)' = Ready(n)
  BY <1>1, SideSame
<1>7. Side(done)' = Side(n)' /\ Ready(done)' = Ready(n)'
  BY <1>1 DEF Side, Total, Votes, Row, Ready
<1>8. Followed'
  BY <1>1, <1>5, <1>6, <1>7 DEF Followed
<1> QED  BY <1>1, <1>3, <1>5, <1>8 DEF SidedOrBlank, ProtectedOnBothSides

\* A process that follows is never short of rows again.
LEMMA NotReadyStep == IInv /\ NotReady => IInv'
<1> SUFFICES ASSUME IInv, NotReady PROVE IInv'
  OBVIOUS
<1>1. PICK n \in rows : IsNext(n) /\ ~Ready(n) /\ Mark(n)
  BY DEF NotReady
<1>2. UNCHANGED <<latest, following>>
  BY DEF NotReady
<1>3. ~following
  <2> SUFFICES ASSUME following PROVE FALSE
    OBVIOUS
  <2>1. done \in rows /\ Ready(done) /\ rows \subseteq Bar
    BY DEF IInv, Followed, TypeOK
  <2>2. done <= n /\ done \in Bar /\ n \in Bar
    BY <1>1, <2>1 DEF IsNext, Bar
  <2>3. Row(done) <= Row(n) /\ Row(done) \in Nat /\ Row(n) \in Nat
    BY <2>1, <2>2, RowGrows
  <2> QED  BY <1>1, <2>1, <2>3, SignalsAssumption DEF Ready
<1>4. following' \in BOOLEAN
  BY <1>2 DEF IInv, TypeOK
<1> QED  BY <1>1, <1>2, <1>3, <1>4, MarkStep

LEMMA NoCrossingStep == IInv /\ NoCrossing => IInv'
<1> SUFFICES ASSUME IInv, NoCrossing PROVE IInv'
  OBVIOUS
<1> USE DEF IInv
<1>1. PICK n \in rows :
         /\ IsNext(n) /\ Ready(n)
         /\ \/ \A side \in {"BUY", "SELL"} : ~Crosses(n, side)
            \/ \E side \in {"BUY", "SELL"} :
                  Crosses(n, side) /\ last = <<n, side>>
         /\ Mark(n)
         /\ following' = (following \/ Side(n) = "none")
         /\ UNCHANGED latest
  BY DEF NoCrossing
<1>2. last # <<n, "BUY">> /\ last # <<n, "SELL">>
  <2>1. last[1] \in Int /\ saved \in Int /\ done \in Int /\ n \in Int
    BY DEF TypeOK, Bar
  <2>2. last[1] < n
    BY <2>1, <1>1 DEF MarkersInOrder, IsNext
  <2> QED  BY <2>1, <2>2
<1>3. \A side \in {"BUY", "SELL"} : ~Crosses(n, side)
  BY <1>1, <1>2
<1>4. ASSUME following, Side(n) # "none" PROVE latest.side = Side(n)
  <2>1. done \in rows /\ rows \subseteq Bar
    BY <1>4 DEF Followed, TypeOK
  <2>2. IsPrevious(done, n)
    BY <2>1, <1>1, PreviousIsDone
  <2>3. Side(n) \in {"BUY", "SELL"}
    BY <1>4, SideType DEF Sides
  <2>4. ~Crosses(n, Side(n))
    BY <1>3, <2>3
  <2>5. Side(done) = Side(n)
    BY <2>1, <2>2, <2>4, <1>4 DEF Crosses
  <2> QED  BY <2>5, <1>4 DEF Followed
<1>5. following' \in BOOLEAN
  BY <1>1 DEF TypeOK
<1>6. following' => Ready(n) /\ (Side(n) # "none" => latest.side = Side(n))
  BY <1>1, <1>4
<1> QED  BY <1>1, <1>5, <1>6, MarkStep

LEMMA NotBuildableStep == IInv /\ NotBuildable => IInv'
<1> SUFFICES ASSUME IInv, NotBuildable PROVE IInv'
  OBVIOUS
<1>1. PICK n \in rows : IsNext(n) /\ Mark(n)
  BY DEF NotBuildable
<1>2. following' = FALSE /\ UNCHANGED latest
  BY DEF NotBuildable
<1> QED  BY <1>1, <1>2, MarkStep

LEMMA EmitStep == IInv /\ Emit => IInv'
<1> SUFFICES ASSUME IInv, Emit PROVE IInv'
  OBVIOUS
<1> USE DEF IInv
<1>1. PICK n \in rows, side \in {"BUY", "SELL"}, price \in Prices,
           atr \in Ranges :
         /\ IsNext(n) /\ Ready(n) /\ Crosses(n, side)
         /\ Buildable(Built(n, side, price, atr), atr)
         /\ latest' = Built(n, side, price, atr)
         /\ done' = n
         /\ \/ saved' = n /\ last' = Id(Built(n, side, price, atr))
            \/ UNCHANGED <<saved, last>>
         /\ following' = TRUE
         /\ UNCHANGED <<rows, view>>
  BY DEF Emit
<1>2. n \in Bar /\ n \in 0..MaxBar /\ n > done
  <2>1. n \in Bar
    BY DEF TypeOK
  <2> QED  BY <2>1, <1>1, SignalsAssumption DEF Bar, IsNext
<1>3. /\ latest' \in [bar : 0..MaxBar, side : Sides, entry : Nat, sl : Nat,
                     tp : Nat]
      /\ latest'.bar = n /\ latest'.side = side
      /\ ProtectedOnBothSides'
  BY <1>1, <1>2, BuiltRight DEF ProtectedOnBothSides
<1>4. Id(Built(n, side, price, atr)) = <<n, side>>
  BY DEF Id, Built
<1>5. TypeOK'
  BY <1>1, <1>2, <1>3, <1>4 DEF TypeOK, Sides
<1>6. MarkersInOrder'
  <2>1. last[1] \in Int /\ saved \in Int /\ done \in Int /\ n \in Int
    BY <1>2 DEF TypeOK
  <2>2. saved < n /\ last[1] <= saved
    BY <2>1, <1>2 DEF MarkersInOrder
  <2>3. CASE saved' = n /\ last' = <<n, side>>
    BY <2>1, <2>3, <1>1, <1>3 DEF MarkersInOrder
  <2>4. CASE UNCHANGED <<saved, last>>
    BY <2>1, <2>2, <2>4, <1>1, <1>3 DEF MarkersInOrder
  <2> QED  BY <2>3, <2>4, <1>1, <1>4
<1>7. Side(n)' = Side(n) /\ Ready(n)' = Ready(n)
  BY <1>1, SideSame
<1>8. Side(done)' = Side(n)' /\ Ready(done)' = Ready(n)'
  BY <1>1 DEF Side, Total, Votes, Row, Ready
<1>9. Side(n) = side
  BY <1>1 DEF Crosses
<1>10. Followed'
  BY <1>1, <1>3, <1>7, <1>8, <1>9 DEF Followed
<1>11. SidedOrBlank'
  BY <1>3 DEF SidedOrBlank
<1> QED  BY <1>3, <1>5, <1>6, <1>10, <1>11

LEMMA StepInv == IInv /\ [Next]_vars => IInv'
<1> SUFFICES ASSUME IInv, [Next]_vars PROVE IInv'
  OBVIOUS
<1>1. CASE UNCHANGED vars
  <2>1. Side(done)' = Side(done) /\ Ready(done)' = Ready(done)
    BY <1>1 DEF vars, Side, Total, Votes, Row, Ready
  <2> QED
    BY <1>1, <2>1 DEF vars, IInv, TypeOK, MarkersInOrder, Followed,
                      SidedOrBlank, ProtectedOnBothSides
<1> QED
  BY <1>1, FetchStep, RestartStep, NotReadyStep, NoCrossingStep,
     NotBuildableStep, EmitStep DEF Next

LEMMA Invariance == Spec => []IInv
  BY InitInv, StepInv, PTL DEF Spec

----------------------------------------------------------------------------
(* Theorems.                                                                *)

\* Every reachable state has its type.
THEOREM TypeCorrect == Spec => []TypeOK
  BY Invariance, PTL DEF IInv

\* A process that follows the bias has signalled the side it is on: no
\* crossing is lost to a candle that is late, missing or handled in vain.
THEOREM NoneLost == Spec => []CrossingsFollowed
<1>1. IInv => CrossingsFollowed
  BY DEF IInv, Followed, CrossingsFollowed
<1> QED  BY <1>1, Invariance, PTL

\* Stop and target are positive and on either side of the entry.
THEOREM Protected == Spec => []ProtectedOnBothSides
  BY Invariance, PTL DEF IInv

\* No crossing is signalled twice: between two signals of one side lies a
\* candle whose bias was not on that side.
THEOREM NoneRepeated == Spec => SideLeftBetween
<1>1. ASSUME IInv, [Next]_vars, following, latest' # latest,
             latest'.side = latest.side
      PROVE  \E m \in rows : /\ latest.bar < m /\ m < latest'.bar
                             /\ Side(m) # latest.side
  <2> USE DEF IInv
  <2>1. Emit \/ Restart
    BY <1>1 DEF Next, vars, Fetch, NotReady, NoCrossing, NotBuildable, Mark
  <2>2. ~Restart
    <3> SUFFICES ASSUME Restart PROVE FALSE
      OBVIOUS
    <3>1. latest' = NoSignal
      BY DEF Restart
    <3> QED  BY <1>1, <3>1 DEF SidedOrBlank, NoSignal
  <2>3. PICK n \in rows, side \in {"BUY", "SELL"}, price \in Prices,
             atr \in Ranges :
           /\ IsNext(n) /\ Crosses(n, side)
           /\ latest' = Built(n, side, price, atr)
    BY <2>1, <2>2 DEF Emit
  <2>4. latest'.bar = n /\ latest'.side = side
    BY <2>3 DEF Built
  <2>5. done \in rows /\ rows \subseteq Bar
    BY <1>1 DEF Followed, TypeOK
  <2>6. PICK m \in rows : IsPrevious(m, n) /\ Side(m) # side
    BY <2>3 DEF Crosses
  <2>7. m = done
    BY <2>3, <2>5, <2>6, PreviousIsDone
  <2>8. Side(done) # latest.side /\ latest.bar # done
    BY <1>1, <2>4, <2>6, <2>7 DEF Followed
  <2>9. latest.bar < done /\ done < n
    <3>1. n \in Int
      BY <2>5 DEF Bar
    <3>2. latest.bar \in Int /\ done \in Int
      BY <1>1 DEF TypeOK
    <3> QED  BY <3>1, <3>2, <1>1, <2>3, <2>8 DEF MarkersInOrder, IsNext
  <2> QED  BY <2>4, <2>5, <2>8, <2>9
<1>2. IInv /\ [Next]_vars
      => [following /\ latest' # latest /\ latest'.side = latest.side
          => \E m \in rows : /\ latest.bar < m /\ m < latest'.bar
                             /\ Side(m) # latest.side]_vars
  BY <1>1
<1> QED  BY <1>2, Invariance, PTL DEF Spec, SideLeftBetween
=============================================================================
