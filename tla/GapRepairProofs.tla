--------------------------- MODULE GapRepairProofs ---------------------------
(***************************************************************************)
(* What a repair of the gaps keeps, whatever the market's hours, the       *)
(* settings and the answers: the latest candle stays the latest, each      *)
(* request spans the candle it was made for, and the verdict is right      *)
(* about the recent candles.                                               *)
(***************************************************************************)
EXTENDS GapRepair, FiniteSetTheorems, TLAPS

HasLatest(S) == \E latest \in S : IsLatest(S, latest)

\* Two candles less than an hour apart are the same: so a candle that starts
\* before the latest one has ended is the latest or older.
LEMMA HoursApart ==
    ASSUME NEW a \in Hours, NEW b \in Hours, a < b + Interval
    PROVE  a <= b
<1>1. PICK i \in 0..Horizon : a = i * Interval
  BY DEF Hours
<1>2. PICK k \in 0..Horizon : b = k * Interval
  BY DEF Hours
<1>3. Interval \in Nat \ {0} /\ Horizon \in Nat
  BY GapRepairAssumption
<1>4. i - k < 1
  <2>1. SUFFICES ASSUME i >= k + 1 PROVE FALSE
    BY <1>3
  <2>2. i * Interval >= (k + 1) * Interval
    BY <2>1, <1>3
  <2>3. (k + 1) * Interval = k * Interval + Interval
    BY <1>3
  <2> QED  BY <2>2, <2>3, <1>1, <1>2, <1>3
<1>5. i <= k
  BY <1>3, <1>4
<1>6. i * Interval <= k * Interval
  BY <1>5, <1>3
<1> QED  BY <1>6, <1>1, <1>2

\* The least of three times is one of them and not above any.
LEMMA LeastOfThree ==
    ASSUME NEW x \in Int, NEW y \in Int, NEW z \in Int
    PROVE  /\ Least({x, y, z}) \in {x, y, z}
           /\ Least({x, y, z}) <= x
           /\ Least({x, y, z}) <= y
           /\ Least({x, y, z}) <= z
<1> DEFINE P(t) == t \in {x, y, z} /\ \A u \in {x, y, z} : t <= u
<1>1. \E t : P(t)
  <2>1. CASE x <= y /\ x <= z  BY <2>1
  <2>2. CASE y <= x /\ y <= z  BY <2>2
  <2>3. CASE z <= x /\ z <= y  BY <2>3
  <2> QED  BY <2>1, <2>2, <2>3
<1>2. Least({x, y, z}) = CHOOSE t : P(t)
  BY DEF Least
<1> HIDE DEF P
<1>3. P(Least({x, y, z}))
  BY <1>1, <1>2
<1> QED  BY <1>3 DEF P

\* The end of a request: no later than half the duration past the missing
\* candle, the end of the latest candle and the moment.
LEMMA EndBounds ==
    ASSUME NEW b \in Hours, NEW latest \in Hours, now \in Nat
    PROVE  LET to == BackfillEnd(b, latest)
           IN /\ to \in {b + Duration \div 2, latest + Interval, now}
              /\ to \in Nat
              /\ to <= b + Duration \div 2
              /\ to <= latest + Interval
              /\ to <= now
<1>1. Interval \in Nat /\ Duration \in Nat /\ Duration \div 2 \in Nat
  BY GapRepairAssumption
<1>2. b \in Nat /\ latest \in Nat
  BY DEF Hours
<1> DEFINE mid == b + Duration \div 2
           cap == latest + Interval
<1>3. /\ mid \in Nat /\ cap \in Nat
      /\ mid \in Int /\ cap \in Int /\ now \in Int
  BY <1>1, <1>2
<1>4. BackfillEnd(b, latest) = Least({mid, cap, now})
  BY DEF BackfillEnd
<1> HIDE DEF mid, cap
<1>5. /\ Least({mid, cap, now}) \in {mid, cap, now}
      /\ Least({mid, cap, now}) <= mid
      /\ Least({mid, cap, now}) <= cap
      /\ Least({mid, cap, now}) <= now
  BY <1>3, LeastOfThree, Zenon
<1> QED  BY <1>3, <1>4, <1>5 DEF mid, cap

\* Trimming keeps the latest candle.
LEMMA TrimKeepsLatest ==
    ASSUME NEW S \in SUBSET Hours, NEW latest \in S, IsLatest(S, latest)
    PROVE  latest \in Trimmed(S) /\ IsLatest(Trimmed(S), latest)
<1>1. {c \in S : c > latest} = {}
  <2>1. S \subseteq Int
    BY DEF Hours
  <2>2. \A c \in S : ~(c > latest)
    BY <2>1 DEF IsLatest
  <2> QED  BY <2>2
<1>2. Cardinality({c \in S : c > latest}) = 0
  BY <1>1, FS_EmptySet
<1>3. 0 < MaxCandles
  BY GapRepairAssumption
<1> QED  BY <1>2, <1>3 DEF Trimmed, IsLatest

----------------------------------------------------------------------------
(* The invariant: the types, the latest candle, and the request's window.  *)

\* A candle still to be requested lies before the latest one.
TodoBehind == \A b \in todo : \E latest \in bars : b < latest

IInv == TypeOK /\ HasLatest(bars) /\ TodoBehind /\ WindowCovers

LEMMA InitIInv == Init => IInv
<1> SUFFICES ASSUME Init PROVE IInv
  OBVIOUS
<1> USE DEF Init
<1>1. PICK fetched \in SUBSET Hours :
          /\ \E latest \in fetched : IsLatest(fetched, latest)
          /\ \A b \in fetched : b + Interval <= now
          /\ bars = Trimmed(fetched)
          /\ todo = Unexpected(fetched)
  OBVIOUS
<1>2. PICK latest \in fetched : IsLatest(fetched, latest)
  BY <1>1
<1>3. latest \in bars /\ IsLatest(bars, latest)
  BY <1>1, <1>2, TrimKeepsLatest
<1>4. bars \subseteq fetched
  BY <1>1 DEF Trimmed
<1>5. todo \subseteq Hours /\ TodoBehind
  <2>1. \A b \in todo : b \in Hours /\ \E n \in fetched : b < n
    BY <1>1 DEF Unexpected, Missing
  <2>2. \A n \in fetched : n <= latest
    BY <1>2 DEF IsLatest
  <2>3. fetched \subseteq Int /\ Hours \subseteq Int
    BY DEF Hours
  <2>4. ASSUME NEW b \in todo PROVE b < latest
    <3>1. PICK n \in fetched : b < n
      BY <2>1
    <3>2. b \in Int /\ n \in Int /\ latest \in Int
      BY <2>1, <2>3
    <3>3. n <= latest
      BY <2>2
    <3> QED  BY ONLY <3>1, <3>2, <3>3
  <2> QED  BY <2>1, <2>4, <1>3 DEF TodoBehind
<1>6. calendar \subseteq market
  BY DEF Listed
<1>7. window \in [bar : Hours, to : 0..now]
  <2>1. 0 \in Hours
    BY GapRepairAssumption DEF Hours
  <2> QED  BY <2>1, GapRepairAssumption DEF NoWindow
<1> QED  BY <1>1, <1>3, <1>4, <1>5, <1>6, <1>7
         DEF IInv, TypeOK, HasLatest, WindowCovers

\* What every request does: its window.
LEMMA RequestedStep ==
    ASSUME IInv, NEW b \in todo, Requested(b)
    PROVE  /\ window' \in [bar : Hours, to : 0..now]
           /\ window'.bar + Interval <= window'.to
           /\ window'.to <= window'.bar + Duration
           /\ \E latest \in bars : /\ IsLatest(bars, latest)
                                   /\ window'.to <= latest + Interval
<1> USE DEF IInv, TypeOK
<1>1. PICK latest \in bars :
          /\ IsLatest(bars, latest)
          /\ window' = [bar |-> b, to |-> BackfillEnd(b, latest)]
  BY DEF Requested
<1>2. b \in Hours /\ latest \in Hours /\ now \in Nat
  OBVIOUS
<1>3. b < latest
  <2>1. PICK n \in bars : b < n
    BY DEF TodoBehind
  <2>2. n <= latest
    BY <1>1 DEF IsLatest
  <2> QED  BY <2>1, <2>2, <1>2 DEF Hours
<1>4. b + Interval <= latest
  <2>1. CASE latest < b + Interval
    BY <2>1, <1>2, <1>3, HoursApart DEF Hours
  <2>2. CASE ~(latest < b + Interval)
    BY <2>2, <1>2, GapRepairAssumption DEF Hours
  <2> QED  BY <2>1, <2>2
<1>5. latest + Interval <= now
  OBVIOUS
<1>6. /\ Interval \in Nat \ {0} /\ Duration \in Nat
      /\ Interval <= Duration \div 2 /\ Duration \div 2 <= Duration
      /\ Duration \div 2 \in Nat
  BY GapRepairAssumption
<1> DEFINE to == BackfillEnd(b, latest)
<1>7. /\ to \in {b + Duration \div 2, latest + Interval, now}
      /\ to \in Nat
      /\ to <= b + Duration \div 2
      /\ to <= latest + Interval
      /\ to <= now
  BY <1>2, EndBounds
<1> HIDE DEF to
<1>8. b + Interval <= to /\ to <= b + Duration
  <2>1. b \in Nat /\ latest \in Nat
    BY <1>2 DEF Hours
  <2> QED  BY <2>1, <1>2, <1>4, <1>5, <1>6, <1>7
<1>9. window' = [bar |-> b, to |-> to]
  BY <1>1 DEF to
<1> QED  BY <1>1, <1>2, <1>7, <1>8, <1>9

\* Nothing a request brings is newer than the latest candle of the store.
LEMMA BackfilledStep ==
    ASSUME IInv, NEW b \in todo, Backfilled(b)
    PROVE  /\ bars \subseteq bars' /\ bars' \subseteq Hours
           /\ \A c \in bars' : c + Interval <= now
           /\ \A latest \in bars :
                 IsLatest(bars, latest) => IsLatest(bars', latest)
<1> USE DEF IInv, TypeOK
<1>1. Requested(b)
  BY DEF Backfilled
<1>2. PICK S \in SUBSET InWindow(window'.to) : bars' = Merged(S)
  BY DEF Backfilled
<1>3. PICK latest \in bars :
          IsLatest(bars, latest) /\ window'.to <= latest + Interval
  BY <1>1, RequestedStep
<1>4. bars \subseteq bars' /\ bars' \subseteq Hours
  BY <1>2 DEF Merged, InWindow
<1>5. \A c \in bars' : c + Interval <= now
  BY <1>2 DEF Merged
<1>6. \A c \in bars' \ bars : c < window'.to
  BY <1>2 DEF Merged, InWindow
<1>7. \A c \in bars' \ bars : c <= latest
  <2> TAKE c \in bars' \ bars
  <2>1. c \in Hours /\ latest \in Hours
    BY <1>4
  <2>2. window'.to \in Int
    BY <1>1, RequestedStep
  <2>3. c < latest + Interval
    BY <1>3, <1>6, <2>1, <2>2, GapRepairAssumption DEF Hours
  <2> QED  BY <2>1, <2>3, HoursApart
<1>8. ASSUME NEW n \in bars, IsLatest(bars, n) PROVE IsLatest(bars', n)
  <2>1. n = latest
    BY <1>3, <1>8 DEF IsLatest, Hours
  <2> QED  BY <2>1, <1>4, <1>7, <1>8 DEF IsLatest
<1> QED  BY <1>4, <1>5, <1>8

LEMMA NextIInv == IInv /\ [Next]_vars => IInv'
<1> SUFFICES ASSUME IInv, [Next]_vars PROVE IInv'
  OBVIOUS
<1>1. ASSUME NEW b \in todo, Backfilled(b) PROVE IInv'
  <2>1. Requested(b) /\ todo' = todo \ {b} /\ pc' = pc
    BY <1>1 DEF Backfilled
  <2>2. /\ bars \subseteq bars' /\ bars' \subseteq Hours
        /\ \A c \in bars' : c + Interval <= now
        /\ \A n \in bars : IsLatest(bars, n) => IsLatest(bars', n)
    BY <1>1, BackfilledStep
  <2>3. market' = market /\ calendar' = calendar /\ now' = now
    BY <2>1 DEF Requested
  <2>4. /\ window' \in [bar : Hours, to : 0..now]
        /\ window'.bar + Interval <= window'.to
        /\ window'.to <= window'.bar + Duration
    BY <1>1, <2>1, RequestedStep
  <2>5. HasLatest(bars') /\ TodoBehind'
    BY <2>1, <2>2 DEF IInv, HasLatest, TodoBehind
  <2>6. TypeOK'
    BY <2>1, <2>2, <2>3, <2>4 DEF IInv, TypeOK
  <2> QED  BY <2>4, <2>5, <2>6 DEF IInv, WindowCovers
<1>2. ASSUME NEW b \in todo, BackfillFails(b) \/ BackfillRaises(b)
      PROVE  IInv'
  <2>1. /\ Requested(b) /\ bars' = bars /\ todo' \subseteq todo
        /\ pc' \in {"repair", "raised"}
    BY <1>2 DEF BackfillFails, BackfillRaises, Requested
  <2>2. market' = market /\ calendar' = calendar /\ now' = now
    BY <2>1 DEF Requested
  <2>3. /\ window' \in [bar : Hours, to : 0..now]
        /\ window'.bar + Interval <= window'.to
        /\ window'.to <= window'.bar + Duration
    BY <2>1, RequestedStep
  <2>4. HasLatest(bars') /\ TodoBehind'
    BY <2>1 DEF IInv, HasLatest, TodoBehind
  <2>5. TypeOK'
    BY <2>1, <2>2, <2>3 DEF IInv, TypeOK
  <2> QED  BY <2>3, <2>4, <2>5 DEF IInv, WindowCovers
<1>3. ASSUME Verdict PROVE IInv'
  <2>1. /\ todo = {} /\ bars' = Trimmed(bars)
        /\ pc' \in {"allowed", "blocked"}
        /\ UNCHANGED <<market, calendar, todo, window, now>>
    BY <1>3 DEF Verdict
  <2>2. PICK n \in bars : IsLatest(bars, n)
    BY DEF IInv, HasLatest
  <2>3. n \in bars' /\ IsLatest(bars', n)
    BY <2>1, <2>2, TrimKeepsLatest DEF IInv, TypeOK
  <2>4. bars' \subseteq bars
    BY <2>1 DEF Trimmed
  <2>5. TypeOK'
    BY <2>1, <2>3, <2>4 DEF IInv, TypeOK
  <2> QED  BY <2>1, <2>3, <2>5 DEF IInv, HasLatest, TodoBehind, WindowCovers
<1>4. ASSUME Tick PROVE IInv'
  <2>1. /\ now < Horizon /\ now' = now + 1
        /\ UNCHANGED <<market, calendar, bars, todo, window, pc>>
    BY <1>4 DEF Tick
  <2>2. now \in Nat /\ now' \in 1..Horizon
    BY <2>1, GapRepairAssumption DEF IInv, TypeOK
  <2>3. \A b \in bars : b + Interval <= now'
    <3>1. \A b \in bars : b + Interval <= now /\ b + Interval \in Nat
      BY GapRepairAssumption DEF IInv, TypeOK, Hours
    <3> QED  BY <2>1, <2>2, <3>1
  <2>4. TypeOK'
    BY <2>1, <2>2, <2>3 DEF IInv, TypeOK
  <2> QED  BY <2>1, <2>4 DEF IInv, HasLatest, TodoBehind, WindowCovers
<1>5. CASE UNCHANGED vars
  BY <1>5 DEF vars, IInv, TypeOK, HasLatest, TodoBehind, WindowCovers
<1> QED  BY <1>1, <1>2, <1>3, <1>4, <1>5 DEF Next, Repair

\* The invariant holds throughout.
THEOREM Invariance == Spec => []IInv
  BY InitIInv, NextIInv, PTL DEF Spec

\* The types, and that no request asks for the future
\* (main.py:1278-1285, _backfill_end_cap).
THEOREM TypeCorrect == Spec => []TypeOK
<1>1. IInv => TypeOK
  BY DEF IInv
<1> QED  BY <1>1, Invariance, PTL

\* Every request spans the whole candle it is made for, for every duration
\* of at least two candles (main.py:1260-1276).
THEOREM RequestSpansCandle == Spec => []WindowCovers
<1>1. IInv => WindowCovers
  BY DEF IInv
<1> QED  BY <1>1, Invariance, PTL

\* No repair moves the store on to a newer candle, and no trimming loses the
\* latest (main.py:792-865).
THEOREM LatestKept == Spec => RepairKeepsLatest
<1> DEFINE Kept == \A b \in bars : IsLatest(bars, b) => IsLatest(bars', b)
<1>1. IInv /\ [Next]_vars => [Kept]_vars
  <2> SUFFICES ASSUME IInv, Next PROVE Kept
    OBVIOUS
  <2>1. ASSUME NEW b \in todo, Backfilled(b) PROVE Kept
    BY <2>1, BackfilledStep
  <2>2. ASSUME NEW b \in todo, BackfillFails(b) \/ BackfillRaises(b)
        PROVE  Kept
    BY <2>2 DEF BackfillFails, BackfillRaises
  <2>3. ASSUME Verdict PROVE Kept
    BY <2>3, TrimKeepsLatest DEF Verdict, IInv, TypeOK
  <2>4. ASSUME Tick PROVE Kept
    BY <2>4 DEF Tick
  <2> QED  BY <2>1, <2>2, <2>3, <2>4 DEF Next, Repair
<1> QED  BY <1>1, Invariance, PTL DEF Spec, RepairKeepsLatest
----------------------------------------------------------------------------
(* The verdict.                                                            *)

\* A candle fits into a session when all its instants do.
LEMMA InsideIsWhole ==
    ASSUME NEW M \in Markets, NEW S \in SUBSET M, NEW b \in Hours
    PROVE  Inside(S, b) <=>
              \E s \in S : b..(b + Interval) \subseteq s.start..s.end
<1>1. b \in Int /\ Interval \in Nat \ {0}
  BY GapRepairAssumption DEF Hours
<1>2. ASSUME NEW s \in S
      PROVE  s.start <= b /\ b + Interval <= s.end
             <=> b..(b + Interval) \subseteq s.start..s.end
  <2>1. s.start \in Int /\ s.end \in Int
    BY GapRepairAssumption
  <2>2. b \in b..(b + Interval) /\ b + Interval \in b..(b + Interval)
    BY <1>1
  <2> QED  BY <1>1, <2>1, <2>2
<1> QED  BY <1>2 DEF Inside

\* The candles in session from b on and before a later candle are those after
\* b up to that one, with b and perhaps without the later one.
LEMMA CountedFrom ==
    ASSUME NEW sessions, NEW b \in Hours, NEW latest \in Hours,
           b < latest, Inside(sessions, b)
    PROVE  LET after == {h \in Hours : /\ b < h /\ h <= latest
                                       /\ Inside(sessions, h)}
               from == {c \in Hours : /\ Inside(sessions, c)
                                      /\ b <= c /\ c < latest}
           IN /\ Cardinality(after) \in Nat /\ Cardinality(from) \in Nat
              /\ Cardinality(after) <= Cardinality(from)
              /\ Cardinality(from) <= Cardinality(after) + 1
<1> DEFINE after == {h \in Hours : /\ b < h /\ h <= latest
                                   /\ Inside(sessions, h)}
           from == {c \in Hours : /\ Inside(sessions, c)
                                  /\ b <= c /\ c < latest}
           between == after \ {latest}
<1>1. Hours \subseteq Nat /\ IsFiniteSet(Hours)
  <2>1. 0 \in Int /\ Horizon \in Int /\ 0..Horizon \subseteq Nat
    BY GapRepairAssumption
  <2>2. IsFiniteSet(0..Horizon)
    BY <2>1, FS_Interval
  <2>3. Hours \in SUBSET (0..Horizon)
    BY DEF Hours
  <2> QED  BY <2>1, <2>2, <2>3, FS_Subset
<1>2. IsFiniteSet(after) /\ IsFiniteSet(between) /\ IsFiniteSet(from)
  BY <1>1, FS_Subset
<1>3. /\ Cardinality(after) \in Nat /\ Cardinality(between) \in Nat
      /\ Cardinality(from) \in Nat
  BY <1>2, FS_CardinalityType
<1>4. from = between \cup {b} /\ b \notin between
  <2>1. b \in Nat /\ latest \in Nat
    BY <1>1
  <2>2. \A c \in Hours : c \in from <=> c \in between \/ c = b
    <3> TAKE c \in Hours
    <3>1. c \in Nat
      BY <1>1
    <3> QED  BY <2>1, <3>1
  <2>3. from \subseteq Hours /\ between \subseteq Hours /\ b \notin between
    BY <2>1
  <2> HIDE DEF from, between
  <2> QED  BY <2>2, <2>3
<1> HIDE DEF from
<1>5. Cardinality(from) = Cardinality(between) + 1
  BY <1>2, <1>4, FS_AddElement
<1>6. Cardinality(between) = IF latest \in after THEN Cardinality(after) - 1
                                                 ELSE Cardinality(after)
  BY <1>2, FS_RemoveElement
<1> HIDE DEF after, between
<1>7. /\ Cardinality(after) <= Cardinality(from)
      /\ Cardinality(from) <= Cardinality(after) + 1
  BY <1>3, <1>5, <1>6
<1> QED  BY <1>3, <1>7 DEF after, from

\* What blocks is one of the recent candles or the one before them, and what
\* is missing from the recent ones blocks.
BlockingIsRecent ==
    \A latest \in bars : IsLatest(bars, latest) =>
        /\ \A b \in Unexpected(bars) :
              Blocks(b, latest) => b \in Recent(calendar, GapBlock + 1)
        /\ \A b \in Recent(calendar, GapBlock) \ bars :
              b \in Unexpected(bars) /\ Blocks(b, latest)

LEMMA BlocksIsRecent == TypeOK => BlockingIsRecent
<1> SUFFICES
      ASSUME TypeOK, NEW latest \in bars, IsLatest(bars, latest)
      PROVE  /\ \A b \in Unexpected(bars) :
                   Blocks(b, latest) => b \in Recent(calendar, GapBlock + 1)
             /\ \A b \in Recent(calendar, GapBlock) \ bars :
                   b \in Unexpected(bars) /\ Blocks(b, latest)
  BY DEF BlockingIsRecent
<1>1. /\ bars \subseteq Hours /\ latest \in Hours /\ Hours \subseteq Int
      /\ market \in Markets /\ calendar \subseteq market
      /\ GapBlock \in Nat
  BY GapRepairAssumption DEF TypeOK, Hours
<1> DEFINE Whole(c) == \E s \in calendar :
                          c..(c + Interval) \subseteq s.start..s.end
           newer(b) == {c \in Hours : /\ Whole(c)
                                      /\ b <= c
                                      /\ \E last \in bars : c < last}
           from(b) == {c \in Hours : /\ Inside(calendar, c)
                                     /\ b <= c /\ c < latest}
<1>2. \A c \in Hours : Whole(c) <=> Inside(calendar, c)
  BY <1>1, InsideIsWhole
<1>3. \A c \in Hours : (\E last \in bars : c < last) <=> c < latest
  BY <1>1 DEF IsLatest
<1>4. \A b \in Hours : newer(b) = from(b)
  <2> HIDE DEF Whole
  <2> QED  BY <1>2, <1>3
<1>5. ASSUME NEW b \in Hours, b < latest, Inside(calendar, b)
      PROVE  /\ OpenAfter(b, latest) \in Nat /\ Cardinality(newer(b)) \in Nat
             /\ OpenAfter(b, latest) <= Cardinality(newer(b))
             /\ Cardinality(newer(b)) <= OpenAfter(b, latest) + 1
  <2>1. newer(b) = from(b)
    BY <1>4
  <2>2. /\ OpenAfter(b, latest) \in Nat /\ Cardinality(from(b)) \in Nat
        /\ OpenAfter(b, latest) <= Cardinality(from(b))
        /\ Cardinality(from(b)) <= OpenAfter(b, latest) + 1
    BY <1>1, <1>5, CountedFrom DEF OpenAfter
  <2> HIDE DEF newer, from
  <2> QED  BY <2>1, <2>2
<1>6. \A n, b : b \in Recent(calendar, n) <=>
         /\ b \in Hours /\ Whole(b)
         /\ \E first, last \in bars : first < b /\ b < last
         /\ Cardinality(newer(b)) <= n
  BY DEF Recent
<1> HIDE DEF Whole, newer
<1>7. ASSUME NEW b \in Unexpected(bars), Blocks(b, latest)
      PROVE  b \in Recent(calendar, GapBlock + 1)
  <2>1. /\ b \in Hours /\ Inside(calendar, b)
        /\ \E first, last \in bars : first < b /\ b < last
    BY DEF Unexpected, Missing
  <2>2. b < latest
    BY <1>3, <2>1
  <2>3. Cardinality(newer(b)) <= GapBlock + 1
    BY <1>1, <1>5, <1>7, <2>1, <2>2 DEF Blocks
  <2> QED  BY <1>2, <1>6, <2>1, <2>3
<1>8. ASSUME NEW b \in Recent(calendar, GapBlock) \ bars
      PROVE  b \in Unexpected(bars) /\ Blocks(b, latest)
  <2>1. /\ b \in Hours /\ Inside(calendar, b)
        /\ \E first, last \in bars : first < b /\ b < last
        /\ Cardinality(newer(b)) <= GapBlock
    BY <1>2, <1>6
  <2>2. b \in Unexpected(bars) /\ b < latest
    BY <1>3, <2>1 DEF Unexpected, Missing
  <2>3. OpenAfter(b, latest) <= GapBlock
    BY <1>1, <1>5, <2>1, <2>2
  <2> QED  BY <2>2, <2>3 DEF Blocks
<1> QED  BY <1>7, <1>8

LEMMA VerdictStep == IInv /\ VerdictRight /\ [Next]_vars => VerdictRight'
<1> SUFFICES ASSUME IInv, VerdictRight, [Next]_vars PROVE VerdictRight'
  OBVIOUS
<1>1. IInv'
  BY NextIInv
<1>2. CASE Verdict
  <2>1. PICK latest \in bars' :
            /\ IsLatest(bars', latest)
            /\ pc' = IF \E b \in Unexpected(bars') : Blocks(b, latest)
                     THEN "blocked" ELSE "allowed"
    BY <1>2 DEF Verdict
  <2>2. BlockingIsRecent'
    <3>1. (TypeOK => BlockingIsRecent)'
      BY BlocksIsRecent, PTL
    <3> QED  BY <1>1, <3>1 DEF IInv
  <2>3. calendar' = calendar
    BY <1>2 DEF Verdict
  <2>4. Unexpected(bars') = Unexpected(bars)'
    BY <2>3 DEF Unexpected
  <2>5. \A b : Blocks(b, latest) <=> Blocks(b, latest)'
    BY <2>3 DEF Blocks, OpenAfter
  <2>6. \A b \in Unexpected(bars') : b \notin bars'
    BY DEF Unexpected, Missing
  <2>7. /\ \A b \in Unexpected(bars') :
              Blocks(b, latest) => b \in Recent(calendar, GapBlock + 1)'
        /\ \A b \in Recent(calendar, GapBlock)' \ bars' :
              b \in Unexpected(bars') /\ Blocks(b, latest)
    BY <2>1, <2>2, <2>4, <2>5 DEF BlockingIsRecent
  <2>8. CASE \E b \in Unexpected(bars') : Blocks(b, latest)
    <3>1. pc' = "blocked"
      BY <2>1, <2>8
    <3> QED  BY <2>6, <2>7, <2>8, <3>1 DEF VerdictRight
  <2>9. CASE ~ \E b \in Unexpected(bars') : Blocks(b, latest)
    <3>1. pc' = "allowed"
      BY <2>1, <2>9
    <3> QED  BY <2>7, <2>9, <3>1 DEF VerdictRight
  <2> QED  BY <2>8, <2>9
<1>3. CASE Tick \/ UNCHANGED vars
  <2>1. UNCHANGED <<pc, calendar, bars>>
    BY <1>3 DEF Tick, vars
  <2>2. /\ Recent(calendar, GapBlock)' = Recent(calendar, GapBlock)
        /\ Recent(calendar, GapBlock + 1)' = Recent(calendar, GapBlock + 1)
    BY <2>1 DEF Recent
  <2> QED  BY <2>1, <2>2 DEF VerdictRight
<1>4. ASSUME NEW b \in todo,
             Backfilled(b) \/ BackfillFails(b) \/ BackfillRaises(b)
      PROVE  VerdictRight'
  BY <1>4 DEF Backfilled, BackfillFails, BackfillRaises, Requested, VerdictRight
<1> QED  BY <1>2, <1>3, <1>4 DEF Next, Repair

\* Whatever was fetched, came in, was asked for in vain or was trimmed, a
\* verdict that allows signals has all the recent candles of the listed
\* sessions, and one that blocks them lacks one (main.py:867-900).
THEOREM VerdictIsRight == Spec => []VerdictRight
<1>1. Init => VerdictRight
  BY DEF Init, VerdictRight
<1> QED  BY <1>1, VerdictStep, Invariance, PTL DEF Spec
=============================================================================
