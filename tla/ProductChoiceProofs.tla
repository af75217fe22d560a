------------------------- MODULE ProductChoiceProofs -------------------------
(***************************************************************************)
(* What a trade plan satisfies, for every list of products, every price,   *)
(* every age of a quote and every setting.                                 *)
(***************************************************************************)
EXTENDS ProductChoice, TLAPS

\* Rounding down to whole steps never spends more than the capital, and the
\* result is a multiple of the step.
LEMMA QuantityFits ==
    ASSUME NEW price \in Nat \ {0}
    PROVE  /\ Quantity(price) \in Nat
           /\ Quantity(price) * price <= Capital
           /\ \E k \in Nat : Quantity(price) = k * Step
<1> DEFINE unit == price * Step
           k == Capital \div unit
<1>1. Step \in Nat \ {0} /\ Capital \in Nat
  BY SizingAssumption
<1>2. unit \in Nat \ {0}
  BY <1>1
<1> HIDE DEF unit
<1>3. k \in Nat /\ k * unit <= Capital
  BY <1>1, <1>2
<1> HIDE DEF k
<1>4. Quantity(price) = k * Step
  BY DEF Quantity, k, unit
<1>5. k * Step \in Nat
  BY <1>1, <1>3
<1>6. (k * Step) * price = k * unit
  BY <1>1, <1>3 DEF unit
<1> QED  BY <1>3, <1>4, <1>5, <1>6

LEMMA MultipleOfStep ==
    ASSUME NEW k \in Nat
    PROVE  (k * Step) % Step = 0
  BY SizingAssumption

\* An aged quote has an age, and the price and the spread it had.
LEMMA AgedQuote ==
    ASSUME NEW q \in Quote
    PROVE  /\ Aged(q) \in Quote
           /\ Aged(q).ask = q.ask /\ Aged(q).spread = q.spread
<1>1. q # NoQuote
  BY NoQuoteAssumption
<1>2. Drift \in Nat /\ MaxAge \in Nat
  BY ChoiceAssumption
<1>3. Older(q.age) \in Age
  BY <1>2 DEF Older, Age, Quote
<1>4. Aged(q) = [q EXCEPT !.age = Older(q.age)]
  BY <1>1 DEF Aged
<1> QED  BY <1>3, <1>4 DEF Quote

LEMMA AgedTicker ==
    ASSUME NEW q \in Quote \cup {NoQuote}
    PROVE  Aged(q) \in Quote \cup {NoQuote}
  BY AgedQuote DEF Aged

----------------------------------------------------------------------------
(* The invariant.                                                          *)

Asking == pc \in {"qualify", "quote", "what_if"}

\* What is asked about is a product of the list.
InList == Asking => current \in Index

\* A what-if order is asked for a quote that has passed the checks, and so
\* is every product found valid.
Vetted ==
    /\ pc = "what_if" => quote \in Quote /\ quote.spread <= MaxSpread
    /\ \A i \in DOMAIN accepted : accepted[i].spread <= MaxSpread

PInv == TypeOK /\ InList /\ Vetted /\ PlanIsWithinCapital /\ PlanIsTradeable

LEMMA InitPInv == Init => PInv
<1> SUFFICES ASSUME Init PROVE PInv
  OBVIOUS
<1> USE DEF Init
<1>1. Len(Products) \in Nat /\ Len(Products) >= 1
  BY ChoiceAssumption
<1>2. accepted \in Seq(Candidate) /\ Len(accepted) = 0
  OBVIOUS
<1>3. 0 \in 0..(MaxAge + 1)
  BY ChoiceAssumption
<1>4. TypeOK
  BY <1>1, <1>2, <1>3 DEF TypeOK
<1>5. InList /\ Vetted
  BY <1>1, <1>2 DEF InList, Asking, Index, Vetted
<1> QED  BY <1>4, <1>5 DEF PInv, PlanIsWithinCapital, PlanIsTradeable, Approved

\* The types of an evaluation that is over without a result.
LEMMA RejectedStep ==
    ASSUME PInv, Asking, Rejected, UNCHANGED <<signalVars, waited, plan>>
    PROVE  PInv'
<1> USE DEF PInv
<1>1. current \in 1..Len(Products) /\ Len(Products) \in Nat
  BY ChoiceAssumption DEF InList, Index
<1>2. /\ current' = current + 1 /\ ticker' = NoQuote /\ quote' = NoQuote
      /\ accepted' = accepted
      /\ pc' = IF current = Len(Products) THEN "selected" ELSE "qualify"
  BY DEF Rejected
<1>3. current' \in 1..(Len(Products) + 1) /\ Len(accepted') < current'
  BY <1>1, <1>2 DEF TypeOK
<1>4. TypeOK'
  BY <1>2, <1>3 DEF TypeOK, signalVars
<1>5. InList'
  BY <1>1, <1>2 DEF InList, Asking, Index
<1>6. Vetted'
  BY <1>2 DEF Vetted
<1> QED  BY <1>4, <1>5, <1>6
         DEF PlanIsWithinCapital, PlanIsTradeable, Approved, signalVars

LEMMA WhatIfAnsweredStep == ASSUME PInv, WhatIfAnswered PROVE PInv'
<1> USE DEF PInv
<1>1. /\ current \in 1..Len(Products) /\ Len(Products) \in Nat
      /\ quote \in Quote /\ quote.spread <= MaxSpread
  BY ChoiceAssumption DEF WhatIfAnswered, InList, Asking, Index, Vetted
<1>2. PICK commission \in Commissions :
          accepted' = Append(accepted,
            [product |-> Products[current], ask |-> quote.ask,
             spread |-> quote.spread, age |-> quote.age,
             cost |-> quote.spread + commission
                        + Products[current].issuer_fee_pct])
  BY DEF WhatIfAnswered
<1> DEFINE cost == quote.spread + commission + Products[current].issuer_fee_pct
           added == [product |-> Products[current], ask |-> quote.ask,
                     spread |-> quote.spread, age |-> quote.age, cost |-> cost]
<1>3. cost \in Nat
  <2>1. Products[current] \in
            [con_id : Instrument, issuer_fee_pct : Nat, leverage : Nat \ {0}]
    <3> DEFINE R ==
            [con_id : Instrument, issuer_fee_pct : Nat, leverage : Nat \ {0}]
    <3>1. Products \in Seq(R)
      BY ChoiceAssumption
    <3> HIDE DEF R
    <3>2. Products[current] \in R
      BY <1>1, <3>1
    <3> QED  BY <3>2 DEF R
  <2>2. quote.spread \in Nat /\ commission \in Nat
    BY <1>1, ChoiceAssumption DEF Quote
  <2> QED  BY <2>1, <2>2
<1> HIDE DEF cost
<1>4. added \in Candidate /\ added.spread <= MaxSpread
  BY <1>1, <1>3 DEF Candidate, Quote, Index
<1>5. accepted' = Append(accepted, added)
  BY <1>2 DEF cost
<1> HIDE DEF added
<1>6. /\ accepted \in Seq(Candidate) /\ accepted' \in Seq(Candidate)
      /\ Len(accepted') = Len(accepted) + 1
      /\ \A i \in DOMAIN accepted' :
            \/ i \in DOMAIN accepted /\ accepted'[i] = accepted[i]
            \/ accepted'[i] = added
  BY <1>4, <1>5 DEF TypeOK
<1>7. /\ current' = current + 1 /\ quote' = NoQuote
      /\ pc' = IF current = Len(Products) THEN "selected" ELSE "qualify"
      /\ UNCHANGED <<signalVars, ticker, waited, plan>>
  BY DEF WhatIfAnswered
<1>8. current' \in 1..(Len(Products) + 1) /\ Len(accepted') < current'
  BY <1>1, <1>6, <1>7 DEF TypeOK
<1>9. TypeOK'
  BY <1>6, <1>7, <1>8 DEF TypeOK, signalVars
<1>10. InList'
  BY <1>1, <1>7 DEF InList, Asking, Index
<1>11. Vetted'
  BY <1>4, <1>6, <1>7 DEF Vetted
<1> QED  BY <1>7, <1>9, <1>10, <1>11
         DEF PlanIsWithinCapital, PlanIsTradeable, Approved, signalVars

LEMMA TickStep == ASSUME PInv, Tick PROVE PInv'
<1> USE DEF PInv
<1>1. /\ UNCHANGED <<pc, signalVars, current, plan>>
      /\ ticker' = Aged(ticker) /\ quote' = Aged(quote)
      /\ waited' = IF pc = "quote" THEN Older(waited) ELSE waited
      /\ accepted' = [i \in DOMAIN accepted |->
                         [accepted[i] EXCEPT !.age = Older(accepted[i].age)]]
  BY DEF Tick
<1>2. waited' \in 0..(MaxAge + 1)
  <2>1. waited \in 0..(MaxAge + 1) /\ MaxAge \in Nat
    BY ChoiceAssumption DEF TypeOK
  <2>2. Older(waited) \in 0..(MaxAge + 1)
    BY <2>1 DEF Older
  <2> QED  BY <1>1, <2>1, <2>2
<1>3. ticker' \in Quote \cup {NoQuote} /\ quote' \in Quote \cup {NoQuote}
  BY <1>1, AgedTicker DEF TypeOK
<1>4. ASSUME NEW c \in Candidate
      PROVE  /\ [c EXCEPT !.age = Older(c.age)] \in Candidate
             /\ [c EXCEPT !.age = Older(c.age)].spread = c.spread
  <2>1. Older(c.age) \in Age
    BY ChoiceAssumption DEF Candidate, Older, Age
  <2> QED  BY <2>1 DEF Candidate
<1>5. accepted \in Seq(Candidate) /\ DOMAIN accepted = 1..Len(accepted)
  BY DEF TypeOK
<1>6. \A i \in DOMAIN accepted : accepted[i] \in Candidate
  BY <1>5
<1>7. /\ accepted' \in Seq(Candidate) /\ Len(accepted') = Len(accepted)
      /\ \A i \in DOMAIN accepted' :
            i \in DOMAIN accepted /\ accepted'[i].spread = accepted[i].spread
  <2>1. \A i \in 1..Len(accepted) :
            /\ accepted'[i] \in Candidate
            /\ accepted'[i].spread = accepted[i].spread
    BY <1>1, <1>4, <1>5, <1>6
  <2>2. Len(accepted) \in Nat
    BY <1>5
  <2>3. accepted' = [i \in 1..Len(accepted) |-> accepted'[i]]
    BY <1>1, <1>5
  <2>4. accepted' \in [1..Len(accepted) -> Candidate]
    BY <2>1, <2>3
  <2>5. accepted' \in Seq(Candidate) /\ Len(accepted') = Len(accepted)
    BY <2>2, <2>4
  <2> QED  BY <2>1, <2>4, <2>5, <1>5
<1>8. TypeOK'
  BY <1>1, <1>2, <1>3, <1>7 DEF TypeOK, signalVars
<1>9. Vetted'
  BY <1>1, <1>7, AgedQuote DEF Vetted
<1> QED  BY <1>1, <1>8, <1>9 DEF InList, Asking, PlanIsWithinCapital,
         PlanIsTradeable, Approved, signalVars

LEMMA ApproveStep == ASSUME PInv, Approve PROVE PInv'
<1> USE DEF PInv
<1>1. PICK i \in DOMAIN accepted :
          /\ Approvable(accepted[i])
          /\ plan' = [status |-> "approved", choice |-> accepted[i],
                      quantity |-> Quantity(accepted[i].ask)]
  BY DEF Approve
<1>2. /\ pc' = "decided"
      /\ UNCHANGED <<signalVars, current, ticker, waited, quote, accepted>>
  BY DEF Approve
<1> DEFINE c == accepted[i]
<1>3. c \in Candidate /\ c.spread <= MaxSpread
  BY DEF TypeOK, Vetted
<1>4. /\ Fresh(c.age) /\ stopPct * c.product.leverage < 100
      /\ Sizeable(c.ask) /\ OrderValue(c.ask) <= MaxValue
  BY <1>1 DEF Approvable
<1>5. plan' = [status |-> "approved", choice |-> c,
               quantity |-> Quantity(c.ask)]
  BY <1>1
<1> HIDE DEF c
<1>6. c.ask \in Nat \ {0}
  BY <1>3, ChoiceAssumption DEF Candidate
<1>7. /\ Quantity(c.ask) \in Nat
      /\ Quantity(c.ask) * c.ask <= Capital
      /\ Quantity(c.ask) % Step = 0
  BY <1>6, QuantityFits, MultipleOfStep
<1>8. TypeOK'
  BY <1>2, <1>3, <1>5, <1>7 DEF TypeOK, signalVars
<1>9. PlanIsWithinCapital'
  BY <1>4, <1>5, <1>7 DEF PlanIsWithinCapital, Sizeable, OrderValue
<1>10. PlanIsTradeable'
  BY <1>2, <1>3, <1>4, <1>5 DEF PlanIsTradeable, signalVars
<1> QED  BY <1>2, <1>8, <1>9, <1>10 DEF InList, Asking, Vetted

LEMMA NextPInv == PInv /\ [Next]_vars => PInv'
<1> SUFFICES ASSUME PInv, [Next]_vars PROVE PInv'
  OBVIOUS
<1> USE DEF PInv
<1>1. CASE QualifyFails \/ QuoteMissing \/ WhatIfFails
  BY <1>1, RejectedStep DEF QualifyFails, QuoteMissing, WhatIfFails, Asking
<1>2. CASE RequestQuote
  <2>1. /\ pc = "qualify" /\ pc' = "quote" /\ waited' = 0
        /\ ticker' \in Quote \cup {NoQuote}
        /\ UNCHANGED <<signalVars, current, quote, accepted, plan>>
    BY <1>2 DEF RequestQuote
  <2>2. 0 \in 0..(MaxAge + 1)
    BY ChoiceAssumption
  <2>3. TypeOK'
    BY <2>1, <2>2 DEF TypeOK, signalVars
  <2> QED  BY <2>1, <2>3 DEF InList, Asking, Vetted, PlanIsWithinCapital,
           PlanIsTradeable, Approved, signalVars
<1>3. CASE QuoteTaken
  <2>1. CASE Affordable(ticker)
    <3>1. /\ pc' = "what_if" /\ quote' = ticker /\ ticker' = NoQuote
          /\ UNCHANGED <<signalVars, waited, plan, current, accepted>>
          /\ pc = "quote"
      BY <1>3, <2>1 DEF QuoteTaken
    <3>2. ticker \in Quote /\ ticker.spread <= MaxSpread
      BY <1>3, <2>1 DEF QuoteTaken, Affordable, TypeOK
    <3>3. TypeOK'
      BY <3>1, <3>2 DEF TypeOK, signalVars
    <3> QED  BY <3>1, <3>2, <3>3 DEF InList, Asking, Vetted,
             PlanIsWithinCapital, PlanIsTradeable, Approved, signalVars
  <2>2. CASE ~Affordable(ticker)
    BY <1>3, <2>2, RejectedStep DEF QuoteTaken, Asking
  <2> QED  BY <2>1, <2>2
<1>4. CASE WhatIfAnswered
  BY <1>4, WhatIfAnsweredStep
<1>5. CASE NoProduct \/ Block
  <2>1. /\ pc' = "decided" /\ plan' = [status |-> "blocked"]
        /\ UNCHANGED <<signalVars, current, ticker, waited, quote, accepted>>
    BY <1>5 DEF NoProduct, Block
  <2>2. TypeOK'
    BY <2>1 DEF TypeOK, signalVars
  <2> QED  BY <2>1, <2>2 DEF InList, Asking, Vetted, PlanIsWithinCapital,
           PlanIsTradeable, Approved
<1>6. CASE Approve
  BY <1>6, ApproveStep
<1>7. CASE TickerUpdates
  <2>1. ticker' \in Quote \cup {NoQuote}
    BY <1>7 DEF TickerUpdates
  <2>2. UNCHANGED <<pc, signalVars, current, waited, quote, accepted, plan>>
    BY <1>7 DEF TickerUpdates
  <2> QED  BY <2>1, <2>2 DEF TypeOK, InList, Asking, Vetted,
           PlanIsWithinCapital, PlanIsTradeable, Approved, signalVars
<1>8. CASE Tick
  BY <1>8, TickStep
<1>9. CASE UNCHANGED vars
  BY <1>9 DEF vars, TypeOK, InList, Asking, Vetted, PlanIsWithinCapital,
     PlanIsTradeable, Approved, signalVars
<1> QED  BY <1>1, <1>2, <1>3, <1>4, <1>5, <1>6, <1>7, <1>8, <1>9
         DEF Next, Evaluation, Decision

\* The invariant holds throughout.
THEOREM PlanInvariance == Spec => []PInv
  BY InitPInv, NextPInv, PTL DEF Spec

\* The types of every variable.
THEOREM TypeCorrect == Spec => []TypeOK
<1>1. PInv => TypeOK
  BY DEF PInv
<1> QED  BY <1>1, PlanInvariance, PTL

\* Rounding never spends more than the capital of a slot, an order is within
\* max_order_value_eur, and its quantity can be ordered (sizing.py:39-79,
\* risk_manager.py:157-172).
THEOREM WithinCapital == Spec => []PlanIsWithinCapital
<1>1. PInv => PlanIsWithinCapital
  BY DEF PInv
<1> QED  BY <1>1, PlanInvariance, PTL

\* A plan rests on a quote recent when it is made, however long the other
\* products took to evaluate, and on a spread that was accepted
\* (product_selector.py:83-111, risk_manager.py:115-155).
THEOREM Tradeable == Spec => []PlanIsTradeable
<1>1. PInv => PlanIsTradeable
  BY DEF PInv
<1> QED  BY <1>1, PlanInvariance, PTL

\* For every number of slots: a plan is made only when the account has no order
\* and all that it holds is in the product of the plan, and with the single slot
\* of settings.yml:50 only when it holds nothing (risk_manager.py:135-149).
THEOREM SlotsKept == Spec => []PlanKeepsSlots
<1> DEFINE SInv == held \in [Instrument -> 0..MaxHeld] /\ PlanKeepsSlots
<1>1. Init => SInv
  BY DEF Init, PlanKeepsSlots, Approved
<1>2. SInv /\ [Next]_vars => SInv'
  <2> SUFFICES ASSUME SInv, [Next]_vars PROVE SInv'
    OBVIOUS
  <2>1. held' = held /\ ordered' = ordered
    BY DEF Next, Evaluation, Decision, QualifyFails, RequestQuote, QuoteTaken,
       QuoteMissing, WhatIfFails, WhatIfAnswered, NoProduct, Block, Approve,
       TickerUpdates, Tick, signalVars, vars
  <2>2. CASE plan' = plan
    BY <2>1, <2>2 DEF PlanKeepsSlots, Approved
  <2>3. CASE plan' = [status |-> "blocked"]
    BY <2>1, <2>3 DEF PlanKeepsSlots, Approved
  <2>4. CASE Approve
    <3>1. PICK i \in DOMAIN accepted :
              /\ ExposureAllows(accepted[i].product.con_id)
              /\ plan'.choice = accepted[i]
      BY <2>4 DEF Approve, Approvable
    <3> DEFINE x == accepted[i].product.con_id
    <3>2. \A y \in Instrument \ {x} : held[y] = 0
      BY <3>1 DEF ExposureAllows
    <3>3. ordered = {} /\ PositionRows(x) < MaxSlots
      BY <3>1 DEF ExposureAllows
    <3>4. held[x] > 0 => MaxSlots > 1
      BY <3>3, ChoiceAssumption DEF PositionRows
    <3>5. \A y \in Instrument : held[y] > 0 => y = x /\ MaxSlots > 1
      BY <3>2, <3>4
    <3> QED  BY <2>1, <3>1, <3>3, <3>5 DEF PlanKeepsSlots
  <2>5. plan' = plan \/ plan' = [status |-> "blocked"] \/ Approve
    BY DEF Next, Evaluation, Decision, QualifyFails, RequestQuote, QuoteTaken,
       QuoteMissing, WhatIfFails, WhatIfAnswered, NoProduct, Block,
       TickerUpdates, Tick, vars
  <2> QED  BY <2>2, <2>3, <2>4, <2>5
<1>3. SInv => PlanKeepsSlots
  OBVIOUS
<1> QED  BY <1>1, <1>2, <1>3, PTL DEF Spec
=============================================================================
