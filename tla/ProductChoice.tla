---------------------------- MODULE ProductChoice ----------------------------
(***************************************************************************)
(* From a signal to a trade plan: the account is read, the candidates of   *)
(* the curated list are evaluated one after the other                      *)
(* (src/src/execution/product_selector.py), and the cheapest goes to the   *)
(* risk manager (src/src/risk/risk_manager.py).                            *)
(*                                                                         *)
(* Time passes in ticks at every await.  A quote is known by its age, up   *)
(* to the age at which it is stale; a quote that is not live, crossed or   *)
(* without a price is no quote.  Costs and spreads are percentages.        *)
(***************************************************************************)
EXTENDS Sizing, Sequences, FiniteSets

CONSTANTS
    Products,   \* the enabled products of the side, in the order of the list:
                \* records of con_id, issuer_fee_pct and leverage
    NoQuote,    \* a ticker with nothing to use
    Foreign,    \* another instrument of the account
    Asks,       \* prices a product may be quoted at
    Spreads,    \* spreads it may be quoted with
    Commissions,\* commissions of a what-if order, in percent
    StopPcts,   \* distances of the stop loss of a signal, in percent
    Drift,      \* bound: how far the clock of a quote may be ahead
    MaxAge,     \* quote_max_age_seconds
    MaxSpread,  \* max_spread_pct
    MaxValue,   \* max_order_value_eur
    MaxSlots,   \* max_concurrent_position_slots
    MaxHeld     \* bound: trades at work in one instrument

Index == 1..Len(Products)
Instrument == {Products[i].con_id : i \in Index} \cup {Foreign}

ASSUME ChoiceAssumption ==
    /\ Products # <<>>
    /\ Products \in Seq([con_id : Instrument, issuer_fee_pct : Nat,
                         leverage : Nat \ {0}])
    /\ Foreign \notin {Products[i].con_id : i \in Index}
    /\ Asks \subseteq Nat \ {0}
    /\ Spreads \subseteq Nat /\ Commissions \subseteq Nat
    /\ StopPcts \subseteq Nat
    /\ Drift \in Nat /\ MaxAge \in Nat \ {0} /\ MaxSpread \in Nat
    /\ MaxValue \in Nat /\ MaxSlots \in Nat \ {0} /\ MaxHeld \in Nat

VARIABLES
    pc,         \* where the cycle is in _handle_paper_signal
    held,       \* account snapshot: trades whose position is in an instrument
    ordered,    \* account snapshot: instruments with an active order
    allowed,    \* trading.allowed_directions for the side of the signal
    stopPct,    \* underlying_sl_pct of the signal
    current,    \* the candidate being evaluated
    ticker,     \* its ticker
    waited,     \* ticks since the request for its quote
    quote,      \* the quote taken from the ticker
    accepted,   \* the evaluations that succeeded
    plan        \* the trade plan, or the reason there is none

signalVars == <<held, ordered, allowed, stopPct>>
vars == <<pc, signalVars, current, ticker, waited, quote, accepted, plan>>

Age == (-Drift)..(MaxAge + 1)
Quote == [ask : Asks, spread : Spreads, age : Age]

\* The limits of execution_products; its lists of products are Products.
ASSUME LimitsAreLoaded ==
    [quote_max_age_seconds |-> MaxAge, max_spread_pct |-> MaxSpread,
     max_order_value_eur |-> MaxValue, long |-> <<>>, short |-> <<>>]
        \in ExecutionProductsSettings

ASSUME NoQuoteAssumption == NoQuote \notin Quote

Older(age) == IF age <= MaxAge THEN age + 1 ELSE age

Aged(q) == IF q = NoQuote THEN q ELSE [q EXCEPT !.age = Older(@)]

Fresh(age) == 0 <= age /\ age <= MaxAge

----------------------------------------------------------------------------
(* The evaluation of a candidate.                                          *)

Rejected ==
    /\ current' = current + 1
    /\ pc' = IF current = Len(Products) THEN "selected" ELSE "qualify"
    /\ ticker' = NoQuote
    /\ quote' = NoQuote
    /\ UNCHANGED accepted

\* The contract is not found, or is another one than the list says.
QualifyFails ==
    /\ pc = "qualify"
    /\ Rejected
    /\ UNCHANGED <<signalVars, waited, plan>>

\* The ticker may hold a quote from before.
RequestQuote ==
    /\ pc = "qualify"
    /\ pc' = "quote"
    /\ waited' = 0
    /\ ticker' \in Quote \cup {NoQuote}
    /\ UNCHANGED <<signalVars, current, quote, accepted, plan>>

TickerUpdates ==
    /\ pc = "quote"
    /\ ticker' \in {q \in Quote : q.age <= 0} \cup {NoQuote}
    /\ UNCHANGED <<pc, signalVars, current, waited, quote, accepted, plan>>

\* Mutant: the value of the steps instead of the quantity.
OrderValueInSteps(price) == (Quantity(price) \div Step) * price

OrderValue(price) == Quantity(price) * price

\* Mutant: the spread of the candidate is not checked.
AffordableAtAnySpread(q) ==
    /\ Sizeable(q.ask)
    /\ OrderValue(q.ask) <= MaxValue

\* _validate_spread, calculate_quantity, _validate_order_value
Affordable(q) ==
    /\ q.spread <= MaxSpread
    /\ Sizeable(q.ask)
    /\ OrderValue(q.ask) <= MaxValue

\* A poll of _wait_for_quote finds a quote it can use.
QuoteTaken ==
    /\ pc = "quote"
    /\ waited <= MaxAge
    /\ ticker # NoQuote
    /\ Fresh(ticker.age)
    /\ IF Affordable(ticker)
       THEN /\ pc' = "what_if"
            /\ quote' = ticker
            /\ ticker' = NoQuote
            /\ UNCHANGED <<current, accepted>>
       ELSE Rejected
    /\ UNCHANGED <<signalVars, waited, plan>>

\* Mutant: the wait is renewed by every quote, usable or not.
QuoteMissingOnlyIfSilent ==
    /\ pc = "quote"
    /\ waited > MaxAge
    /\ ticker = NoQuote
    /\ Rejected
    /\ UNCHANGED <<signalVars, waited, plan>>

QuoteMissing ==
    /\ pc = "quote"
    /\ waited > MaxAge
    /\ Rejected
    /\ UNCHANGED <<signalVars, waited, plan>>

WhatIfFails ==
    /\ pc = "what_if"
    /\ Rejected
    /\ UNCHANGED <<signalVars, waited, plan>>

\* _commission_pct
WhatIfAnswered ==
    /\ pc = "what_if"
    /\ \E commission \in Commissions :
          accepted' = Append(accepted,
            [product |-> Products[current], ask |-> quote.ask,
             spread |-> quote.spread, age |-> quote.age,
             cost |-> quote.spread + commission
                        + Products[current].issuer_fee_pct])
    /\ current' = current + 1
    /\ pc' = IF current = Len(Products) THEN "selected" ELSE "qualify"
    /\ quote' = NoQuote
    /\ UNCHANGED <<signalVars, ticker, waited, plan>>

\* Time passes while the broker is asked.
Tick ==
    /\ pc \in {"qualify", "quote", "what_if"}
    /\ waited' = IF pc = "quote" THEN Older(waited) ELSE waited
    /\ ticker' = Aged(ticker)
    /\ quote' = Aged(quote)
    /\ accepted' = [i \in DOMAIN accepted |->
                       [accepted[i] EXCEPT !.age = Older(@)]]
    /\ UNCHANGED <<pc, signalVars, current, plan>>

----------------------------------------------------------------------------
(* The choice and the risk check.                                          *)

\* min() takes the first of the cheapest.
Cheapest(i) ==
    /\ i \in DOMAIN accepted
    /\ \A j \in DOMAIN accepted :
          \/ accepted[i].cost < accepted[j].cost
          \/ accepted[i].cost = accepted[j].cost /\ i <= j

PositionRows(con_id) == IF held[con_id] > 0 THEN 1 ELSE 0

\* Mutant: positions in other instruments are not looked at.
OwnExposureAllows(con_id) ==
    /\ ordered = {}
    /\ PositionRows(con_id) < MaxSlots

\* Nothing elsewhere, no order, and a slot left.
ExposureAllows(con_id) ==
    /\ \A x \in Instrument \ {con_id} : held[x] = 0
    /\ ordered = {}
    /\ PositionRows(con_id) < MaxSlots

\* evaluate_signal, all of whose checks are made at one moment
Approvable(candidate) ==
    /\ Fresh(candidate.age)
    /\ allowed
    /\ ExposureAllows(candidate.product.con_id)
    /\ stopPct * candidate.product.leverage < 100
    /\ Sizeable(candidate.ask)
    /\ OrderValue(candidate.ask) <= MaxValue

NoProduct ==
    /\ pc = "selected"
    /\ accepted = <<>>
    /\ plan' = [status |-> "blocked"]
    /\ pc' = "decided"
    /\ UNCHANGED <<signalVars, current, ticker, waited, quote, accepted>>

Block ==
    /\ pc = "selected"
    /\ \E i \in DOMAIN accepted : Cheapest(i) /\ ~Approvable(accepted[i])
    /\ plan' = [status |-> "blocked"]
    /\ pc' = "decided"
    /\ UNCHANGED <<signalVars, current, ticker, waited, quote, accepted>>

Approve ==
    /\ pc = "selected"
    /\ \E i \in DOMAIN accepted :
          /\ Cheapest(i)
          /\ Approvable(accepted[i])
          /\ plan' = [status |-> "approved", choice |-> accepted[i],
                      quantity |-> Quantity(accepted[i].ask)]
    /\ pc' = "decided"
    /\ UNCHANGED <<signalVars, current, ticker, waited, quote, accepted>>

Init ==
    /\ pc = "qualify"
    /\ held \in [Instrument -> 0..MaxHeld]
    /\ ordered \in SUBSET Instrument
    /\ allowed \in BOOLEAN
    /\ stopPct \in StopPcts
    /\ current = 1
    /\ ticker = NoQuote
    /\ waited = 0
    /\ quote = NoQuote
    /\ accepted = <<>>
    /\ plan = [status |-> "none"]

Evaluation ==
    \/ QualifyFails \/ RequestQuote \/ QuoteTaken \/ QuoteMissing
    \/ WhatIfFails \/ WhatIfAnswered

Decision == NoProduct \/ Block \/ Approve

Next == Evaluation \/ Decision \/ TickerUpdates \/ Tick

Spec == Init /\ [][Next]_vars

\* The broker answers every request, the loop is resumed, time passes.
FairSpec == Spec /\ WF_vars(Evaluation) /\ WF_vars(Decision) /\ WF_vars(Tick)

----------------------------------------------------------------------------
(* Properties.                                                             *)

Candidate == [product : {Products[i] : i \in Index}, ask : Asks,
              spread : Spreads, age : Age, cost : Nat]

\* Every variable has its type.
TypeOK ==
    /\ pc \in {"qualify", "quote", "what_if", "selected", "decided"}
    /\ held \in [Instrument -> 0..MaxHeld] /\ ordered \subseteq Instrument
    /\ allowed \in BOOLEAN /\ stopPct \in StopPcts
    /\ current \in 1..(Len(Products) + 1)
    /\ ticker \in Quote \cup {NoQuote} /\ quote \in Quote \cup {NoQuote}
    /\ waited \in 0..(MaxAge + 1)
    /\ accepted \in Seq(Candidate) /\ Len(accepted) < current
    /\ plan \in [status : {"none", "blocked"}]
             \cup [status : {"approved"}, choice : Candidate, quantity : Nat]

Approved == plan.status = "approved"

\* sizing, max_order_value_eur: whatever the price is, an approved order costs
\* at most the capital of its slot and the limit of an order, and its quantity
\* is at least the minimum and a multiple of the step.
PlanIsWithinCapital ==
    Approved => /\ plan.quantity * plan.choice.ask <= Capital
                /\ plan.quantity * plan.choice.ask <= MaxValue
                /\ plan.quantity >= MinQuantity
                /\ plan.quantity % Step = 0

\* PROJECT_PLAN.md ("no stale-data trades"): a plan rests on a quote that is
\* recent when it is made, of a product whose spread was accepted, and the
\* stop loss of the product is one that can be placed.
PlanIsTradeable ==
    Approved => /\ Fresh(plan.choice.age)
                /\ plan.choice.spread <= MaxSpread
                /\ stopPct * plan.choice.product.leverage < 100

\* RiskManager, "slots": however many slots there are, the trades at work in the
\* account when it was read, wherever they are, are all in the product of the
\* plan, no order is at work, and with one slot there is none.  How many
\* of them share that product is not counted.
PlanKeepsSlots ==
    Approved => /\ ordered = {}
                /\ \A x \in Instrument : held[x] > 0 =>
                       x = plan.choice.product.con_id /\ MaxSlots > 1

\* _wait_for_quote: a signal is decided, however its tickers behave.
ChoiceEnds == <>(pc = "decided")

\* product_selector.py, "Select the cheapest safe execution product": a signal
\* is not blocked while one of the products found valid could be traded.
UsableIsTraded ==
    plan.status = "blocked" =>
        ~\E i \in DOMAIN accepted : Approvable(accepted[i])
=============================================================================
