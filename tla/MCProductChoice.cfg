CONSTANTS
  Capital = 10
  Step = 2
  MinQuantity = 2
  Products <- MCProducts
  NoQuote = NoQuote
  Foreign = "other"
  Asks = {2, 5, 6}
  Spreads = {1, 3}
  Commissions = {0, 1}
  StopPcts = {5, 10}
  Drift = 1
  MaxAge = 2
  MaxSpread = 2
  MaxValue = 9
  MaxSlots = 1
  MaxHeld = 1
SPECIFICATION FairSpec
INVARIANT PlanIsWithinCapital
INVARIANT PlanIsTradeable
INVARIANT PlanKeepsSlots
PROPERTY ChoiceEnds
CHECK_DEADLOCK FALSE
