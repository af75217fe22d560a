CONSTANTS
  None = None
  Holder = {cycle, monitor}
  Candle = {c1}
  Signal = {g1}
  OrderId = {o1}
  Key = {"signal_id"}
  Val = {"s1"}
  TradeDict <- MCTradeDict
  MaxClock = 3
SYMMETRY HolderSymmetry
SPECIFICATION Spec
INVARIANTS
  UnchangedCopyIsCurrent
PROPERTIES
  CriticalFieldsKept
  ImplementsFreshStore
CHECK_DEADLOCK FALSE
