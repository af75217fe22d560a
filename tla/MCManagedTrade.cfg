CONSTANTS
  None = None
  Qty = 2
  TelegramMayFail = FALSE
  PassErrors = FALSE
  StoreFaults = {"stop"}
  LateFill = FALSE
  LateReject = FALSE
  EarlyTrigger = TRUE
  MaxFaults = 1
  MaxPasses = 1
SPECIFICATION BothSpec
INVARIANT ShortTakesBothFills
PROPERTY RepairUnderStop
CHECK_DEADLOCK FALSE
