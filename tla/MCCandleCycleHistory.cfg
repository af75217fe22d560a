CONSTANTS
  None = None
  MaxBar = 4
  MaxStarts = 2
  Modes = {"paper"}
  Signals = {3, 4}
  Delta = 1
  MaxLag = 0
  OddBars = FALSE
  GapBlock = 1
  MinRows = 2
  MaxAge = 2
  Attempts = 2
SPECIFICATION Spec
PROPERTY HistorySkipped
CHECK_DEADLOCK FALSE
