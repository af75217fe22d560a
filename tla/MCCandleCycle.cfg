CONSTANTS
  None = None
  MaxBar = 4
  MaxStarts = 2
  Modes = {"paper", "alert_only"}
  Signals = {2, 3, 4}
  Delta = 2
  MaxLag = 2
  OddBars = TRUE
  GapBlock = 1
  MinRows = 2
  MaxAge = 2
  Attempts = 2
SPECIFICATION FairSpec
INVARIANT SubmittedOnce
INVARIANT OneTradeAtATime
PROPERTY MarkerNotBehind
PROPERTY StopAtStartBlocks
PROPERTY ImplementsTradeLedger
PROPERTY RecoveryEnds
CHECK_DEADLOCK FALSE
