CONSTANTS
  None = None
  Qty = 2
  LateFill = TRUE
  TelegramMayFail = FALSE
  OddErrors = FALSE
  StoreMayFail = FALSE
  Handlers = TRUE
  Situations = {"working"}
  EntryWorks = TRUE
  MaxRestarts = 0
SPECIFICATION Spec
INVARIANT HeldIsMonitored
CHECK_DEADLOCK FALSE
