CONSTANTS
  None = None
  Qty = 2
  LateFill = TRUE
  TelegramMayFail = TRUE
  OddErrors = TRUE
  StoreMayFail = TRUE
  Handlers = FALSE
  Situations = {"unprotected", "replaced"}
  EntryWorks = FALSE
  MaxRestarts = 1
SPECIFICATION FairSpec
PROPERTY LossIsAnswered
CHECK_DEADLOCK FALSE
