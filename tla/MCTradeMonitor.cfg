CONSTANTS
  None = None
  Qty = 2
  LateFill = TRUE
  TelegramMayFail = TRUE
  OddErrors = TRUE
  StoreMayFail = TRUE
  Handlers = TRUE
  Situations = {"working", "unprotected", "replaced", "protected"}
  EntryWorks = TRUE
  MaxRestarts = 1
SPECIFICATION Spec
INVARIANT OneOrderPerKind
 
PROPERTY RetriedOnce
CHECK_DEADLOCK FALSE
