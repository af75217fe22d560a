CONSTANTS
  None = None
  Qty = 2
  TelegramMayFail = TRUE
  StoreFaults = {"handling", "stop", "replacement", "other"}
  LateFill = TRUE
  LateReject = TRUE
  EarlyTrigger = TRUE
  MaxFaults = 1
SPECIFICATION FairSpec
INVARIANT BracketBeforeExposure
INVARIANT ExposureIsOnDisk
INVARIANT StopBeforeExit
INVARIANT ProtectedIsRecorded
INVARIANT ExposureCovered
PROPERTY ExitMeansReplacementFailed
PROPERTY SubmissionEnds
CHECK_DEADLOCK FALSE
