CONSTANTS
  Chats = 2
  MaxRetries = 1
  Enabled = TRUE
  OddErrors = TRUE
  Configs <- MCConfigs
  Limit = 2
  StoreMayFail = TRUE
SPECIFICATION FairSpec
INVARIANT TradesOnCheckedAccount
INVARIANT RecoveryFailsClosed
INVARIANT NoMonitorInRecovery
INVARIANT DeliveredToAll
PROPERTY SnapshotComplete
PROPERTY RecoveredOnNewConnection
PROPERTY FailureEnds
CHECK_DEADLOCK FALSE
