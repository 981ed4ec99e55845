SPECIFICATION Spec
CONSTANTS
  A = A
  B = B
  Symbol = {A, B}
  WindowsAgg <- MCWindowsAgg
  WindowSeconds <- MCWindowSeconds
  Window <- MCWindow
  Feeds <- MCFeeds
  Retention = 2
  MaxPoints = 4
  BroadcastCap = 1
  MaxTime = 5
  MaxFaults = 1
INVARIANTS TypeOK EveryPointStored StoredCandleIsRun ServedCandleCurrent UpdateLeavesACandle
  AnalysesAgree LoadedCandlesRollUp ResamplePartitions
PROPERTY RowsOnlyExpire
CHECK_DEADLOCK FALSE
