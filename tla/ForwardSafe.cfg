SPECIFICATION FairSpec
CONSTANTS
  Tasks = {t1, t2}
  Setups <- MixedSetups
  MaxBodyRam = 1
  MaxBody = 3
  BufferFs = 2
  Permits = 1
  Workers = 1
  Faults <- AllFaults
INVARIANTS TypeOK InOrder SinkLimits NoLostWakeup PermitsKept AssertsHold
PROPERTIES BlocksWithPermission AllEnd
CHECK_DEADLOCK FALSE
