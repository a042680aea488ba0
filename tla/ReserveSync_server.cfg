SPECIFICATION Spec
CONSTANTS
  Day = 3
  EarlySlip = 0
  LateSlip = 0
  BlocksPerDay = 4
  Hosts = {"server"}
  Jobs <- ServerJobs
  HostOf <- MCHostOf
  KindOf <- MCKindOf
  Scheduled <- MCScheduled
  NSources = 2
  Algorithms <- TwoSources
  CreationBlock <- MCCreation
  StartDates = {3, 4}
  Faults = {"rpc", "revert", "invalid", "price"}
  MaxFaults = 2
  MaxClears = 1
  MaxTime = 10
INVARIANTS
  TypeOK
  RowsAreNearTheirDay
PROPERTIES
  CheckpointMovesBackToClear
