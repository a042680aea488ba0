SPECIFICATION Spec
CONSTANTS
  Day = 3
  EarlySlip = 1
  LateSlip = 1
  BlocksPerDay = 3
  Hosts = {"server"}
  Jobs <- ServerJobs
  HostOf <- MCHostOf
  KindOf <- MCKindOf
  Scheduled <- MCScheduled
  NSources = 1
  Algorithms <- OneMarket
  CreationBlock <- MCCreation
  StartDates = {3, 7}
  Faults = {"rpc", "revert", "price", "mail", "db", "crash"}
  MaxFaults = 2
  MaxClears = 2
  MaxTime = 7
INVARIANTS
  OneJobPerHost
  LedgerInv
  RepeatsHaveACause
PROPERTIES
  CheckpointFollowsRow
  KeepsLedger
