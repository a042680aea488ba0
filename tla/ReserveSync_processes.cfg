SPECIFICATION FairSpec
CONSTANTS
  Day = 3
  EarlySlip = 1
  LateSlip = 0
  BlocksPerDay = 3
  Hosts = {"server", "cliProcess"}
  Jobs <- TwoProcesses
  HostOf <- MCHostOf
  KindOf <- MCKindOf
  Scheduled <- MCScheduled
  NSources = 1
  Algorithms <- OneMarket
  CreationBlock <- MCCreation
  StartDates = {}
  Faults = {"rpc", "price", "crash"}
  MaxFaults = 1
  MaxClears = 0
  MaxTime = 6
INVARIANTS
  NoSilentGap
  FailedPriceIsRetried
PROPERTIES
  LockIsReleased
  CatchesUp
