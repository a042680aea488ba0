SPECIFICATION Spec
CONSTANTS
  Day = 3
  EarlySlip = 1
  LateSlip = 0
  BlocksPerDay = 3
  Hosts = {"server"}
  Jobs <- ServerJobs
  HostOf <- MCHostOf
  KindOf <- MCKindOf
  Scheduled <- MCScheduled
  NSources = 1
  Algorithms <- OneMarket
  CreationBlock <- MCCreation
  StartDates = {3, 4}
  Faults = {}
  MaxFaults = 0
  MaxClears = 0
  MaxTime = 7
INVARIANT
  OneRowPerDay
