SPECIFICATION Spec
CONSTANTS
  Day = 3
  EarlySlip = 1
  LateSlip = 1
  BlocksPerDay = 3
  Collectors = {"server"}
  NSources = 1
  CreationBlock <- MCCreation
  StartDates = {4}
  Faults = {"rpc", "revert", "price", "mail", "db", "crash"}
  MaxFaults = 3
  MaxClears = 2
  MaxTime = 9
INVARIANTS
  NoHole
  IncomesAreNotRepeated
