SPECIFICATION FairSpec
CONSTANTS
  NOracles = 1
  WithAsset = {1}
  Aggregations = {1, 2}
  Cases <- MCCases
  Channels = {"mail", "telegram"}
  Cooldown = 2
  DayLength = 2
  Faults = {"rpc", "db", "mail", "telegram", "stall", "crash"}
  MaxFaults = 1
  MaxTime = 2
INVARIANTS
  TypeOK
  SentIsDelivered
  AggregateIsOfItsDay
  OneAggregatePerDay
PROPERTIES
  NotRepeated
  AggregatesGrow
  LockIsFreed
  LastDayIsAggregated
