SPECIFICATION Spec
CONSTANTS
  Lookers = {"server"}
  Reloaders = {"command"}
  StartDay = 2
  MaxDay = 3
  Listed = 1
  History = 1
  OldAge = 2
  Window = 1
  Faults = {"provider", "redis", "db", "crash"}
  MaxFaults = 2
  MaxReloads = 1
INVARIANTS
  TypeOK
  ExactPricesAreKept
  OnePricePerDay
  PriceIsStable
