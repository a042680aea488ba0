SPECIFICATION MCSpec
CONSTANTS
  Clients = {"reader"}
  Endpoints = {"treasury", "v2/revenue", "v2/stats", "v2/incentives"}
  Sources = {1, 2}
  NDays = 2
  PageSize = 2
  MaxRows = 4
  MaxClears = 1
INVARIANTS
  WalkMissesNothing
  StatsHaveTheirSpends
PROPERTIES
  RevenueAgreesInsideAPage
  PricesComeFromNeighbours
