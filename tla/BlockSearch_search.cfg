SPECIFICATION FairSpec
CONSTANTS
  HeadBlock = 8
  Gaps = {1, 3}
  Chains <- MCChains
  Instants = {1, 9, 15}
  Networks = {"plain", "arbitrum", "scroll"}
  AvgBlockTime = 2
  Slip = 2
  Margin = 2
  MaxProbes = 2
  Periods <- MCPeriods
  LongRange = 2
  LongSpan = 5
  Near = 2
  MaxFailures = 1
CHECK_DEADLOCK FALSE
INVARIANTS
  ProbesAreSound
  ResultStandsForTarget
  CreationIsFound
PROPERTIES
  EndsUnlessStuck
