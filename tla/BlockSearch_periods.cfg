SPECIFICATION FairSpec
CONSTANTS
  HeadBlock = 8
  Gaps = {1, 3}
  Chains <- MCChains
  Instants = {1, 9, 15}
  Networks = {"arbitrum"}
  AvgBlockTime = 2
  Slip = 2
  Margin = 2
  MaxProbes = 2
  Periods <- MCPeriods
  LongRange = 2
  LongSpan = 5
  Near = 2
  MaxFailures = 0
CHECK_DEADLOCK FALSE
PROPERTY
  EveryCallEnds
