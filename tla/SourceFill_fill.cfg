SPECIFICATION MCSpec
CONSTANTS
  Commands = {"first", "second"}
  NStatic = 2
  NMarkets = 1
  ComptrollerOf <- MCComptrollerOf
  NPaths = 3
  NRewards = 1
  RewardsOf <- MCRewardsOf
  Unsupported <- LastFile
  Tokens = {"USDC", "COMP"}
  TokenOf <- MCTokenOf
  Faults = {"rpc", "db", "github", "file", "crash"}
  MaxFaults = 2
  MaxChanges = 1
INVARIANTS
  SourcesAreUnique
  AssetsAreUnique
  RepeatsAreBounded
PROPERTIES
  CompletedFillMissesNothing
  RerunsFill
