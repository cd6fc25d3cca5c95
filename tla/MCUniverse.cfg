SPECIFICATION Spec
CHECK_DEADLOCK FALSE
CONSTANTS
  Symbols <- Two
  Strategies <- Three
  Configured <- Pairs
  SymbolRank <- Ranks
  NameRank <- Names
  Priority <- Priorities
  Weight <- Weights
  TieBreaker = "priority"
  Modes <- AllModes
  EnabledMaps <- Approved
  TopNs = {0, 1}
  RefreshEvery = 2
  Opinions <- SomeOpinions
  MaxTicks = 3
INVARIANTS
  EnabledNotShadowed
  RankingIsTradable
  ConflictsAreSafe
