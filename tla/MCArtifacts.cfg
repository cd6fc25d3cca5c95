SPECIFICATION Spec
CHECK_DEADLOCK FALSE
CONSTANTS
  au = au
  spike = spike
  trend = trend
  NoFile = NoFile
  Torn = Torn
  Clone = Clone
  Symbols = {au}
  Strategies <- Both
  NameRank <- Ranks
  ScoreMaps <- SomeScores
  Envs = {"live", "sandbox"}
  ArtifactEvery = 1
  MaxTicks = 2
  MaxSessions = 2
  MaxApprovals = 2
INVARIANTS
  SessionKeepsItsApproval
  ProposalWeighsDisabled
PROPERTIES
  BaselineNotOlder
