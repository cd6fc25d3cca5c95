SPECIFICATION Spec
CONSTANTS
  RuntimeId = "r1"
  MainAlias = {"au_main", "ag_main"}
  Dotted = {"SHFE.au2508"}
  KnownStrategies = {"simple_strategy"}
  KnownSpecs = {"au", "ag"}
  Credentials = TRUE
  None = None
  Malformed = Malformed
  Symbol = "au"
  Contracts = {"au_main", "au_next", "SHFE.au2508"}
  Quantity = 1
  TickSize = 24
  Multiplier = 1
  SlippageTicks = 1
  Commission = 1
  MarginDivisor = 12
  InitialEquity = 150
  CommandLines <- MCCommandLines
  LocalTicks = 1
  Signals <- MCSignals
  MarketPrices = {48, 72}
  Balances = {200}
  MaxStarts = 2
  MaxClock = 2
CHECK_DEADLOCK FALSE
INVARIANTS
  RealOrdersConfirmed
  ManifestTellsItsRun
  CleanRunJudgesItself
  SandboxStartsFromLive
  ProfitConserved
PROPERTIES
  OpeningWithinMargin
