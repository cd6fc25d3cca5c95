SPECIFICATION Spec
CONSTANTS
  Symbols = {au, ag}
  Contracts = {c1, c2}
  c1 = c1
  c2 = c2
  NoOrder = NoOrder
  NoContract = NoContract
  MaxOrders = 3
  RatioDen = 1
  FillRatio = 1
  PartialRatio = 1
  MaxPartialSteps = 1
  FillDelay = 0
  MaxTicksToFill = 0
  NoFill = FALSE
  RejectNext = FALSE
  RejectedSymbols = {}
  RejectAbove = 0
  MinQty = 0
  Schedule <- FixedSchedule
  CloseOnRoll = FALSE
  Cooldown = 0
  ClosesForced = {}
  OrderQty = 1
  PositionLimit = 2
  RiskLimited = TRUE
  CashLimited = TRUE
  MaxPendingTicks = 0
  MinInterval = 0
  MaxRejects = 2
  RejectWindow = 3
  HaltTicks = 2
  ExitsConfigured = TRUE
  StopOnException = FALSE
  Quantities = {1}
  MaxPollTick = 4
  MaxTicks = 4
INVARIANTS
  TypeOK
  PositionWithinLimit
  HaltIsQuiet
  OneOpeningPerTick
