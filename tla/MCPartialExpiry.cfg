SPECIFICATION Spec
CONSTANTS
  Symbols = {au}
  Contracts = {c1, c2}
  c1 = c1
  c2 = c2
  NoOrder = NoOrder
  NoContract = NoContract
  MaxOrders = 3
  RatioDen = 2
  FillRatio = 2
  PartialRatio = 1
  MaxPartialSteps = 1
  FillDelay = 1
  MaxTicksToFill = 0
  NoFill = FALSE
  RejectNext = FALSE
  RejectedSymbols = {}
  RejectAbove = 0
  MinQty = 0
  Schedule <- FixedSchedule
  CloseOnRoll = FALSE
  Cooldown = 0
  ClosesForced = {}
  OrderQty = 2
  PositionLimit = 0
  RiskLimited = FALSE
  CashLimited = FALSE
  MaxPendingTicks = 2
  MinInterval = 0
  MaxRejects = 0
  RejectWindow = 0
  HaltTicks = 0
  ExitsConfigured = FALSE
  StopOnException = TRUE
  Quantities = {4}
  MaxPollTick = 4
  MaxTicks = 4
INVARIANTS
  PositionsMatchExecutions
