SPECIFICATION Spec
CONSTANTS
  Symbols = {au}
  Contracts = {c1, c2}
  c1 = c1
  c2 = c2
  NoOrder = NoOrder
  NoContract = NoContract
  MaxOrders = 5
  RatioDen = 4
  FillRatio = 4
  PartialRatio = 1
  MaxPartialSteps = 2
  FillDelay = 2
  MaxTicksToFill = 0
  NoFill = FALSE
  RejectNext = FALSE
  RejectedSymbols = {}
  RejectAbove = 4
  MinQty = 0
  Schedule <- LateRollSchedule
  CloseOnRoll = TRUE
  Cooldown = 2
  ClosesForced = {au}
  OrderQty = 4
  PositionLimit = 0
  RiskLimited = FALSE
  CashLimited = FALSE
  MaxPendingTicks = 0
  MinInterval = 0
  MaxRejects = 0
  RejectWindow = 0
  HaltTicks = 0
  ExitsConfigured = FALSE
  StopOnException = TRUE
  Quantities = {4}
  MaxPollTick = 9
  MaxTicks = 9
INVARIANTS
  NoStrandedPosition
  ClosesCovered
  OneWorkingOpening
  ReportsMatchLedger
  PositionsMatchFills
