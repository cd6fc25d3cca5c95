SPECIFICATION Spec
CONSTANTS
  Symbols = {au, ag}
  Contracts = {c1, c2}
  c1 = c1
  c2 = c2
  NoOrder = NoOrder
  NoContract = NoContract
  MaxOrders = 3
  RatioDen = 4
  FillRatio = 4
  PartialRatio = 2
  MaxPartialSteps = 3
  FillDelay = 0
  MaxTicksToFill = 3
  NoFill = FALSE
  RejectNext = FALSE
  RejectedSymbols = {}
  RejectAbove = 0
  MinQty = 0
  Schedule <- RollBackSchedule
  CloseOnRoll = TRUE
  Cooldown = 2
  ClosesForced = {ag}
  OrderQty = 4
  PositionLimit = 0
  RiskLimited = FALSE
  CashLimited = FALSE
  MaxPendingTicks = 4
  MinInterval = 2
  MaxRejects = 0
  RejectWindow = 0
  HaltTicks = 0
  ExitsConfigured = FALSE
  StopOnException = TRUE
  Quantities = {4}
  MaxPollTick = 5
  MaxTicks = 5
INVARIANTS
  CooldownIsQuiet
  ContextsAreLive
  EventsMatchLedger
  OpeningsSpaced
  NoOrphanOrder
  BookMatchesLedger
PROPERTIES
  ImplementsOrderBook
