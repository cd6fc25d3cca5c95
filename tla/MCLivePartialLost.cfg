SPECIFICATION Spec
CONSTANTS
  Symbols = {au}
  NoOrder = NoOrder
  MaxOrders = 3
  Quantities = {1, 2}
  MinQty = 2
  DryRun = FALSE
  MaxPendingTicks = 2
  CashLimited = FALSE
  StopOnException = TRUE
  MaxTicks = 4
INVARIANTS
  OneWorkingOpening
