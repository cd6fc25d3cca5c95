SPECIFICATION Spec
CHECK_DEADLOCK FALSE
CONSTANTS
  Symbols <- OneSymbol
  Quotes <- SomeQuotes
  NoBar = NoBar
  NoVolume = NoVolume
  SpikeWindow = 1
  BreakoutLookback = 2
  SpikeMult = 3
  SpikeDirection = "long"
  RevWindow = 2
  ZEntry = 4
  ZExit = 2
  LowVolMult = 2
  MomentumWindow = 2
  TrendVolWindow = 1
  TrendVolMult = 2
  TrendDirection = "both"
  GuardVolWindow = 2
  GuardVolMult = 2
  Den = 2
  Enabled <- ReversionEnabled
  ForceDecision <- Unforced
  NoForce = NoForce
  MaxQuotes = 5
INVARIANT
  ExitCloses
