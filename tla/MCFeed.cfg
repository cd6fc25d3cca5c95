SPECIFICATION FairSpec
CONSTANTS
  Symbols = {au, ag}
  Required = {au, ag}
  Background = TRUE
  LiveBroker = TRUE
  JoinExpires = FALSE
  Gapped = {au}
  FirstVolumes = {0, 1}
  MaxVolume = 1
  MaxTraded = 1
  MaxHidden = 1
INVARIANTS
  SessionVolumeTraded
  SessionHasQuotes
  OwnApiClosedOnce
PROPERTIES
  ClosingEnds
  PricesReachCache
