SPECIFICATION FairSpec
CONSTANTS
  Entries = {e1}
  Quantities <- Quantities4
  WholeQuantities <- Whole4
  Sessions = {s1}
  NoEntry = NoEntry
  FillStops = {"below", "atOrAbove"}
  TradeModes = {"live"}
  StrategyExits = TRUE
  Careful = TRUE
  MaxCrashes = 1
INVARIANTS
  FailedDoesNotRest
  OneRestingStop
PROPERTIES
  FillReachesJournal
  ExposureEnds
