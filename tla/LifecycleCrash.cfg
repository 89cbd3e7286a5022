SPECIFICATION Spec
CONSTANTS
  Entries = {e1}
  Quantities <- Quantities2
  WholeQuantities <- Whole2
  Sessions = {s1, s2}
  NoEntry = NoEntry
  FillStops = {"below", "atOrAbove", "none"}
  TradeModes = {"live", "shadow"}
  StrategyExits = TRUE
  Careful = FALSE
  MaxCrashes = 1
INVARIANTS
  TypeOK
  WriteAhead
  ProtectedOnEvidence
  TradeNotAheadOfStop
  MemoryHolds
PROPERTIES
  GuardReleases
  ResolutionIsFinal
  ImplementsLedger
