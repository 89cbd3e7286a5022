SPECIFICATION Spec
CONSTANTS
  Entries = {e1}
  Quantities <- Quantities2
  WholeQuantities <- Whole2
  Sessions = {s1}
  NoEntry = NoEntry
  FillStops = {"below"}
  TradeModes = {"live"}
  StrategyExits = FALSE
  Careful = TRUE
  MaxCrashes = 0
PROPERTY FlattensWhatIsOpen
