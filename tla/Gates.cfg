SPECIFICATION Spec
CONSTANTS
  a = a
  b = b
  c = c
  tech = tech
  retail = retail
  Symbols = {a, b, c}
  Cycles = {c1}
  NoSymbol = NoSymbol
  SectorOf <- SomeSectors
  Reports <- SomeReports
  MaxOpenPositions = 2
  MaxExposure = 3
  MaxSector = 3
  MaxPosition = 2
  BlackoutDays = 1
  CooldownDays = 1
  NeverDay = NeverDay
  NoDate = NoDate
  AbsenceAuthoritative = FALSE
  LastDay = 1
  MaxExits = 2
  Signals <- SomeSignals
INVARIANTS
  TypeOK
  NoEntryIntoReport
  CapsHoldWhenSettled
PROPERTY
  CooldownHonoured
