SPECIFICATION Spec
CONSTANTS
  low = low
  high = high
  a = a
  b = b
  c = c
  d = d
  e = e
  tech = tech
  energy = energy
  unknown = unknown
  Symbols = {a, b, c, d, e}
  NoSymbol = NoSymbol
  Shards = {low, high}
  SectorOf <- SomeSectors
  MaxRows = 3
  RequireComplete = TRUE
  FundamentalsBudget = 3
  Budgets = {0, 1, 2, 3}
  SectorCaps = {1, 99}
  DefaultCap = 99
  UnknownSector = unknown
  Rank <- RankOf
  Worlds <- SomeWorlds
  FetchOrders <- SomeOrders
  MaxEdits = 1
INVARIANTS
  TypeOK
  UniverseCovered
  EveryCandidateAccounted
  SelectionFair
CHECK_DEADLOCK FALSE
