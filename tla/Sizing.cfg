SPECIFICATION Spec
CONSTANTS
  RiskPct = 1
  MaxPositionPct = 25
  MaxSectorPct = 25
  MaxStopPct = 12
  MinOrder = 100
  MaxOrder = 2500
  ShareLots = 1000
  NoStop = NoStop
  Deals <- SomeDeals
  Penalties <- SomePenalties
INVARIANTS
  TypeOK
  BuyWithinLimits
  CriticAgrees
  RaisesOnlyAtZero
  ExitSellsWhatIsHeld
  LiveBuyWithinReach
