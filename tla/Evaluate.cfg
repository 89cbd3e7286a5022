SPECIFICATION Spec
CONSTANTS
  strict = strict
  loose = loose
  aapl = aapl
  Limits = {strict, loose}
  NoLimits = NoLimits
  NoLock = NoLock
  Torn = Torn
  Cycles = {c1, c2}
  Symbols = {aapl}
  Bundles <- SomeBundles
  KillAt <- KillOf
  MaxActs = 3
INVARIANTS
  TypeOK
  LimitsWereApproved
  AuditAndTradeAgree
  KillLeavesHalt
PROPERTIES
  HaltStopsPlans
SYMMETRY Alike
CHECK_DEADLOCK FALSE
