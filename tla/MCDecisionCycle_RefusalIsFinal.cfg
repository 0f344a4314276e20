SPECIFICATION Spec
CONSTANTS
  a = a
  b = b
  x = x
  y = y
  Cycles = {a, b}
  Symbols = {x, y}
  Plans <- PairPlans
  Portfolio0 <- Rich
  OtherFills = {}
  Decisions = {"approve", "override:hold", "expire"}
  Faults = {"crash"}
  MaxCrashes = 1
  MaxTradePct = 10
  MaxNamePct = 25
  HitlPct = 5
  HaltPct = 3
  Mantissa = 1000000000
CHECK_DEADLOCK FALSE
PROPERTIES
  RefusalIsFinal
