SPECIFICATION Spec
CONSTANTS
  a = a
  b = b
  x = x
  y = y
  Cycles = {a}
  Symbols = {x, y}
  Plans <- SoloPlans
  Portfolio0 <- Holder
  OtherFills <- SoloOthers
  Decisions = {"approve", "override:buy", "override:sell", "override:hold", "expire"}
  Faults = {"crash", "db", "record", "market"}
  MaxCrashes = 2
  MaxTradePct = 10
  MaxNamePct = 25
  HitlPct = 5
  HaltPct = 3
  Mantissa = 1000000000
CHECK_DEADLOCK FALSE
INVARIANTS
  TypeOK
  HumanGate
  OneFillPerCycle
  FilledHasTrade
  ApprovalsMatch
  OneRecordPerLife
PROPERTIES
  CapHolds
  LargeWasSeen
