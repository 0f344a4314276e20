SPECIFICATION Spec
CONSTANTS
  a = a
  b = b
  Cycles = {a, b}
  Driver = "bot"
  NoCid = NoCid
  Inputs <- MCInputs
  Budget = 2
  CallMax = 1
  Rounds <- MCRounds
  MaxDebateRounds = 1
CHECK_DEADLOCK FALSE
PROPERTIES
  BudgetIsPerCycle
