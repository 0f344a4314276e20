SPECIFICATION FairSpec
CONSTANTS
  a = a
  b = b
  Cycles = {a}
  Driver = "cli"
  NoCid = NoCid
  Inputs <- MCInputs
  Budget = 2
  CallMax = 1
  Rounds <- MCRounds
  MaxDebateRounds = 1
CHECK_DEADLOCK FALSE
INVARIANTS
  OvershootBounded
  TypeOK
PROPERTIES
  ModelNeverKills
  SpentDeskHolds
  EveryCycleEnds
