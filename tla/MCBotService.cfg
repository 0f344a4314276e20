SPECIFICATION FairSpec
CONSTANTS
  Runs = {1, 2}
  Advices = {"buy", "hold"}
  MaxCommands = 1
  MaxUpdates = 4
  MaxRestarts = 1
CHECK_DEADLOCK FALSE
INVARIANTS
  TypeOK
  NoUpdateLost
  NothingTwice
PROPERTIES
  GateHolds
  PausedIsSettled
