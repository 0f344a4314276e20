SPECIFICATION Spec
CONSTANTS
  x = x
  y = y
  Scripts <- MCScripts
  NDays = 3
  Watchlist <- MCWatchlist
  Close <- MCClose
  News <- MCNews
  History = {x}
  Answers <- MCAnswers
  InitialCash = 1000
  Conviction = 50
  Responses = 20
  Budget = 20
  MaxTradePct = 10
  MaxNamePct = 25
  HitlPct = 5
  HaltPct = 3
  Mantissa = 1000000000
CHECK_DEADLOCK FALSE
INVARIANTS
  ReplaysAgree
  OneRecordPerCycle
  FilledIsTraded
  BookFollowsTrades
