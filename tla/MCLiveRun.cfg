SPECIFICATION FairSpec
CONSTANTS
  Tickers <- MCTickers
  Channels = {"telegram", "console", "slack", "dry"}
  Articles = {"u", "v"}
  Future = {"v"}
  Feeds <- MCFeeds
  Window = 1
  Expiry = 2
  MaxTaps = 2
CHECK_DEADLOCK FALSE
INVARIANTS
  TypeOK
  NoTapForgotten
  FirstTapDecides
PROPERTIES
  OneWindowLate
  EveryTickerEnds
  GateHolds
