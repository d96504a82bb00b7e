SPECIFICATION FairSpec
CONSTANTS
  Peers = {p1}
  Channels = {c1}
  MaxNodes = 1
  MaxChains = 1
  MaxTries = 2
INVARIANTS SlotsWait OneWayBack
PROPERTIES StartsEnd ChainsEnd
CHECK_DEADLOCK FALSE
