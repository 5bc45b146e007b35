CONSTANTS
  None = None
  MaxSockets = 6
  MaxCancels = 2
SPECIFICATION FairSpec
INVARIANTS
  TypeOK
  SocketsOwned
  OneSession
  WireOrder
  PingTruthful
PROPERTIES
  SilenceBounded
  Implements
