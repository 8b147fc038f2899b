CONSTANTS
  Pages <- MCPages
  Malformed = {2}
  Offered = {1, 2}
  Pollers = {p1, p2}
  Recoverer = recoverer
  Ingester = ingester
  BatchSize = 1
  MaxAttempts = 2
  MaxTroubles = 2
  None = None
SPECIFICATION FairSpec
INVARIANTS
  NothingIsLost
PROPERTIES
  CursorMovesForward
  RecordsSettle
