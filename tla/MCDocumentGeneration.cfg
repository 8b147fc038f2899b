CONSTANTS
  Scheduler = scheduler
  Workers = {w1}
  Attachments = {scan1, text}
  Scanned = {scan1}
  Generations = {1, 2, 3, 4, 5}
  MaxAttempts = 2
  MaxCrashes = 1
  None = None
SPECIFICATION FairSpec
INVARIANTS
  OpenGateMeansProcessed
  GenerationOwnsVersion
PROPERTIES
  StaleRunsTouchNothing
  GateOpens
