CONSTANTS
  Events = {ext, loc}
  LocalEvents = {loc}
  Workers = {w1, w2, w3}
  MaxAttempts = 3
  None = None
SPECIFICATION FairSpec
INVARIANTS
  BudgetBoundsSends
  DeadLettersAreListed
PROPERTIES
  ImplementsDelivery
  FinishedStaysFinished
  EventsFinish
