CONSTANTS
  Workers = {w1, w2}
  Keys = {k1}
  Accounts = {a1, a2, a3}
  a1 = a1
  a2 = a2
  a3 = a3
  Funding <- MCFunding
  MaxAttempts = 2
  MaxCrashes = 2
  None = None
SPECIFICATION FairSpec
INVARIANTS
  AtMostOneFencedCall
  ResultIffDebited
  UnitsAreConserved
PROPERTIES
  ImplementsFencedCall
  HoldIsSettledOrExposed
