CONSTANTS
  Sessions = {s1, s2}
  Deliveries <- MCDeliveries
  Terms <- MCTerms
  WebhookRequests <- MCRequests
  Secret = "secret"
  Now = 1000
  MaxInt = 2
  Tolerance = 300
  None = None
SPECIFICATION FairSpec
INVARIANTS
  ReceiptsAgree
  CreditsAreEarned
PROPERTY RequestsEnd
