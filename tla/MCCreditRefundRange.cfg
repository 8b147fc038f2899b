CONSTANTS
  Owners = {o1}
  Sessions = {s1, s2}
  IdempotencyKeys = {k1, k2, k3, k4, k5}
  ReservationKeys = {r1, r2}
  References = {ref1, ref2}
  Amounts = {1, 2}
  MaxInt = 3
  None = None
SPECIFICATION Spec
INVARIANT EveryHoldIsRefundable
