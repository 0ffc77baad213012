\* Nothing fails and nobody pays: three builds are asked for, the free credits
\* pay for two.
CONSTANTS
  Slots = {s1, s2}
  Unit = 2
  Free = 4
  BuildCost = 2
  Prices = {}
  Payment <- MCPayment
  Events = {}
  MaxRequests = 3
  MaxDeliveries = 1
  Faults = FALSE
  None = None
SPECIFICATION Spec
INVARIANT BuildsPaid
CHECK_DEADLOCK FALSE
