\* Two requests at once, beside two of the user a subscription that starts, is
\* active and lapses; each event may be delivered twice.
CONSTANTS
  Slots = {s1, s2}
  Unit = 2
  Free = 4
  BuildCost = 2
  Prices = {3}
  Payment <- MCPayment
  Events = {"started", "active", "lapsed"}
  MaxRequests = 2
  MaxDeliveries = 2
  Faults = TRUE
  None = None
SPECIFICATION FairSpec
INVARIANTS TypeOK LedgerAgrees PlanAgrees
PROPERTIES PaidIsCredited
CHECK_DEADLOCK FALSE
