\* Two callers; faults enough for a timed-out attempt, a reset and a crash.
CONSTANTS
  Callers = {c1, c2}
  Loops = {l1, l2}
  Works = {w1, w2}
  ResetAfter = 2
  MaxSession = 1
  MaxCalls = 2
  MaxFaults = 2
  Monitor = Monitor
  None = None
SPECIFICATION Spec
INVARIANTS TypeOK SharedPromise InstanceOfSession
PROPERTIES StarterServed
SYMMETRY Symmetry
CHECK_DEADLOCK FALSE
