\* Two builds, so that one can overlap with the next.  An agent that nobody asks
\* for anything is at rest.
CONSTANTS
  Builds = {b1, b2}
  MaxInputs = 2
  MaxRounds = 1
  MaxFolds = 2
  Faults = TRUE
  None = None
SPECIFICATION FairSpec
INVARIANTS TypeOK StopReaches
PROPERTIES HistoryKept InputTakenUp
CHECK_DEADLOCK FALSE
