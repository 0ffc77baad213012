\* Nothing fails: no stop, no exception, no restart.
CONSTANTS
  Builds = {b1, b2}
  MaxInputs = 1
  MaxRounds = 1
  MaxFolds = 0
  Faults = FALSE
  None = None
SPECIFICATION FairSpec
INVARIANT OneBuild
CHECK_DEADLOCK FALSE
