\* Room for two children at a time, two restarts, the code's threshold.
CONSTANTS
  Children = {p1, p2}
  MaxRestarts = 2
  PortThreshold = 2
  None = None
SPECIFICATION FairSpec
INVARIANTS TypeOK OneChild NoOrphan
PROPERTIES NeverHangs
