\* Windows that are and are not multiples of a bucket; two days and a half, and
\* cleanups with buckets inside and outside of every window.
CONSTANTS
  Configs <- MCConfigs
  Costs = {1, 2}
  BucketSize = 2
  Day = 4
  CleanupPeriod = 2
  MaxNow = 9
SPECIFICATION StoreSpec
INVARIANTS StoreTypeOK WindowLimits
PROPERTIES DecisionsJustified
