\* Two inferences, so that calls left running by the first meet those of the
\* second; a response of two calls, two rounds, two attempts.
CONSTANTS
  writeA = writeA
  deploy = deploy
  commit = commit
  finish = finish
  unknown = unknown
  Tool = {writeA, deploy, commit, finish, unknown}
  Defined = {writeA, deploy, commit, finish}
  Completion = {finish}
  Access <- MCAccess
  WholeResponses <- MCWhole
  CutResponses <- MCCut
  MaxBatch = 2
  Pieces = 2
  MaxDepth = 2
  RetryLimit = 2
  MaxInferences = 2
  Faults = TRUE
SPECIFICATION FairSpec
INVARIANTS TypeOK ConflictsSerial  StreamAssembled
PROPERTIES InferenceEnds
CHECK_DEADLOCK FALSE
