\* Four responses of at most three blocks, one retry.
SPECIFICATION StreamSpec
CONSTANTS
  a = a
  b = b
  c = c
  NoFile = NoFile
  Paths = {a, b, c}
  Existing = {a}
  DontTouch = {c}
  Texts <- MCTexts
  StreamRetryLimit = 2
INVARIANTS
  StreamTypeOK
  ChunksInvisible
  SavedExplained
