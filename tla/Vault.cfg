\* Two tabs; a vault that is set up, reset and set up again.
CONSTANTS
  Tabs = {t1, t2}
  MaxSetups = 2
  MaxResets = 1
  Sockets = {s1, s2}
  None = None
  MaxRequests = 1
SPECIFICATION Spec
INVARIANTS TypeOK SecretsReadable AnswersTrue
SYMMETRY Symmetry
CHECK_DEADLOCK FALSE
