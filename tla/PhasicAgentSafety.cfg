\* Behaviours with every fault at every step, and behaviours without any.  The
\* liveness properties forbid symmetry.
CONSTANTS
  Slots = {m1, m2}
  Turns = {t1}
  Requests = {r1}
  Names = {a, b}
  MaxPhases = 2
  Recharge = 1
  MaxMessages = 3
  Faults = {TRUE, FALSE}
  NoRun = NoRun
  NoConcept = NoConcept
SPECIFICATION FairSpec
INVARIANTS TypeOK PromiseMatchesRun RequestsConserved
PROPERTIES ImplementsLedger RunTerminates IntentLeadsToMvp
CHECK_DEADLOCK FALSE
