\* Two connections of a session, so that a closed one meets its successor; a
\* queue of two that three messages overflow, and two retries between opens.
\* A closed session, or one whose retries are used up, is at its end.
CONSTANTS
  MaxConns = 2
  MaxCalls = 3
  MaxPending = 2
  MaxRetries = 2
SPECIFICATION FairSpec
INVARIANTS TypeOK SessionInitFirst
PROPERTIES ImplementsOutbox QueuedIsSent
CHECK_DEADLOCK FALSE
