SPECIFICATION FairSpec
CONSTANTS
    MaxAttempts = 2
    MaxRequests = 2
    MaxSelections = 1
INVARIANT TypeOK
INVARIANT AmbiguousNeverRetryable
INVARIANT WritesInTurn
PROPERTY ClosedStaysClosed
PROPERTY EveryRequestSettles
\* An idle client has nothing to do.
CHECK_DEADLOCK FALSE
