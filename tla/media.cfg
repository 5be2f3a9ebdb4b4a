SPECIFICATION Spec
CONSTANTS
    s1 = s1
    s2 = s2
    Session <- MCSession
    NoSession = NoSession
    MaxKey = 2
    MaxTurn = 4
    MaxJob = 2
    Retries = 1
    Scenarios <- MCScenarios
SYMMETRY Interchangeable
CHECK_DEADLOCK FALSE
INVARIANT BucketMatchesRow
INVARIANT RecordedIsInHand
INVARIANT AccountedOnce
INVARIANT PrunedStaysPruned
