SPECIFICATION Spec
CONSTANTS
    s1 = s1
    s2 = s2
    r1 = r1
    r2 = r2
    Sub <- MCSub
    Request <- MCRequest
    NoSub = NoSub
    Trial = 1
    Cycles = {1, 2}
    Horizon = 2
    Scenarios <- MCScenarios
SYMMETRY Interchangeable
CONSTRAINT Monthly
INVARIANT FollowsRazorpay
INVARIANT SyncStarts
PROPERTY TrialOnce
PROPERTY PeriodForward
