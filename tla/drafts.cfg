SPECIFICATION Spec
CONSTANTS
    Message <- MCMessage
    Sent <- MCSent
    Thread <- MCThread
    CategoryOf <- MCCategoryOf
    Pass = {p1, p2}
    Allowance = 1
    SweepCeiling = 3
    NudgeCeiling = 1
    MaxDraft = 2
    MaxMonth = 1
    Scenarios <- Circumstances
SYMMETRY Passes
INVARIANT QuotaKept
INVARIANT DraftedOnce
