SPECIFICATION Spec
CONSTANTS
    Process = {p1, p2}
    Consent = {c1, c2}
    None = None
    TTL = 2
    Life = 3
    Margin = 1
    MaxAttempts = 2
    Horizon = 3
    Scenarios <- Misfortunes
SYMMETRY Alike
INVARIANT RowFollowsConsent
INVARIANT StaleForAMinute
INVARIANT SentAtMostOnce
