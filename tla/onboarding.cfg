SPECIFICATION FairSpec
CONSTANTS
    m1 = m1
    m2 = m2
    Msg = {m1, m2}
    Poller = {p1, p2}
    Syncer = {s1, s2}
    KindOf <- MCKindOf
    BatchCap = 1
    WatchLife = 3
    Margin = 2
    Outage = 1
    Scenarios <- MCScenarios
    Settings <- MCSettings
PROPERTY EveryMessageHanded
PROPERTY FirstSync
PROPERTY WatchHolds
PROPERTY LapsedGoesQuiet
CHECK_DEADLOCK FALSE
