SPECIFICATION DeliverySpec
CONSTANTS
    m1 = m1
    m2 = m2
    j1 = j1
    j2 = j2
    Mail <- MCMail
    Job <- MCJob
    Day = 5
    Schedules <- MCSchedules
    Batch = 1
    Far = 3
    DeliveryScenarios <- MCScenarios
PROPERTY HeldIsReleased
PROPERTY BatchesApart
PROPERTY QuietHoursKept
