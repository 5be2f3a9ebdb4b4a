SPECIFICATION PageSpec
CONSTANTS
    Bookings = {b1, b2}
    Request = {r1, r2}
    Slot = {0, 1, 3}
    Duration = 2
    Pad = 1
    DayCap = 2
    HostTick = {5}
    NoEvent = NoEvent
    Uncached = Uncached
    Usual = Usual
    NoView = NoView
    CalledOff = CalledOff
    Hours <- EveryHours
    Scenarios <- EveryBookingPart
    PageScenarios <- EveryMisfortune
SYMMETRY Ids
INVARIANT PendingInHand
INVARIANT EverybodyAgrees
INVARIANT BuffersKept
PROPERTY LedgerSpec
CHECK_DEADLOCK FALSE
