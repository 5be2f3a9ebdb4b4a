SPECIFICATION CmdSpec
CONSTANTS
    n1 = n1
    n2 = n2
    r1 = r1
    r2 = r2
    r3 = r3
    Msg = {n1, n2, r1, r2, r3}
    Reply = {r1, r2, r3}
    Poller = {p1}
    KindOf <- MCKindOf
    BatchCap = 5
    Scenarios <- RedisFails
    None = None
    MaxReplies = 1
    MaxWindows = 1
    HandlerScenarios <- HandlersFail
SYMMETRY Ids
INVARIANT CapHolds
PROPERTY RegisteredStaysOut
