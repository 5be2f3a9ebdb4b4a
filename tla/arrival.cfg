SPECIFICATION Spec
CONSTANTS
    m1 = m1
    m2 = m2
    m3 = m3
    Msg = {m1, m2, m3}
    Poller = {p1, p2}
    KindOf <- MCKindOf
    BatchCap = 2
    Scenarios <- EveryMisfortune
SYMMETRY Passes
INVARIANT CommandsAtMostOnce
INVARIANT NothingSkipped
PROPERTY HandoffSpec
