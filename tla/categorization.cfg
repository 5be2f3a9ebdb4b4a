SPECIFICATION CategorySpec
CONSTANTS
    m1 = m1
    m2 = m2
    Message = {m1, m2}
    Thread <- MCThread
    Builtin = {"to_do"}
    Custom = {"client"}
    Rule = {r1}
    Worker = {w1, w2}
    Session = {s1, s2}
    NoKey = NoKey
    SyncMax = 1
    CategoryScenarios <- Circumstances
SYMMETRY Alike
INVARIANT OneCategoryPerThread
INVARIANT TaxonomyIsWhole
INVARIANT InboxFollowsCategory
