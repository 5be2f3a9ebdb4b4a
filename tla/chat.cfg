SPECIFICATION ChatSpec
CONSTANTS
    f1 = f1
    f2 = f2
    f3 = f3
    f4 = f4
    f5 = f5
    v1 = v1
    v2 = v2
    r1 = r1
    r2 = r2
    t1 = t1
    t2 = t2
    NoTurn = NoTurn
    FilterId <- MCFilterId
    Rules <- MCRules
    Request <- MCRequest
    NoFilter = NoFilter
    Gone = Gone
    Scenarios <- MCScenarios
    Turn <- MCTurn
    Proposals <- MCProposals
    ChatScenarios <- MCChatScenarios
SYMMETRY Symmetry
ACTION_CONSTRAINT InOrder
CONSTRAINT OneTurn
INVARIANT RunsOnce
INVARIANT TranscriptWhole
INVARIANT SuccessHolds
INVARIANT FilterAgrees
