SPECIFICATION Spec
CONSTANTS
    b1 = b1
    b2 = b2
    s1 = s1
    s2 = s2
    Bot <- MCBot
    Session <- MCSession
    NoBot = NoBot
    NoSession = NoSession
    MaxRow = 2
    MaxTurn = 2
    MaxJob = 2
    MaxWire = 2
    Retries = 1
    Scenarios <- MCScenarios
SYMMETRY Interchangeable
CONSTRAINT OneCallback
CONSTRAINT OneRequest
INVARIANT NoStrayBot
INVARIANT AccountedOnce
PROPERTY VanishedIsRecalled
PROPERTY NeverWalkedBack
