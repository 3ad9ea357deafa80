\* Two requests and the timer on one workset; nothing fails.
SPECIFICATION Spec
CONSTANTS
    w1 = w1
    c1 = c1
    c2 = c2
    t = t
    Worksets = {w1}
    Clients = {c1, c2}
    Timer = t
    MaxSnap = 4
    AutoKeep = 1
    ProviderMax = 0
    ClockSteps = FALSE
    MaxCrashes = 0
    Faults = {}
SYMMETRY Symmetry
INVARIANTS
    TypeOK
    StatementsFit
    CreateReturnsLiveNode
PROPERTIES
    NodesHangWhereTheyShould
    ManualChainsSpared
    ChainsStayConnected
    PruneTakesWhatWasAsked
    RestoreReadsWholeSnapshot
