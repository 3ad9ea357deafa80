\* A provider that holds one copy, and -auto-keep 2.
SPECIFICATION Spec
CONSTANTS
    w1 = w1
    c1 = c1
    t = t
    Worksets = {w1}
    Clients = {c1}
    Timer = t
    MaxSnap = 3
    AutoKeep = 2
    ProviderMax = 1
    ClockSteps = FALSE
    MaxCrashes = 0
    Faults = {}
INVARIANTS
    CreateReturnsLiveNode
