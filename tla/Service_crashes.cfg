\* One request and the timer on one workset, with crashes.
SPECIFICATION Spec
CONSTANTS
    w1 = w1
    c1 = c1
    t = t
    Worksets = {w1}
    Clients = {c1}
    Timer = t
    MaxSnap = 4
    AutoKeep = 1
    ProviderMax = 0
    ClockSteps = FALSE
    MaxCrashes = 2
    Faults = {}
INVARIANTS
    GraphAgreesWithDisk
    NeverRefuses
PROPERTIES
    ImplementsHistory
