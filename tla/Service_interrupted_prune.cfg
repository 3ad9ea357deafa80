\* A crash inside the removal of a handle, then a restore of that snapshot.
SPECIFICATION Spec
CONSTANTS
    w1 = w1
    c1 = c1
    t = t
    Worksets = {w1}
    Clients = {c1}
    Timer = t
    MaxSnap = 3
    AutoKeep = 1
    ProviderMax = 0
    ClockSteps = FALSE
    MaxCrashes = 1
    Faults = {}
PROPERTIES
    RestoreReadsWholeSnapshot
