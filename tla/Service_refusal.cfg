\* Two worksets, each losing a handle to a prune when the daemon crashes.
SPECIFICATION Spec
CONSTANTS
    w1 = w1
    w2 = w2
    c1 = c1
    c2 = c2
    t = t
    Worksets = {w1, w2}
    Clients = {c1, c2}
    Timer = t
    MaxSnap = 2
    AutoKeep = 0
    ProviderMax = 0
    ClockSteps = FALSE
    MaxCrashes = 1
    Faults = {}
SYMMETRY Symmetry
INVARIANTS
    NeverRefuses
