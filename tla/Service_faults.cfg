\* One request and the timer on one workset, over a provider that holds two
\* copies, so that its limit binds before -auto-keep; every call may fail, and the
\* daemon may crash.
SPECIFICATION Spec
CONSTANTS
    w1 = w1
    c1 = c1
    t = t
    Worksets = {w1}
    Clients = {c1}
    Timer = t
    MaxSnap = 3
    AutoKeep = 3
    ProviderMax = 2
    ClockSteps = FALSE
    MaxCrashes = 1
    Faults = {"create", "delete", "restore", "store", "budget", "verify"}
INVARIANTS
    GraphIntact
    ReconcileFits
PROPERTIES
    ManualChainsSpared
    ChainsStayConnected
    ImplementsHistory
