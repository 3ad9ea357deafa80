\* Two requests and the timer under the fairness of the scheduler, with a
\* crash; a create or a restore may fail.
SPECIFICATION LiveSpec
CONSTANTS
    w1 = w1
    c1 = c1
    c2 = c2
    t = t
    Worksets = {w1}
    Clients = {c1, c2}
    Timer = t
    MaxSnap = 2
    AutoKeep = 1
    ProviderMax = 0
    ClockSteps = FALSE
    MaxCrashes = 1
    Faults = {"create", "restore"}
PROPERTIES
    RequestsFinish
    
    DaemonServesAgain
