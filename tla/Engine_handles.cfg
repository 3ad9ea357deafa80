SPECIFICATION Spec
CONSTANTS
    Backends <- MCAll
    N = 2
    MaxFaults = 2
    MaxCrashes = 1
    Swappable <- MCSwappable
    MaxEdits = 1
INVARIANTS
    TypeOK
    RefusedCreateCleans
    RemovedMeansGone
    DeleteWorks
    PathsStayWhole
    FailedRestoreKeepsTheRest
    RestoreLands
    RestoreDelivers
PROPERTIES
    StartLeavesNoOrphan
    ImplementsContract
