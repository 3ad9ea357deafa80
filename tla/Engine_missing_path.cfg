SPECIFICATION Spec
CONSTANTS
    Backends <- MCBtrfs
    N = 2
    MaxFaults = 0
    MaxCrashes = 0
    Swappable <- MCSwappable
    MaxEdits = 1
INVARIANTS
    MissingPathIsPutBack
