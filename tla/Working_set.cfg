SPECIFICATION Spec
CONSTANTS
    c1 = c1
    c2 = c2
    ws1 = ws1
    ws2 = ws2
    Clients = {c1, c2}
    Names = {ws1, ws2}
    N = 2
    DiffCap = 1
    MaxRequests = 3
    MaxEdits = 1
    MaxFaults = 1
SYMMETRY Symmetry
INVARIANTS
    TypeOK
    RestoreSavesOrSays
    
    DiffAnswers
PROPERTIES
    
    WorksetsKeepTheirGraph
