SPECIFICATION Spec
CONSTANTS
    Callers = {"p", "q"}
    ByteBits = 2
    MsBytes = 1
    RandBytes = 1
    DigitBits = 3
    MaxIds = 3
INVARIANTS
    TypeOK
    CallersIdsGrow
    EncodeKeepsOrder
