SPECIFICATION WindowSpec
CONSTANTS
    LowMod = 256
    WrapBand = 32
    CtrMod = 65536
    MaxCount = 560
INVARIANTS
    WindowTypeOK
    ExactInWindow
    OnlyBlockEndLost
