SPECIFICATION Spec
CONSTANTS
    LowMod = 8
    WrapBand = 2
    CtrMod = 64
    FirstId = 1
    NewId = 3
    ProtocolVersion = 1
    MaxCtr = 20
    TxThreshold = 4
    RxThreshold = 1
    ResetTimeout = 2
    NodeSf = 12
    MaxPayload = 51
    MaxRetries = 3
    FramesPerCycle = {0, 1, 2}
    Lengths = {18, 43}
    MaxCycles = 8
INVARIANTS
    TypeOK
    AckedInStep
    ApartForAReason
