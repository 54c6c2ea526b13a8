SPECIFICATION MCSpec
CONSTANTS
    LowMod = 4
    WrapBand = 1
    CtrMod = 64
    Ids = {1, 2}
    DefaultId = 1
    Broadcast = 2
    MaxCtr = 20
    TxThreshold = 2
    RxThreshold = 1
    ResetTimeout = 1
    MaxPayload = 27
    MaxRetries = 1
    MaxTx = 1
    ProtocolVersion = 1
    ConfigVersion = 1
    Batches = {4}
    SleepTimes = {1}
    GwCtrs = {1}
    GwBodies <- SetIdBodies
    Faults = {"flash", "radio", "rail"}
    MaxCycles = 2
    MaxGwSends = 1
    MaxBoots = 1
INVARIANTS
    TypeOK
    KeyMatchesId
    AckSound
    OneFramePerCounter
    RailOffAsleep
