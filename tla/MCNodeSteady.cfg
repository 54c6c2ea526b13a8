SPECIFICATION MCFairSpec
CONSTANTS
    LowMod = 4
    WrapBand = 1
    CtrMod = 64
    Ids = {1, 2}
    DefaultId = 1
    Broadcast = 9
    MaxCtr = 20
    TxThreshold = 2
    RxThreshold = 1
    ResetTimeout = 1
    MaxPayload = 27
    MaxRetries = 2
    MaxTx = 1
    ProtocolVersion = 1
    ConfigVersion = 1
    Batches = {0, 5}
    SleepTimes = {1, 2}
    GwCtrs = {1, 2}
    GwBodies <- MixedBodies
    Faults = {}
    MaxCycles = 2
    MaxGwSends = 1
    MaxBoots = 0
INVARIANTS
    MeasurementsOnce
    StoredCounterClose
    AsleepIsStored
    RxCounterEarned
PROPERTIES
    CycleCompletes
    IdChangeTakesEffect
    ImplementsUplink
