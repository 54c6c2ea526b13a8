SPECIFICATION Spec
CONSTANTS
    LowMod = 4
    WrapBand = 1
    CtrMod = 16
    MaxCtr = 6
    TxThreshold = 2
    RxThreshold = 1
    ResetTimeout = 1
    Ids = {1, 2}
    DownCtrs = {1, 2, 5}
    MaxNow = 4
PROPERTY
    ResumesFromStored
