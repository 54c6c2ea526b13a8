SPECIFICATION Spec
CONSTANTS
    LowMod = 4
    WrapBand = 1
    CtrMod = 16
    MaxCtr = 5
    TxThreshold = 2
    RxThreshold = 1
    ResetTimeout = 1
    Ids = {1, 2}
    DownCtrs = {1, 2, 5}
    MaxNow = 3
INVARIANTS
    TypeOK
    NewestIsLargest
    ReplayRefused
PROPERTIES
    NoTagReuse
