SPECIFICATION Spec
CONSTANTS
    MaxPayload = 51
    MaxBatch = 255
    MaxTx = 3
INVARIANTS
    TypeOK
    InOrderNoGap
    DropsOnlyAtLimit
    FrameFits
