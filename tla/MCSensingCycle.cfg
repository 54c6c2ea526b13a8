SPECIFICATION Spec
CONSTANTS
    soil3in1 = soil3in1
    soil = soil
    battery = battery
    Sensor <- MCSensor
    Count <- MCCount
    AdcSensors <- MCAdc
    SteppedSensors <- MCStepped
    MaxSensors = 32
    MaxMeasurement = 3
    Order <- MCOrder
    Battery = battery
    Soil = soil
    SampleInterval = 15
    LowInterval = 240
    CutoffMv = 2600
    CriticalMv = 3000
    SecMod = 65536
    RawLevels <- MCLevels
    Fallible <- MCSensor
INVARIANTS
    TypeOK
    BatchFresh
    OneSleepLate
    NeverSleepsShort
    SoilCurve
PROPERTIES
    Recovers
