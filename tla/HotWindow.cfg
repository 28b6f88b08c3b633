SPECIFICATION FairSpec
CONSTANTS
    ExposureSlots = {1, 2, 3}
    SlotId <- ResendSlots
    ConversionIds = {1, 2}
    CandidateCounts = {1, 2}
    Time = {0, 1, 2, 4}
    Delays = {1, 2, 3}
    Window = 1
    Lateness = 2
    NoWatermark = NoWatermark
INVARIANTS
    ReleaseComplete
    EvictionSafe
    Parity
    StateBounded
PROPERTIES
    RefinesOracle
    EveryConversionAnswered
CHECK_DEADLOCK FALSE
