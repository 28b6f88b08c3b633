SPECIFICATION Spec
CONSTANTS
    NHouseholds = 2
    NExposures = 2
    Spacing = 2
    Delays = {1, 3}
    ConvDelays = {1, 3, 5}
    OrganicTimes = {2}
    MaxConversions = 1
    BucketOf <- MCBucketOf
    DayLength = 3
    HotWindow = 2
    LongWindow = 4
    Delta = 1
    Dedup = {"on", "off"}
    MaxEarly = 1
    MaxUpsets = 1
INVARIANTS
    LakeHoldsTheDecision
    BucketedEqualsSinglePass
    ReconcileRecoversAll
    WrongHouseholdsAreAmbiguous
    ContextAddsUp
CHECK_DEADLOCK FALSE
