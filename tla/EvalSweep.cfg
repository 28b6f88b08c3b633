SPECIFICATION FairSpec
CONSTANTS
    Kind <- MCKind
    RunOrder <- MCRunOrder
    NEAR_MISS_PAIR = {"real_lift", "shared_ip_spike"}
    EvalReps = 1
    OperatorProfiles = {"real_lift", "shared_ip_spike"}
    MaxOperations = 1
    MaxEdits = 2
    MaxSweeps = 2
INVARIANTS
    PublishedOnACleanStack
    EscalationIsNeverADiagnosis
    OtherSectionsKept
PROPERTIES
    SweepEnds
CHECK_DEADLOCK FALSE
