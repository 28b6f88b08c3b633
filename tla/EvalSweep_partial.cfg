SPECIFICATION FairSpec
CONSTANTS
    Kind <- MCKind
    RunOrder <- MCRunOrder
    NEAR_MISS_PAIR = {"real_lift", "shared_ip_spike"}
    EvalReps = 1
    OperatorProfiles = {"real_lift", "shared_ip_spike"}
    MaxOperations = 1
    MaxEdits = 1
    MaxSweeps = 1
PROPERTIES
    PartialTablesStillWrite
CHECK_DEADLOCK FALSE
