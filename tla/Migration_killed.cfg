SPECIFICATION FairSpec
CONSTANTS
    r1 = r1
    r2 = r2
    r3 = r3
    Rows = {r1, r2, r3}
    KeyOf <- MCKeyOf
    Appliers = {a}
    MaxKills = 3
    NoTable = NoTable
INVARIANTS
    EverySnapshotServed
PROPERTIES
    EventuallyMigrated
CHECK_DEADLOCK FALSE
