SPECIFICATION Spec
CONSTANTS
    Writers = {engine, reconcile}
    Landings <- MCLandings
    Layouts = {"day", "day_bucket"}
    None = None
    MaxLandings = 3
    MaxLives = 2
    MaxPasses = 1
SYMMETRY EitherWriter
INVARIANTS
    RowsKept
    ReadIsWhole
PROPERTIES
    MaintenanceSettles
CHECK_DEADLOCK FALSE
