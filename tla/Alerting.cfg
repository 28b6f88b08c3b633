SPECIFICATION FairSpec
CONSTANTS
    Probes = {p1}
    MaxRounds = 3
    MaxBlocks = 2
    DaySeconds = 2
    WindowDays = 2
    TopClusters = 1
    Impressions <- MCImpressions
    HotRows <- MCHotRows
    Recovered <- MCRecovered
    Jobs = {"clickhouse"}
    MaxParts = 3
    MaxSamples = 2
    GroupKeys = {}
    MaxAlerts = 2
INVARIANTS
    NoStaleMetric
    FindingCitesItsTests
    AnsweredButSuperseded
    OneSweepPerRequest
    ContextOrdered
    ProbesConfirmContext
PROPERTIES
    PublishedIsQuiescent
    RunEnds
    RequestEnds
CHECK_DEADLOCK FALSE
