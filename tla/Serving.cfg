SPECIFICATION Spec
CONSTANTS
    e1 = e1
    e2 = e2
    c1 = c1
    c2 = c2
    c3 = c3
    k1 = k1
    k2 = k2
    m1 = m1
    Exposures <- MCExposures
    ExpDay <- MCExpDay
    ExpKey <- MCExpKey
    ExpIngest <- MCExpIngest
    Conversions <- MCConversions
    ConvDay <- MCConvDay
    ConvIngest <- MCConvIngest
    HotCredit <- MCHotCredit
    LongCredit <- MCLongCredit
    Days = {1, 2}
    Keys = {k1, k2}
    Campaigns = {m1}
    CampaignOf <- MCCampaignOf
    Delta = 1
    Regimes <- Operated
INVARIANTS
    CompletedJobServesLake
    RollupEqualsRebuild
    CorrectionWins
    MarkerHonest
    SnapshotPair
    RollupBenchPasses
    NoDoubleCount
PROPERTIES
    CreditIsFinal
