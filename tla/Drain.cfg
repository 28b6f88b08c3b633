SPECIFICATION FairSpec
CONSTANTS
    Partitions = {p1, p2}
    MaxLength = 2
    EmptyPollLimit = 2
PROPERTIES
    RefinesTopicRead
    DrainEnds
CHECK_DEADLOCK FALSE
