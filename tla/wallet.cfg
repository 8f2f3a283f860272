SPECIFICATION FairSpec
CONSTANTS
    Key <- MCTxid
    Value <- MCValue
    None = None
    Spends <- MCSpends
    PaysMore <- MCPaysMore
    MaxStreams = 1
    MaxLog = 9
    MaxEvents = 3
    MayFail = TRUE
INVARIANTS
    ConfidencesCoherent
    NoRivalsInMap
PROPERTY
    WatchersLearnTruth
CHECK_DEADLOCK FALSE
