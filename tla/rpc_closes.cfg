SPECIFICATION FairSpec
CONSTANTS
    Repeats <- OneEach
    Repeatable <- LateCalls
    StartingOver = {}
    Crashing = {}
PROPERTY
    TradeCloses
CHECK_DEADLOCK FALSE
