SPECIFICATION ObservableSpec
CONSTANTS
    Key <- MCKey
    Value <- MCValue
    None = None
    MaxStreams = 3
    MaxLog = 3
INVARIANTS
    StreamsUpToDate
    NoRepeatedItem
PROPERTIES
    PurgedBySync
    ImplementsWatchedMap
