SPECIFICATION Spec
CONSTANTS
    Repeats <- OneEach
    Repeatable <- AllCalls
    StartingOver = {"Seller"}
    Crashing = {"Buyer"}
INVARIANTS
    TypeOK
    NonceNotReused
    BuyerHoldsAdaptorSig
    FairExchange
CHECK_DEADLOCK FALSE
