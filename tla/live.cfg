SPECIFICATION LiveSpec
CONSTANTS
    MaxSession = 1
    Coins <- OneCoin
    Selectable <- SelectOneCoin
    Less <- MCLess
    TermsChoices <- SameTerms
    Faulty = {}
PROPERTIES
    SetupCompletes
    SellerCanExit
    BuyerCanExit
    SellerCanSwap
    BuyerCanTake
CHECK_DEADLOCK FALSE
