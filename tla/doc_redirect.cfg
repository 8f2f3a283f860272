SPECIFICATION Spec
CONSTANTS
    MaxSession = 0
    Coins <- OneCoin
    Selectable <- SelectOneCoin
    Less <- MCLess
    TermsChoices <- SameTerms
    Faulty = {}
INVARIANT
    SellerCanStillRedirect
CHECK_DEADLOCK FALSE
