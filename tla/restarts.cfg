SPECIFICATION Spec
CONSTANTS
    MaxSession = 1
    Coins <- TwoCoins
    Selectable <- SelectTwoCoins
    Less <- MCLess
    TermsChoices <- SameTerms
    Faulty = {}
INVARIANTS
    TypeOK
    NonceSingleUse
    AgreedTrade
    TwoOfTwo
    FinalWitnessesValid
CHECK_DEADLOCK FALSE
