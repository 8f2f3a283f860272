SPECIFICATION Spec
CONSTANTS
    MaxSession = 0
    Coins <- OneCoin
    Selectable <- SelectOneCoin
    Less <- MCLess
    TermsChoices <- SameTerms
    Faulty = {"Buyer"}
INVARIANT
    DepositedCanWarn
CHECK_DEADLOCK FALSE
