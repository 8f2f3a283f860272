SPECIFICATION Spec
CONSTANTS
    Windows <- MCWindows
    Width = 40
    Unit = 1
    Coins <- MCCoins
    ValueOf <- MCValueOf
    TermsChoices <- MCTerms
    Before <- MCBefore
INVARIANTS
    SharesAccurate
    RedirectPaysFee
    BothMergeTheSame
    MergedFeeRate
    EachPaysHisShare
CHECK_DEADLOCK FALSE
