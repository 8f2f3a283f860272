SPECIFICATION Spec
CONSTANTS
    Windows <- LargeWindows
    Width = 40
    Unit = 16
    Coins <- MCCoins
    ValueOf <- MCValueOf
    TermsChoices <- MCTerms
    Before <- MCBefore
INVARIANT
    RedirectAffordable
CHECK_DEADLOCK FALSE
