SPECIFICATION Spec
CONSTANTS
    MaxSession = 1
    Coins <- OneCoin
    Selectable <- SelectOneCoin
    Less <- MCLess
    TermsChoices <- AnyTerms
    Faulty = {"Seller", "Buyer"}
INVARIANTS
    RedirectWindow
    SwapGivesBuyerKey
    KeyGivesSellerSwap
    HonestPeersAccept
PROPERTY
    ImplementsEscrow
CHECK_DEADLOCK FALSE
