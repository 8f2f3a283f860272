SPECIFICATION Spec
CONSTANTS
    Repeats <- OneEach
    Repeatable <- AllCalls
    StartingOver = {"Seller"}
    Crashing = {}
INVARIANT
    SwapRevealsShare
CHECK_DEADLOCK FALSE
