SPECIFICATION Spec
CONSTANTS
    Symbols = {aapl, btc}
    Prices = {1, 2, 6}
    InitialCash = 11
    Parts = 5
    MaxParts = 1
    Kellys = {0, 1, 2}
    MaxOrders = 4
SYMMETRY Symmetry
INVARIANTS
    TypeOK
    BooksFollowBroker
    StakeWithinCap
PROPERTIES
    CashMovesWithPosition
CHECK_DEADLOCK FALSE
