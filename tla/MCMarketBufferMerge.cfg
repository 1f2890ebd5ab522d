SPECIFICATION DetailSpec
CONSTANTS
    Prices = {0, 1, 2, 3}
    Sizes = {0, 1}
    Times = {1, 2, 3}
    MaxTicks = 3
    MaxQueries = 2
    Durations = {"24h"}
    Askable = {"24h", "2w"}
    NoPrice = NoPrice
    Failed = Failed
    NoRecord = NoRecord
INVARIANTS
    BufferTakesPrecedence
