SPECIFICATION Spec
CONSTANTS
    Symbols = {aapl}
    Prices = {1}
    Sizes = {1}
    MaxTicksPerMinute = 1
    MaxMinute = 1
    MaxVolume = 1
    BatchSize = 2
    MaxOfficial = 2
INVARIANTS
    StopDrainsQueue
CHECK_DEADLOCK FALSE
