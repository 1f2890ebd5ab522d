SPECIFICATION BufferSpec
CONSTANTS
    Symbols = {aapl, btc}
    Prices = {1, 2, 3}
    Sizes = {1}
    MaxTicksPerMinute = 3
    MaxMinute = 2
    MaxVolume = 4
SYMMETRY Symmetry
INVARIANTS
    BufferTypeOK
    BarsSummariseTicks
    VolumeConserved
CHECK_DEADLOCK FALSE
