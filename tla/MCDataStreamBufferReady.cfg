SPECIFICATION BufferSpec
CONSTANTS
    Symbols = {aapl}
    Prices = {1}
    Sizes = {1}
    MaxTicksPerMinute = 2
    MaxMinute = 2
    MaxVolume = 3
PROPERTIES
    ReadyBarsAreReturned
CHECK_DEADLOCK FALSE
