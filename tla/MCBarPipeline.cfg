SPECIFICATION FairSpec
CONSTANTS
    Symbols = {aapl, btc}
    Prices = {1}
    Sizes = {1}
    MaxTicksPerMinute = 1
    MaxMinute = 1
    MaxVolume = 1
    BatchSize = 2
    MaxOfficial = 1
INVARIANTS
    BarsAccountedFor
    FirstQueuedWins
    DecisionsFollowQueue
    SentinelSurvives
    WriterLeavesOnlyWhenTold
PROPERTIES
    QueuedBarsSettle
    ClosedMinutesFlush
    ShutdownCompletes
CHECK_DEADLOCK FALSE
