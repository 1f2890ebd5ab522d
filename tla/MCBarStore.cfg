SPECIFICATION FairSpec
CONSTANTS
    Writers = {w1, w2}
    Keys = {k1, k2, k3}
    NoKey = NoKey
    MaxBatch = 3
    MaxCalls = 1
INVARIANTS
    TypeOK
    OneRowPerBar
    NoRecordLostToRace
    FirstOfBatchWins
PROPERTIES
    CallsReturn
    RowsArePermanent
    ImplementsTable
CHECK_DEADLOCK FALSE
