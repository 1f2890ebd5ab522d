SPECIFICATION Spec
CONSTANTS
    Grain = 2
    Offset <- HourAndDay
    NewYear = 2
    MaxTime = 6
INVARIANTS
    StalenessBounded
    BatchedLookupAgrees
    StaleOnlyAfterReopening
