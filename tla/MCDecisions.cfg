SPECIFICATION Spec
CONSTANTS
    Symbols = {a, b}
    Trainers = {t1, t2}
    WeightChoices <- MCWeightChoices
    NoRow = NoRow
    NoDecision = NoDecision
    Prices = {0, 1, 3}
    LiveCash = 8
    PaperCash = 20
    MaxBars = 4
SYMMETRY Symmetry
INVARIANTS
    TrainingIsKept
    DecisionsUseOwnWeights
    ReportsBalance
