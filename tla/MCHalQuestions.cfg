SPECIFICATION Spec
CONSTANTS
    Udis = {"d1", "d2"}
    Keys = {"parent", "k"}
    Values <- MCValues
    Snapshots <- MCSnapshots
    Questions <- MCQuestions
    IntSize = 16
    LongSize = 64
    DoubleExact = 8
    DoubleStep = 2
    MaxChanges = 2
CHECK_DEADLOCK FALSE
INVARIANTS TrueWasTrue FalseWasFalse FetchedWasThere
