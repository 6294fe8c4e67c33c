SPECIFICATION MCSpec
CONSTANTS
    Procs = {"p1", "p2", "p3"}
    Requests <- MCRequests
    Tables <- MCTables
    Fields <- MCFields
    MaxFaults = 1
CHECK_DEADLOCK FALSE
INVARIANTS HvExclusive LinesKept OneLineEach
PROPERTY HvTerminates
