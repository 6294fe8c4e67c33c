SPECIFICATION Spec
CONSTANTS
    p1 = p1
    p2 = p2
    p3 = p3
    Procs = {p1, p2, p3}
    Options <- MCOptions
    Plans <- MCPlans
CHECK_DEADLOCK FALSE
INVARIANTS ManagerTypeOK DaemonNamed NoneNamedAfterEnd
PROPERTY ToldEnds
