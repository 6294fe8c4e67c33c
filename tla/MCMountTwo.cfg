SPECIFICATION Spec
CONSTANTS
    p1 = p1
    p2 = p2
    u1 = u1
    u2 = u2
    d1 = d1
    d2 = d2
    m1 = m1
    m2 = m2
    None = None
    Gone = Gone
    NoFile = NoFile
    Udis = {u1, u2}
    Devices = {d1}
    Mountpoints = {m1}
    Procs = {p1, p2}
    Requests <- OverlapRequests
    Tables <- OldTables
    MaxRuns = 2
    MaxChanges = 1
    MaxFaults = 1
CHECK_DEADLOCK FALSE
PROPERTY Terminates
