SPECIFICATION Spec
CONSTANTS
    p1 = p1
    p2 = p2
    u1 = u1
    u2 = u2
    d1 = d1
    d2 = d2
    m1 = m1
    m2 = m2
    None = None
    Gone = Gone
    NoFile = NoFile
    Udis = {u1, u2}
    Devices = {d1, d2}
    Mountpoints = {m1, m2}
    Procs = {p1, p2}
    Requests <- AddRequests
    Tables <- NoTables
    MaxRuns = 3
    MaxChanges = 0
    MaxFaults = 0
CHECK_DEADLOCK FALSE
INVARIANT AddsKept
