SPECIFICATION Spec
CONSTANTS
    u1 = u1
    u2 = u2
    parent = parent
    state = state
    on = on
    off = off
    NoKey = NoKey
    Null = Null
    NoDevice = NoDevice
    Star = Star
    UdiName = UdiName
    AnyValue = AnyValue
    Unknown = Unknown
    NoJob = NoJob
    Udis = {u1, u2}
    Keys = {parent, state}
    Values = {u2, on}
    Rules <- ParentCommandRules
    Profiles <- ParentProfiles
    Conditions = {}
    MaxChanges = 2
CHECK_DEADLOCK FALSE
INVARIANTS IInv RemovalComplete
PROPERTY ImplementsMirror
