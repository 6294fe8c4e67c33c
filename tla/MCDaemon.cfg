SPECIFICATION Spec
CONSTANTS
    u1 = u1
    u2 = u2
    parent = parent
    state = state
    on = on
    off = off
    NoKey = NoKey
    Null = Null
    NoDevice = NoDevice
    Star = Star
    UdiName = UdiName
    AnyValue = AnyValue
    Unknown = Unknown
    NoJob = NoJob
    Udis = {u1}
    Keys = {state}
    Values = {on, off}
    Rules <- StateRules
    Profiles <- StateProfiles
    Conditions <- Overheats
    MaxChanges = 4
CHECK_DEADLOCK FALSE
INVARIANTS TypeOK MirrorCurrent CopiesBounded RemovalComplete OnInitBounded
PROPERTY Converges
