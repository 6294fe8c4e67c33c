SPECIFICATION Spec
CONSTANTS
    Commands <- ShortCommands
    IntMax = 4095
    StartSize = 255
    Memory = 2047
CHECK_DEADLOCK FALSE
INVARIANTS BufferOK CommandFits StartedWhole
