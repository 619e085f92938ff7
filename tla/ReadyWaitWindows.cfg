SPECIFICATION Spec
CONSTANTS
    Platforms = {"windows"}
    Wait = 60
    TicksPerSec = 20
    UintSize <- MCUintSize
    MaxSec = 64
    MaxGap = 1
INVARIANTS
    NotTooEarly
CHECK_DEADLOCK FALSE
