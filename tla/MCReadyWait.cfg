SPECIFICATION Spec
CONSTANTS
    Platforms <- AllPlatforms
    Wait = 20
    TicksPerSec = 2
    UintSize <- MCUintSize
    MaxSec = 24
    MaxGap = 1
INVARIANTS
    TypeOK
    AnsiMinuteKept
    LimitIsRest
CHECK_DEADLOCK FALSE
