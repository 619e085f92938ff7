SPECIFICATION Spec
CONSTANTS
    Platforms <- AllPlatforms
    PortNos = {0, 1, 2, 5}
INVARIANTS
    TypeOK
    HandleOwnsUart
PROPERTIES
    OnlyFailedInitLoses
    SuccessNeedsOpenPort
CHECK_DEADLOCK FALSE
