SPECIFICATION Spec
CONSTANTS
    Widths = {16, 32}
    Octets <- MCOctets
    Damages <- MCDamages
    MaxLen = 3
INVARIANTS
    TypeOK
    IntactAccepted
    BurstDetected
    ChecksumTest
CHECK_DEADLOCK FALSE
