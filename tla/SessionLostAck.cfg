SPECIFICATION Spec
CONSTANTS
    BlockLen = 2
    KBlockLen = 4
    NumBlockNos = 5
    Alphabet <- MCAlphabet
    Chksum <- MCChksum
    Crc <- MCCrc
    LineLimit = 0
    Sources <- MCSources
    PeerBytes = {}
    PeerMsgs = {}
    MaxErrors = 11
    FallbackErrors = 2
    SinkSize = 20
    MaxSinkErrors = 0
    ModePairs <- CompatiblePairs
    Prompt = TRUE
    MaxFaults = 1
    FaultKinds = {"lose"}
    Spared = {}
    Noise = {0, 4, 24, 255}
    ReplyNoise = {}
PROPERTIES
    PreviousIsExpected
CHECK_DEADLOCK FALSE
