SPECIFICATION Spec
CONSTANTS
    BlockLen = 2
    KBlockLen = 4
    NumBlockNos = 256
    Alphabet <- MCAlphabet
    Chksum <- MCChksum
    Crc <- MCCrc
    LineLimit = 0
    Sources <- MCSources
    PeerBytes = {}
    PeerMsgs = {}
    MaxErrors = 11
    FallbackErrors = 2
    SinkSize = 20
    MaxSinkErrors = 0
    ModePairs <- BothXmodem
    Prompt = TRUE
    MaxFaults = 1
    FaultKinds = {"lose"}
    Spared = {}
    Noise = {0, 4, 24, 255}
    ReplyNoise = {}
INVARIANTS
    RxSuccessMeansComplete
CHECK_DEADLOCK FALSE
