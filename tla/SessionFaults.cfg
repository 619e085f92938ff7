SPECIFICATION FairSpec
CONSTANTS
    BlockLen = 2
    KBlockLen = 4
    NumBlockNos = 256
    Alphabet <- MCAlphabet
    Chksum <- MCChksum
    Crc <- MCCrc
    LineLimit = 0
    Sources <- ShortSources
    PeerBytes = {}
    PeerMsgs = {}
    MaxErrors = 1
    FallbackErrors = 0
    SinkSize = 10
    MaxSinkErrors = 0
    ModePairs <- SameModes
    Prompt = FALSE
    MaxFaults = 1
    FaultKinds = {"lose", "change", "send", "end"}
    Spared = {}
    Noise = {0, 255}
    ReplyNoise = {21, 255}
INVARIANTS
    SinkIsPrefix
    TxSuccessMeansDelivered
    StopAndWait
PROPERTIES
    BothReturn
    ImplementsTransfer
CHECK_DEADLOCK FALSE
