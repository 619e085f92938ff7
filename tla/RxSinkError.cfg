SPECIFICATION RxSpec
CONSTANTS
    BlockLen = 1
    KBlockLen = 2
    NumBlockNos = 3
    Alphabet <- MCAlphabet
    Chksum <- MCChksum
    Crc <- MCCrc
    LineLimit = 1
    MaxErrors = 3
    FallbackErrors = 1
    SinkSize = 3
    MaxSinkErrors = 1
    PeerMsgs <- MCPeerMsgs
PROPERTIES
    AckMeansStored
CHECK_DEADLOCK FALSE
