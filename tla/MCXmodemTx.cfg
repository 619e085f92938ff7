SPECIFICATION TxSpec
CONSTANTS
    BlockLen = 2
    KBlockLen = 4
    NumBlockNos = 3
    Alphabet <- MCAlphabet
    Chksum <- MCChksum
    Crc <- MCCrc
    Sources <- MCSources
    PeerBytes = {6, 21, 24, 67, 0}
    LineLimit = 2
INVARIANTS
    TxTypeOK
    PacketCarriesNextData
    SuccessCoversSource
PROPERTIES
    PacketChangesOnAckOnly
CHECK_DEADLOCK FALSE
