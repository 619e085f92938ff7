-------------------------- MODULE XmodemTx_proofs --------------------------
(***************************************************************************)
(* Proofs about the transmitter of XmodemTx, for every length of block,    *)
(* every source and every peer.                                            *)
(***************************************************************************)
EXTENDS XmodemTx, Modem_proofs

(* What is left of a line after some of its bytes are gone is a line. *)
LEMMA FlushedType == ASSUME NEW line \in Seq(Byte), NEW rest \in Flushed(line)
                     PROVE  rest \in Seq(Byte)
<1>1. PICK n \in 0 .. Len(line) : rest = SubSeq(line, n + 1, Len(line))
  BY DEF Flushed, Without
<1>2. \A i \in n + 1 .. Len(line) : line[i] \in Byte
  BY <1>1
<1>3. n + 1 \in Int /\ Len(line) \in Int
  BY <1>1
<1>4. SubSeq(line, n + 1, Len(line)) \in Seq(Byte)
  BY <1>2, <1>3, SubSeqProperties, Zenon
<1>5. QED
  BY <1>1, <1>4

(* A byte read from a line leaves a line. *)
LEMMA ReadType == ASSUME bwd \in Seq(Byte), NEW b, TxReads(b)
                  PROVE  bwd' \in Seq(Byte)
  BY DEF TxReads

(* A packet is a sequence of bytes, with its number in second place. *)
LEMMA PacketType == ASSUME NEW mode \in Modes, NEW blk \in 0 .. NumBlockNos - 1,
                           NEW data \in Payloads
                    PROVE  /\ Packet(mode, blk, data) \in Seq(Byte)
                           /\ Packet(mode, blk, data)[2] = blk
                           /\ Packet(mode, blk, data) # << >>
<1>1. /\ Packet(mode, blk, data) \in Seq(Byte)
      /\ Packet(mode, blk, data)[2] = blk
      /\ Len(Packet(mode, blk, data)) = DATA + Len(data) + CheckSize(mode)
      /\ data \in Seq(Byte)
  BY PacketParts, Zenon
<1>2. QED
  BY <1>1 DEF DATA, CheckSize

-----------------------------------------------------------------------------
(* Type correctness.  The number of unread bytes of the source is never    *)
(* negative when the callback reads, which needs the invariant below; the  *)
(* positions are natural numbers without it.                               *)
LEMMA TypeInit == TxSpecInit => TxTypeOK
<1>1. << >> \in Seq(Byte)
  OBVIOUS
<1>2. 1 \in 0 .. NumBlockNos - 1
  BY LengthAssumption
<1> SUFFICES ASSUME TxSpecInit PROVE TxTypeOK
  OBVIOUS
<1> USE DEF TxSpecInit, TxInit, LinesInit
<1>3. LinesTypeOK /\ txBuf \in Seq(Byte)
  <2>1. fwd = << >> /\ bwd = << >> /\ txBuf = << >>
    OBVIOUS
  <2>2. QED
    BY <1>1, <2>1, Zenon DEF LinesTypeOK
<1>4. QED
  BY <1>2, <1>3 DEF TxTypeOK, ModemErrors

(* What a call of the callback puts into the buffer. *)
LEMMA FillType ==
    ASSUME TxTypeOK, TxFill
    PROVE  /\ srcPos' = srcPos + lastSent
           /\ txMode' = ModeAfter(BytesRead(srcPos + lastSent)) /\ txMode' \in Modes
           /\ txBuf' = Packet(txMode', blkNo, Block(source, srcPos', BlockSize(txMode')))
           /\ txBuf' \in Seq(Byte) /\ txBuf'[2] = blkNo /\ txBuf' # << >>
<1> USE DEF TxTypeOK
<1>1. srcPos' = srcPos + lastSent /\ srcPos' \in Nat
  BY DEF TxFill
<1>2. txMode' = ModeAfter(BytesRead(srcPos + lastSent))
  BY DEF TxFill
<1>3. txMode' \in Modes
  BY <1>2 DEF ModeAfter, Modes
<1>4. txBuf' = Packet(txMode', blkNo, Block(source, srcPos', BlockSize(txMode')))
  BY DEF TxFill
<1>5. source \in Seq(Alphabet)
  BY TxAssumption
<1>6. Block(source, srcPos', BlockSize(txMode')) \in Payloads
  BY <1>1, <1>3, <1>5, BlockType
<1>7. QED
  BY <1>1, <1>2, <1>3, <1>4, <1>6, PacketType

LEMMA TypeNext == TxTypeOK /\ [TxSpecNext]_<<txVars, lines>> => TxTypeOK'
<1> SUFFICES ASSUME TxTypeOK, [TxSpecNext]_<<txVars, lines>> PROVE TxTypeOK'
  OBVIOUS
<1> USE DEF TxTypeOK, LinesTypeOK
<1>1. CASE TxStart
  BY <1>1, FlushedType DEF TxStart
<1>2. CASE TxReady
  BY <1>2, ReadType DEF TxReady
<1>3. CASE TxSend \/ TxSendFails
  <2>0. TxFill
    BY <1>3 DEF TxSend, TxSendFails
  <2>1. txBuf' \in Seq(Byte) /\ txMode' \in Modes /\ srcPos' \in Nat
    BY <2>0, FillType
  <2>2. fwd' \in Seq(Byte)
    <3>1. CASE TxSend
      BY <2>1, <3>1 DEF TxSend
    <3>2. CASE TxSendFails
      <4>1. PICK n \in 0 .. Len(txBuf') - 1 : fwd' = fwd \o SubSeq(txBuf', 1, n)
        BY <3>2 DEF TxSendFails
      <4>2. Len(txBuf') \in Nat /\ n \in Nat /\ \A i \in 1 .. n : txBuf'[i] \in Byte
        BY <2>1, <4>1
      <4>3. SubSeq(txBuf', 1, n) \in Seq(Byte)
        BY <4>2, SubSeqProperties
      <4>4. QED
        BY <4>1, <4>3
    <3>3. QED
      BY <1>3, <3>1, <3>2
  <2>3. eofDetected' \in BOOLEAN
    BY <2>0 DEF TxFill
  <2>4. QED
    BY <2>0, <2>1, <2>2, <2>3 DEF TxFill
<1>4. CASE TxFlush
  BY <1>4, FlushedType DEF TxFlush
<1>5. ASSUME NEW code \in {ACK, NAK}, TxResponse(code),
             ackedTo' \in {ackedTo, ackedTo + BlockSize(txMode)}
      PROVE  TxTypeOK'
  <2>1. bwd' \in Seq(Byte)
    BY <1>5, ReadType DEF TxResponse
  <2>2. BlkAfter(code) \in 0 .. NumBlockNos - 1
    BY LengthAssumption DEF BlkAfter
  <2>3. SentSize(code) \in Nat /\ ackedTo' \in Nat
    BY <1>5, SizeType DEF SentSize
  <2>4. EofAfter(code) \in BOOLEAN
    BY DEF EofAfter
  <2>5. QED
    BY <1>5, <2>1, <2>2, <2>3, <2>4 DEF TxResponse
<1>6. CASE TxCancelled
  BY <1>6, ReadType DEF TxCancelled, TxReturn, ModemErrors
<1>7. CASE TxSendEot \/ TxEotFails
  <2>1. fwd' = Append(fwd, EOT) \/ fwd' = fwd
    BY <1>7 DEF TxSendEot, TxEotFails, lines
  <2>2. fwd' \in Seq(Byte)
    <3>1. EOT \in Byte
      BY DEF Byte, EOT
    <3>2. Append(fwd, EOT) \in Seq(Byte)
      BY <3>1
    <3>3. QED
      BY <2>1, <3>2, Zenon
  <2>3. QED
    BY <1>7, <2>2 DEF TxSendEot, TxEotFails, lines
<1>8. CASE TxFinish
  BY <1>8, ReadType DEF TxFinish, TxReturn, ModemErrors
<1>9. CASE TxChannelError
  BY <1>9 DEF TxChannelError, TxReturn, ModemErrors, lines
<1>10. CASE TxTimeout \/ TxHwError
  BY <1>10 DEF TxTimeout, TxHwError, TxReadFails, TxReturn, SerialToModemError, ModemErrors, lines
<1>11. CASE PeerSends
  <2>1. bwd' \in Seq(Byte)
    BY <1>11, TxAssumption DEF PeerSends
  <2>2. QED
    BY <1>11, <2>1 DEF PeerSends, txVars
<1>12. CASE PeerReads
  BY <1>12 DEF PeerReads, txVars
<1>13. CASE UNCHANGED <<txVars, lines>>
  BY <1>13 DEF txVars, lines
<1>14. QED
  BY <1>1, <1>2, <1>3, <1>4, <1>5, <1>6, <1>7, <1>8, <1>9, <1>10, <1>11, <1>12, <1>13
     DEF TxSpecNext, TxNext, TxProgress, TxAck, TxNak

(* Every variable of the transmitter has its type, with any peer: the      *)
(* block number stays a byte and only bytes are sent.                      *)
THEOREM TxTyped == TxSpec => []TxTypeOK
  BY TypeInit, TypeNext, PTL DEF TxSpec

-----------------------------------------------------------------------------
(***************************************************************************)
(* The inductive invariant.  What has been acknowledged (a history         *)
(* variable) is tied to the callback's position, which moves one call      *)
(* later: at the top of the loop last_sent_size has not been added yet.    *)
(* eof_detected says that the packet under way is a short one, and then    *)
(* the transfer is in blocks of BlockLen.                                  *)
(***************************************************************************)
Left == Len(source) - ackedTo

NothingSent == srcPos = 0 /\ lastSent = 0 /\ ackedTo = 0 /\ ~eofDetected /\ txBuf = << >>

(* The buffer still holds the packet to repeat, or the one before the next. *)
BufferAtTop ==
    IF lastSent = 0
    THEN txBuf = << >> \/ /\ txBuf = Packet(txMode, blkNo, Block(source, srcPos, BlockSize(txMode)))
                          /\ txMode = "XMODEM_1K" => Left >= KBlockLen
    ELSE blkNo = (txBuf[2] + 1) % NumBlockNos

AtTop ==
    /\ ackedTo = srcPos + lastSent
    /\ ~eofDetected
    /\ Left >= 0
    /\ BufferAtTop

PacketUnderWay ==
    /\ ackedTo = srcPos
    /\ Left >= 0
    /\ eofDetected <=> Left < BlockSize(txMode)
    /\ txMode = "XMODEM_1K" => Left >= KBlockLen
    /\ txBuf = Packet(txMode, blkNo, Block(source, ackedTo, BlockSize(txMode)))
    /\ txBuf[2] = blkNo

AllAcked == Len(source) < ackedTo /\ ackedTo <= Len(source) + BlockLen

TxInv ==
    /\ TxTypeOK
    /\ txPc \in {"idle", "ready"} => NothingSent
    /\ txPc = "fill" => AtTop
    /\ txPc \in {"sent", "resp"} => PacketUnderWay
    /\ txPc \in {"eot", "fin"} => AllAcked
    /\ txPc = "done" /\ txStatus = "MODEM_NO_ERRORS" => AllAcked

LEMMA InvInit == TxSpecInit => TxInv
  BY TypeInit DEF TxSpecInit, TxInit, TxInv, NothingSent

(* TxFill keeps the position that was acknowledged, and finds the end of   *)
(* the data exactly when what is left does not fill the packet.            *)
LEMMA FillInv ==
    ASSUME TxInv, TxFill
    PROVE  PacketUnderWay' /\ txPc' = "sent" /\ txStatus' = txStatus
<1> USE DEF TxInv
<1>1. TxTypeOK /\ AtTop /\ txPc = "fill"
  BY DEF TxFill
<1>2. /\ srcPos' = ackedTo /\ ackedTo' = ackedTo /\ source' = source
      /\ blkNo' = blkNo /\ Left' = Left /\ Left \in Nat
  BY <1>1 DEF TxFill, AtTop, Left, TxTypeOK
<1>3. Left = Len(source) - (srcPos + lastSent)
  BY <1>1 DEF AtTop, Left
<1>4. BytesRead(srcPos + lastSent) = IF BlockSize(txMode) < Left THEN BlockSize(txMode) ELSE Left
  BY <1>3 DEF BytesRead
<1>5. txMode' = ModeAfter(BytesRead(srcPos + lastSent))
  BY <1>1, FillType
<1>6. eofDetected' <=> BytesRead(srcPos + lastSent) < BlockSize(txMode')
  BY <1>1 DEF TxFill, AtTop
<1>7. CASE txMode = "XMODEM_1K" /\ Left < KBlockLen
  <2>1. BytesRead(srcPos + lastSent) = Left
    BY <1>2, <1>4, <1>7, LengthAssumption DEF BlockSize
  <2>2. txMode' = "XMODEM_CRC"
    BY <1>5, <1>7, <2>1 DEF ModeAfter
  <2>3. (eofDetected' <=> Left < BlockSize(txMode')) /\ txMode' # "XMODEM_1K"
    BY <1>6, <2>1, <2>2
  <2>4. QED
    BY <1>1, <1>2, <2>3, FillType DEF PacketUnderWay, TxFill
<1>8. CASE ~(txMode = "XMODEM_1K" /\ Left < KBlockLen)
  <2>1. BlockSize(txMode) \in Nat
    BY <1>1, SizeType DEF TxTypeOK
  <2>2. txMode' = txMode /\ (txMode = "XMODEM_1K" => Left >= KBlockLen)
    BY <1>2, <1>4, <1>5, <1>8, LengthAssumption DEF ModeAfter, BlockSize
  <2>3. eofDetected' <=> Left < BlockSize(txMode)
    BY <1>2, <1>4, <1>6, <2>1, <2>2
  <2>4. QED
    BY <1>1, <1>2, <2>2, <2>3, FillType DEF PacketUnderWay, TxFill
<1>9. QED
  BY <1>7, <1>8

(* A response moves on past a packet that is acknowledged, or goes back to *)
(* the same position.                                                      *)
LEMMA AckInv ==
    ASSUME TxInv, TxAck
    PROVE  /\ txPc' \in {"fill", "eot"} /\ txStatus' = txStatus
           /\ txPc' = "fill" => AtTop'
           /\ txPc' = "eot" => AllAcked'
<1> USE DEF TxInv
<1>1. TxTypeOK /\ PacketUnderWay
  BY DEF TxAck, TxResponse
<1>2. BlockSize(txMode) \in Nat \ {0} /\ Left \in Nat /\ ackedTo \in Nat /\ srcPos = ackedTo
  BY <1>1, SizeType DEF TxTypeOK, PacketUnderWay, Left
<1>3. /\ ackedTo' = ackedTo + BlockSize(txMode) /\ lastSent' = BlockSize(txMode)
      /\ srcPos' = srcPos /\ source' = source /\ txMode' = txMode /\ txBuf' = txBuf
      /\ blkNo' = (blkNo + 1) % NumBlockNos
      /\ eofDetected' = eofDetected /\ txStatus' = txStatus
  BY <1>1 DEF TxAck, TxResponse, SentSize, BlkAfter, EofAfter, TxTypeOK
<1>4. txPc' = IF eofDetected THEN "eot" ELSE "fill"
  BY DEF TxAck, TxResponse, EofAfter
<1>5. Left' = Left - BlockSize(txMode)
  BY <1>2, <1>3 DEF Left, TxTypeOK
<1>6. ASSUME ~eofDetected PROVE AtTop'
  <2>1. Left >= BlockSize(txMode)
    BY <1>1, <1>2, <1>6 DEF PacketUnderWay
  <2>2. BufferAtTop'
    BY <1>1, <1>2, <1>3 DEF BufferAtTop, PacketUnderWay
  <2>3. QED
    BY <1>2, <1>3, <1>5, <1>6, <2>1, <2>2 DEF AtTop
<1>7. ASSUME eofDetected PROVE AllAcked'
  <2>1. Left < BlockSize(txMode)
    BY <1>1, <1>7 DEF PacketUnderWay
  <2>2. BlockSize(txMode) = BlockLen
    BY <1>1, <1>2, <2>1, LengthAssumption DEF PacketUnderWay, BlockSize
  <2>3. Len(source) \in Nat /\ source' = source
    BY <1>1, <1>3, TxAssumption DEF TxTypeOK
  <2>4. Len(source) < ackedTo + BlockLen /\ ackedTo <= Len(source)
    BY <1>2, <2>1, <2>2, <2>3, LengthAssumption DEF Left
  <2>5. QED
    BY <1>2, <1>3, <2>2, <2>3, <2>4, LengthAssumption DEF AllAcked
<1>8. QED
  BY <1>3, <1>4, <1>6, <1>7

LEMMA NakInv ==
    ASSUME TxInv, TxNak
    PROVE  txPc' = "fill" /\ AtTop'
<1> USE DEF TxInv
<1>1. TxTypeOK /\ PacketUnderWay
  BY DEF TxNak, TxResponse
<1>2. /\ txPc' = "fill" /\ ~eofDetected' /\ lastSent' = 0
      /\ UNCHANGED <<ackedTo, srcPos, source, txMode, txBuf, blkNo>>
  <2>1. ~EofAfter(NAK) /\ SentSize(NAK) = 0 /\ BlkAfter(NAK) = blkNo
    BY DEF EofAfter, SentSize, BlkAfter, ACK, NAK
  <2>2. QED
    BY <2>1 DEF TxNak, TxResponse
<1>3. Left' = Left /\ ackedTo = srcPos /\ srcPos \in Nat
  BY <1>1, <1>2 DEF Left, PacketUnderWay, TxTypeOK
<1>4. BufferAtTop'
  BY <1>1, <1>2, <1>3 DEF BufferAtTop, PacketUnderWay, BlockSize
<1>5. QED
  BY <1>1, <1>2, <1>3, <1>4 DEF AtTop, PacketUnderWay

(* Steps that leave the data, the packet and its number as they are. *)
DataVars == <<txMode, source, srcPos, lastSent, eofDetected, blkNo, txBuf, ackedTo>>

LEMMA SameData ==
    ASSUME UNCHANGED DataVars
    PROVE  /\ NothingSent' = NothingSent /\ AtTop' = AtTop
           /\ PacketUnderWay' = PacketUnderWay /\ AllAcked' = AllAcked
  BY DEF DataVars, NothingSent, AtTop, BufferAtTop, PacketUnderWay, AllAcked, Left

(* From the receiver's ready code the first packet starts at position 0. *)
LEMMA ReadyInv ==
    ASSUME TxInv, TxReady
    PROVE  /\ NothingSent' /\ (txPc' = "fill" => AtTop') /\ txPc' \in {"ready", "fill"}
<1> USE DEF TxInv
<1>1. TxTypeOK /\ NothingSent /\ UNCHANGED DataVars
  BY DEF TxReady, DataVars
<1>2. NothingSent'
  BY <1>1, SameData
<1>3. AtTop
  BY <1>1, TxAssumption DEF AtTop, BufferAtTop, NothingSent, Left, TxTypeOK
<1>4. QED
  BY <1>1, <1>2, <1>3, SameData DEF TxReady

LEMMA InvNext == TxInv /\ [TxSpecNext]_<<txVars, lines>> => TxInv'
<1> SUFFICES ASSUME TxInv, [TxSpecNext]_<<txVars, lines>> PROVE TxInv'
  OBVIOUS
<1>0. TxTypeOK /\ TxTypeOK'
  BY TypeNext DEF TxInv
<1>1. CASE TxStart
  <2>1. UNCHANGED DataVars /\ txPc' = "ready"
    BY <1>1 DEF TxStart, DataVars
  <2>2. NothingSent
    BY <1>1 DEF TxInv, TxStart
  <2>3. QED
    BY <1>0, <2>1, <2>2, SameData DEF TxInv
<1>2. CASE TxReady
  BY <1>0, <1>2, ReadyInv DEF TxInv
<1>3. CASE TxSend \/ TxSendFails
  BY <1>0, <1>3, FillInv DEF TxInv, TxSend, TxSendFails
<1>4. CASE TxFlush
  <2>1. UNCHANGED DataVars /\ txPc' = "resp" /\ txPc = "sent"
    BY <1>4 DEF TxFlush, DataVars
  <2>2. QED
    BY <1>0, <2>1, SameData DEF TxInv
<1>5. CASE TxAck
  BY <1>0, <1>5, AckInv DEF TxInv
<1>6. CASE TxNak
  BY <1>0, <1>6, NakInv DEF TxInv
<1>7. CASE TxCancelled
  BY <1>0, <1>7 DEF TxInv, TxCancelled, TxReturn
<1>8. CASE TxSendEot \/ TxEotFails
  <2>1. UNCHANGED DataVars /\ txPc' = "fin" /\ txPc = "eot"
    BY <1>8 DEF TxSendEot, TxEotFails, DataVars
  <2>2. QED
    BY <1>0, <2>1, SameData DEF TxInv
<1>9. CASE TxFinish
  <2>1. UNCHANGED DataVars /\ txPc' \in {"done", "eot"} /\ txPc = "fin"
    BY <1>9 DEF TxFinish, DataVars, TxReturn
  <2>2. AllAcked'
    BY <2>1, SameData DEF TxInv
  <2>3. QED
    BY <1>0, <2>1, <2>2 DEF TxInv
<1>10. CASE TxChannelError
  BY <1>0, <1>10 DEF TxInv, TxChannelError, TxReturn
<1>11. CASE TxTimeout \/ TxHwError
  <2>1. txPc' = "done" /\ txStatus' # "MODEM_NO_ERRORS"
    BY <1>11 DEF TxTimeout, TxHwError, TxReadFails, TxReturn, SerialToModemError
  <2>2. QED
    BY <1>0, <2>1 DEF TxInv
<1>12. CASE PeerSends \/ PeerReads \/ UNCHANGED <<txVars, lines>>
  <2>1. UNCHANGED <<DataVars, txPc, txStatus>>
    BY <1>12 DEF PeerSends, PeerReads, txVars, DataVars
  <2>2. QED
    BY <1>0, <2>1, SameData DEF TxInv
<1>13. QED
  BY <1>1, <1>2, <1>3, <1>4, <1>5, <1>6, <1>7, <1>8, <1>9, <1>10, <1>11, <1>12
     DEF TxSpecNext, TxNext, TxProgress

THEOREM TxInvariant == TxSpec => []TxInv
  BY InvInit, InvNext, PTL DEF TxSpec

(* The packet under way carries the data that follows what has been        *)
(* acknowledged, after any responses of the receiver.                      *)
THEOREM TxPacketsInOrder == TxSpec => []PacketCarriesNextData
<1>1. TxInv => PacketCarriesNextData
  BY DEF TxInv, PacketCarriesNextData, PacketUnderWay
<1>2. QED
  BY <1>1, TxInvariant, PTL

(* MODEM_NO_ERRORS from xmodem_tx means that every byte of the source was  *)
(* in a packet that was acknowledged.                                      *)
THEOREM TxSuccessComplete == TxSpec => []SuccessCoversSource
<1>1. TxInv => SuccessCoversSource
  BY DEF TxInv, SuccessCoversSource, AllAcked
<1>2. QED
  BY <1>1, TxInvariant, PTL

-----------------------------------------------------------------------------
(* A packet that follows a NAK is the same packet: the position, the mode  *)
(* and the number are those of the packet in the buffer.                   *)
LEMMA SendsAgain ==
    ASSUME TxInv, TxFill, lastSent = 0, txBuf # << >>
    PROVE  txMode' = txMode /\ txBuf' = txBuf
<1>1. TxTypeOK /\ AtTop
  BY DEF TxFill, TxInv
<1>2. /\ txBuf' = Packet(txMode', blkNo, Block(source, srcPos', BlockSize(txMode')))
      /\ srcPos' = srcPos + lastSent
      /\ txMode' = ModeAfter(BytesRead(srcPos + lastSent))
  BY <1>1, FillType
<1>3. /\ txBuf = Packet(txMode, blkNo, Block(source, srcPos, BlockSize(txMode)))
      /\ txMode = "XMODEM_1K" => Left >= KBlockLen
  BY <1>1 DEF AtTop, BufferAtTop
<1>4. srcPos' = srcPos /\ Left = Len(source) - (srcPos + lastSent) /\ Left \in Int
  BY <1>1, <1>2, TxAssumption DEF AtTop, Left, TxTypeOK
<1>5. txMode' = txMode
  BY <1>2, <1>3, <1>4, LengthAssumption DEF ModeAfter, BytesRead, BlockSize
<1>6. QED
  BY <1>2, <1>3, <1>4, <1>5

LEMMA ChangeOnAck ==
    ASSUME TxInv, [TxSpecNext]_<<txVars, lines>>, txBuf' # txBuf, txBuf # << >>
    PROVE  lastSent > 0 /\ txBuf'[2] = (txBuf[2] + 1) % NumBlockNos
<1> USE DEF TxInv
<1>1. TxFill
  BY DEF TxSpecNext, TxNext, TxProgress, TxSend, TxSendFails, TxEotFails, TxStart, TxReady, TxFlush, TxAck, TxNak, TxResponse,
         TxCancelled, TxSendEot, TxFinish, TxChannelError, TxTimeout, TxHwError, TxReadFails,
         PeerSends, PeerReads, txVars, lines
<1>2. TxTypeOK /\ AtTop
  BY <1>1 DEF TxFill
<1>3. txBuf'[2] = blkNo
  BY <1>1, <1>2, FillType
<1>4. lastSent # 0
  BY <1>1, SendsAgain
<1>5. QED
  BY <1>2, <1>3, <1>4 DEF AtTop, BufferAtTop, TxTypeOK

(* The packet in the buffer changes after an ACK only, and to the next     *)
(* block number: a NAK repeats the packet.                                 *)
THEOREM TxRepeatsPacket == TxSpec => PacketChangesOnAckOnly
<1> DEFINE Changed == txBuf' # txBuf /\ txBuf # << >>
           OnAck == lastSent > 0 /\ txBuf'[2] = (txBuf[2] + 1) % NumBlockNos
<1>1. TxInv /\ [TxSpecNext]_<<txVars, lines>> => [Changed => OnAck]_<<txVars, lines>>
  BY ChangeOnAck
<1>2. QED
  BY <1>1, TxInvariant, PTL DEF TxSpec, PacketChangesOnAckOnly
=============================================================================
