-------------------------- MODULE XmodemRx_proofs --------------------------
(***************************************************************************)
(* Proofs about the receiver of XmodemRx, for every length of block, every *)
(* limit, every sink and every peer.                                       *)
(***************************************************************************)
EXTENDS XmodemRx, SequenceTheorems, TLAPS

(* The mode is the caller's, or XMODEM after a fallback from XMODEM_CRC. *)
ModeKept == rxMode = callMode \/ (callMode = "XMODEM_CRC" /\ rxMode = "XMODEM")

RxInv == RxTypeOK /\ ModeKept

-----------------------------------------------------------------------------
LEMMA CodesAreBytes == {ACK, NAK, CAN, ASCII_C} \subseteq Byte
BY DEF ACK, NAK, CAN, ASCII_C, Byte

LEMMA AppendByte ==
    ASSUME NEW s \in Seq(Byte), NEW b \in Byte
    PROVE  Append(s, b) \in Seq(Byte) /\ Last(Append(s, b)) = b
<1>1. Append(s, b) \in Seq(Byte) /\ Len(Append(s, b)) = Len(s) + 1
  OBVIOUS
<1>2. Append(s, b)[Len(s) + 1] = b
  OBVIOUS
<1> QED
  BY <1>1, <1>2 DEF Last

(* What a read leaves of a line is a line. *)
LEMMA RestOfLine ==
    ASSUME NEW line \in Seq(Byte), NEW n \in Nat
    PROVE  Without(line, n) \in Seq(Byte)
<1>1. Len(line) \in Nat /\ \A i \in n + 1 .. Len(line) : line[i] \in Byte
  BY LenProperties, ElementOfSeq
<1>2. SubSeq(line, n + 1, Len(line)) \in Seq(Byte)
  BY <1>1, SubSeqProperties
<1> QED
  BY <1>2 DEF Without

LEMMA SizeTypes ==
    ASSUME RxTypeOK
    PROVE  DataSize \in Nat /\ CheckSize(rxMode) \in {1, 2} /\ RestSize \in Nat
<1>1. DataSize \in Nat
  BY LengthAssumption DEF DataSize
<1>2. CheckSize(rxMode) \in {1, 2}
  BY DEF CheckSize
<1> QED
  BY <1>1, <1>2 DEF RestSize

(* The payload of the packet that is read, and the part the sink has room  *)
(* for.                                                                    *)
LEMMA RestDataType ==
    ASSUME RxTypeOK, Len(fwd) >= RestSize
    PROVE  /\ RestData \in Seq(Byte) /\ Len(RestData) = DataSize
           /\ SinkRoom \in Nat
           /\ SinkRoom < DataSize => /\ SubSeq(RestData, 1, SinkRoom) \in Seq(Byte)
                                     /\ Len(SubSeq(RestData, 1, SinkRoom)) = SinkRoom
<1>1. DataSize \in Nat /\ RestSize >= DataSize + 2 /\ RestSize \in Nat
  BY SizeTypes DEF RestSize
<1>2. fwd \in Seq(Byte) /\ sink \in Seq(Byte) /\ Len(sink) <= SinkSize
  BY DEF RxTypeOK, LinesTypeOK
<1>3. Len(fwd) \in Nat /\ Len(sink) \in Nat
  BY <1>2, LenProperties
<1>4. \A i \in 3 .. DataSize + 2 : fwd[i] \in Byte
  BY <1>1, <1>2, <1>3, ElementOfSeq
<1>5. RestData \in Seq(Byte) /\ Len(RestData) = DataSize
  <2>1. SubSeq(fwd, 3, DataSize + 2) \in Seq(Byte)
    BY <1>1, <1>4, SubSeqProperties
  <2>2. Len(SubSeq(fwd, 3, DataSize + 2)) =
            IF 3 <= DataSize + 2 THEN DataSize + 2 - 3 + 1 ELSE 0
    BY <1>1, <1>4, SubSeqProperties
  <2> QED
    BY <1>1, <2>1, <2>2 DEF RestData
<1>6. SinkRoom \in Nat
  BY <1>2, <1>3, RxAssumption DEF SinkRoom
<1>7. ASSUME SinkRoom < DataSize
      PROVE  /\ SubSeq(RestData, 1, SinkRoom) \in Seq(Byte)
             /\ Len(SubSeq(RestData, 1, SinkRoom)) = SinkRoom
  <2>1. \A i \in 1 .. SinkRoom : RestData[i] \in Byte
    BY <1>1, <1>5, <1>6, <1>7, ElementOfSeq
  <2>2. Len(SubSeq(RestData, 1, SinkRoom)) = IF 1 <= SinkRoom THEN SinkRoom - 1 + 1 ELSE 0
    BY <1>6, <2>1, SubSeqProperties
  <2>3. SubSeq(RestData, 1, SinkRoom) \in Seq(Byte)
    BY <1>6, <2>1, SubSeqProperties
  <2> QED
    BY <1>6, <2>2, <2>3
<1> QED
  BY <1>5, <1>6, <1>7

-----------------------------------------------------------------------------
(* What ReadAgain makes of the variables it sets. *)
Reread ==
    /\ rxPc' \in {"wait", "done"}
    /\ rxMode' \in Modes
    /\ rxMode' = rxMode \/ (rxMode = "XMODEM_CRC" /\ rxMode' = "XMODEM")
    /\ rxStatus' \in ModemErrors
    /\ rxCode' \in {NAK, ASCII_C}
    /\ errorCount' \in 0 .. MaxErrors
    /\ bwd' \in Seq(Byte)
    /\ rxPc' = "done" => rxStatus' = "MODEM_TIMEOUT" /\ Last(bwd') = CAN

LEMMA ReadAgainType ==
    ASSUME RxInv, NEW n \in Nat, NEW out \in Seq(Byte), NEW code \in {NAK, ASCII_C},
           ReadAgain(n, out, code)
    PROVE  Reread
<1>1. bwd \o out \in Seq(Byte)
  BY ConcatProperties DEF RxInv, RxTypeOK, LinesTypeOK
<1>2. CASE TooMany(n)
  <2>1. /\ bwd' = Append(bwd \o out, CAN)
        /\ rxPc' = "done" /\ rxStatus' = "MODEM_TIMEOUT"
        /\ UNCHANGED <<rxMode, rxCode, errorCount>>
    BY <1>2 DEF ReadAgain, RxReturn
  <2>2. bwd' \in Seq(Byte) /\ Last(bwd') = CAN
    BY <1>1, <2>1, AppendByte, CodesAreBytes
  <2> QED
    BY <2>1, <2>2 DEF Reread, RxInv, RxTypeOK, ModemErrors
<1>3. CASE ~TooMany(n)
  <2>1. /\ bwd' = bwd \o out /\ errorCount' = n /\ rxPc' = "wait"
        /\ UNCHANGED rxStatus
        /\ \/ rxMode = "XMODEM_CRC" /\ rxMode' = "XMODEM" /\ rxCode' = NAK
           \/ rxMode' = rxMode /\ rxCode' = code
    BY <1>3 DEF ReadAgain
  <2>2. errorCount' \in 0 .. MaxErrors
    BY <1>3, <2>1, RxAssumption DEF TooMany
  <2> QED
    BY <1>1, <2>1, <2>2 DEF Reread, RxInv, RxTypeOK, Modes
<1> QED
  BY <1>2, <1>3

(* The same for a return with a code as the last byte. *)
LEMMA ReturnType ==
    ASSUME RxInv, NEW status \in ModemErrors, RxReturn(status),
           NEW b \in {ACK, CAN}, bwd' = Append(bwd, b)
    PROVE  /\ rxPc' = "done" /\ rxStatus' = status /\ rxStatus' \in ModemErrors
           /\ bwd' \in Seq(Byte) /\ Last(bwd') = b
BY AppendByte, CodesAreBytes DEF RxReturn, RxInv, RxTypeOK, LinesTypeOK

LEMMA Outputs ==
    /\ << >> \in Seq(Byte) /\ <<ACK>> \in Seq(Byte) /\ <<NAK>> \in Seq(Byte)
    /\ \A code \in {NAK, ASCII_C} : <<code>> \in Seq(Byte)
<1>1. << >> \in Seq(Byte)
  BY EmptySeq
<1>2. \A b \in Byte : <<b>> \in Seq(Byte)
  OBVIOUS
<1> QED
  BY <1>1, <1>2, CodesAreBytes

-----------------------------------------------------------------------------
LEMMA InitInv == RxSpecInit => RxInv
<1> SUFFICES ASSUME RxSpecInit PROVE RxInv
  OBVIOUS
<1>1. << >> \in Seq(Byte) /\ Len(<< >>) = 0
  BY EmptySeq
<1>2. rxCode \in {NAK, ASCII_C}
  BY DEF RxSpecInit, RxInit, FirstCode
<1>3. 0 \in 0 .. MaxErrors /\ 1 \in 0 .. NumBlockNos - 1 /\ 0 \in 0 .. MaxSinkErrors
  BY RxAssumption, LengthAssumption
<1>4. "SERIAL_NO_ERRORS" \in DOMAIN SerialToModemError
  BY DEF SerialToModemError
<1>5. 0 <= SinkSize
  BY RxAssumption
<1> QED
  BY <1>1, <1>2, <1>3, <1>4, <1>5
     DEF RxSpecInit, RxInit, LinesInit, RxInv, RxTypeOK, LinesTypeOK, ModeKept, ModemErrors

(* Steps of the loop that reads the first byte. *)
LEMMA WaitInv ==
    ASSUME RxInv, RxStart \/ RxJunk \/ RxWaitTimeout \/ RxWaitHwError
    PROVE  RxInv' /\ Reread
<1> USE DEF RxInv
<1>1. errorCount + 1 \in Nat /\ rxCode \in {NAK, ASCII_C}
  BY RxAssumption DEF RxTypeOK
<1>2. Reread
  <2>1. CASE RxStart
    BY <1>1, <2>1, Outputs, ReadAgainType DEF RxStart, FirstAttempt
  <2>2. CASE RxJunk
    BY <1>1, <2>2, Outputs, ReadAgainType DEF RxJunk
  <2>3. CASE RxWaitTimeout
    BY <1>1, <2>3, Outputs, ReadAgainType DEF RxWaitTimeout
  <2>4. CASE RxWaitHwError
    BY <1>1, <2>4, Outputs, ReadAgainType DEF RxWaitHwError
  <2> QED
    BY <2>1, <2>2, <2>3, <2>4
<1>3. /\ UNCHANGED <<callMode, using128, expBlk, badRead, sink, sinkErrors, rxPortUp>>
      /\ failures' \in Nat
  BY DEF RxStart, RxJunk, RxWaitTimeout, RxWaitHwError, OneMoreFailure, RxTypeOK
<1>4. fwd' \in Seq(Byte)
  <2>1. CASE RxJunk
    BY <2>1, HeadTailProperties DEF RxJunk, RxTypeOK, LinesTypeOK
  <2>2. CASE ~RxJunk
    BY <2>2 DEF RxStart, RxWaitTimeout, RxWaitHwError, RxTypeOK, LinesTypeOK
  <2> QED
    BY <2>1, <2>2
<1> QED
  BY <1>2, <1>3, <1>4 DEF Reread, RxTypeOK, LinesTypeOK, ModeKept

LEMMA StartCharInv == ASSUME RxInv, RxStartChar PROVE RxInv'
<1>1. fwd' \in Seq(Byte)
  BY HeadTailProperties DEF RxStartChar, RxInv, RxTypeOK, LinesTypeOK
<1>2. using128' \in BOOLEAN
  BY DEF RxStartChar
<1> QED
  BY <1>1, <1>2 DEF RxStartChar, RxInv, RxTypeOK, LinesTypeOK, ModeKept

LEMMA EotInv ==
    ASSUME RxInv, RxEot
    PROVE  RxInv' /\ Last(bwd') = ACK /\ rxStatus' = "MODEM_NO_ERRORS"
<1>1. fwd' \in Seq(Byte)
  BY HeadTailProperties DEF RxEot, RxInv, RxTypeOK, LinesTypeOK
<1>2. /\ rxPc' = "done" /\ rxStatus' = "MODEM_NO_ERRORS" /\ rxStatus' \in ModemErrors
      /\ bwd' \in Seq(Byte) /\ Last(bwd') = ACK
  BY ReturnType DEF RxEot, ModemErrors
<1> QED
  BY <1>1, <1>2 DEF RxEot, RxInv, RxTypeOK, LinesTypeOK, ModeKept

LEMMA TakeRestType ==
    ASSUME RxInv, TakeRest
    PROVE  fwd' \in Seq(Byte) /\ Len(fwd) >= RestSize
BY SizeTypes, RestOfLine DEF TakeRest, RxInv, RxTypeOK, LinesTypeOK

LEMMA MismatchInv ==
    ASSUME RxInv, RxMismatch
    PROVE  RxInv' /\ Last(bwd') = CAN /\ rxStatus' # "MODEM_NO_ERRORS"
<1>1. fwd' \in Seq(Byte)
  BY TakeRestType DEF RxMismatch
<1>2. /\ rxPc' = "done" /\ rxStatus' = "PACKET_MISMATCH" /\ rxStatus' \in ModemErrors
      /\ bwd' \in Seq(Byte) /\ Last(bwd') = CAN
  BY ReturnType DEF RxMismatch, ModemErrors
<1> QED
  BY <1>1, <1>2 DEF RxMismatch, RxInv, RxTypeOK, LinesTypeOK, ModeKept

LEMMA BadCheckInv == ASSUME RxInv, RxBadCheck PROVE RxInv' /\ Reread
<1>1. fwd' \in Seq(Byte)
  BY TakeRestType DEF RxBadCheck
<1>2. errorCount + 1 \in Nat
  BY RxAssumption DEF RxInv, RxTypeOK
<1>3. Reread
  BY <1>2, Outputs, ReadAgainType DEF RxBadCheck, NextCode
<1> QED
  BY <1>1, <1>3 DEF RxBadCheck, OneMoreFailure, Reread, RxInv, RxTypeOK, LinesTypeOK, ModeKept

(* A good packet, stored or not, and its answer. *)
LEMMA GoodPacketInv ==
    ASSUME RxInv, GoodPacket
    PROVE  /\ fwd' \in Seq(Byte) /\ expBlk' \in 0 .. NumBlockNos - 1
           /\ UNCHANGED <<callMode, using128, badRead, rxPortUp>>
           /\ RestData \in Seq(Byte) /\ Len(RestData) = DataSize
           /\ DataSize \in Nat /\ SinkRoom \in Nat
<1>1. fwd' \in Seq(Byte) /\ Len(fwd) >= RestSize
  BY TakeRestType DEF GoodPacket
<1>2. expBlk' \in 0 .. NumBlockNos - 1
  BY LengthAssumption DEF GoodPacket, RxInv, RxTypeOK
<1> QED
  BY <1>1, <1>2, RestDataType, SizeTypes DEF GoodPacket, RxInv

LEMMA StoreInv == ASSUME RxInv, RxStore PROVE RxInv' /\ Reread
<1>1. /\ fwd' \in Seq(Byte) /\ expBlk' \in 0 .. NumBlockNos - 1
      /\ UNCHANGED <<callMode, using128, badRead, rxPortUp, sinkErrors>>
      /\ RestData \in Seq(Byte) /\ Len(RestData) = DataSize
      /\ DataSize \in Nat /\ SinkRoom \in Nat
  BY GoodPacketInv DEF RxStore
<1>2. sink' \in Seq(Byte) /\ Len(sink') <= SinkSize
  <2>1. sink \in Seq(Byte) /\ Len(sink) \in Nat
    BY LenProperties DEF RxInv, RxTypeOK
  <2>2. sink' = sink \o RestData /\ SinkRoom >= DataSize
    BY DEF RxStore
  <2>3. sink' \in Seq(Byte) /\ Len(sink') = Len(sink) + DataSize
    BY <1>1, <2>1, <2>2, ConcatProperties
  <2> QED
    BY <1>1, <2>1, <2>2, <2>3, RxAssumption DEF SinkRoom
<1>3. Reread /\ failures' = 0
  BY Outputs, ReadAgainType DEF RxStore, NextCode, FirstAttempt
<1> QED
  BY <1>1, <1>2, <1>3 DEF Reread, RxInv, RxTypeOK, LinesTypeOK, ModeKept

LEMMA SinkFullInv ==
    ASSUME RxInv, RxSinkFull
    PROVE  RxInv' /\ Last(bwd') = CAN /\ rxStatus' # "MODEM_NO_ERRORS"
<1>1. /\ fwd' \in Seq(Byte) /\ expBlk' \in 0 .. NumBlockNos - 1
      /\ UNCHANGED <<callMode, using128, badRead, rxPortUp, sinkErrors, rxMode, rxCode, errorCount, failures>>
      /\ DataSize \in Nat /\ SinkRoom \in Nat
  BY GoodPacketInv DEF RxSinkFull
<1>2. sink' \in Seq(Byte) /\ Len(sink') <= SinkSize
  <2> DEFINE part == SubSeq(RestData, 1, SinkRoom)
  <2>1. sink \in Seq(Byte) /\ Len(sink) \in Nat
    BY LenProperties DEF RxInv, RxTypeOK
  <2>2. Len(fwd) >= RestSize
    BY TakeRestType DEF RxSinkFull, GoodPacket
  <2>3. part \in Seq(Byte) /\ Len(part) = SinkRoom
    BY <2>2, RestDataType DEF RxSinkFull, RxInv
  <2>4. sink' = sink \o part
    BY DEF RxSinkFull
  <2>5. sink' \in Seq(Byte) /\ Len(sink') = Len(sink) + SinkRoom
    BY <2>1, <2>3, <2>4, ConcatProperties
  <2> QED
    BY <1>1, <2>1, <2>5, RxAssumption DEF SinkRoom
<1>3. /\ rxPc' = "done" /\ rxStatus' = "CHANNEL_ERROR" /\ rxStatus' \in ModemErrors
      /\ bwd' \in Seq(Byte) /\ Last(bwd') = CAN
  BY ReturnType DEF RxSinkFull, ModemErrors
<1> QED
  BY <1>1, <1>2, <1>3 DEF RxInv, RxTypeOK, LinesTypeOK, ModeKept

LEMMA SinkErrorInv == ASSUME RxInv, RxSinkError PROVE RxInv' /\ Reread
<1>1. /\ fwd' \in Seq(Byte) /\ expBlk' \in 0 .. NumBlockNos - 1
      /\ UNCHANGED <<callMode, using128, badRead, rxPortUp, sink>>
  BY GoodPacketInv DEF RxSinkError
<1>2. sinkErrors' \in 0 .. MaxSinkErrors
  BY RxAssumption DEF RxSinkError, RxInv, RxTypeOK
<1>3. Reread /\ failures' = 0
  BY Outputs, ReadAgainType DEF RxSinkError, NextCode, FirstAttempt
<1> QED
  BY <1>1, <1>2, <1>3 DEF Reread, RxInv, RxTypeOK, LinesTypeOK, ModeKept

LEMMA RestFailsInv ==
    ASSUME RxInv, NEW serStatus \in DOMAIN SerialToModemError, RestFails(serStatus)
    PROVE  RxInv'
<1>1. fwd' \in Seq(Byte)
  <2>1. PICK n \in 0 .. RestSize - 1 : fwd' = Without(fwd, n)
    BY DEF RestFails
  <2>2. n \in Nat
    BY SizeTypes DEF RxInv
  <2> QED
    BY <2>1, <2>2, RestOfLine DEF RxInv, RxTypeOK, LinesTypeOK
<1> QED
  BY <1>1 DEF RestFails, RxInv, RxTypeOK, LinesTypeOK, ModeKept

LEMMA PurgeByteInv == ASSUME RxInv, RxPurgeByte PROVE RxInv'
<1>1. fwd' \in Seq(Byte)
  BY HeadTailProperties DEF RxPurgeByte, RxInv, RxTypeOK, LinesTypeOK
<1> QED
  BY <1>1 DEF RxPurgeByte, rxVars, RxInv, RxTypeOK, LinesTypeOK, ModeKept

LEMMA PurgedInv ==
    ASSUME RxInv, RxPurged
    PROVE  /\ RxInv'
           /\ rxPc' = "done" => Last(bwd') = CAN /\ rxStatus' # "MODEM_NO_ERRORS"
<1>1. UNCHANGED <<callMode, using128, expBlk, badRead, sink, sinkErrors, rxPortUp, fwd>>
  BY DEF RxPurged
<1>2. CASE badRead = "SERIAL_TIMEOUT"
  <2>1. errorCount + 1 \in Nat
    BY RxAssumption DEF RxInv, RxTypeOK
  <2>2. Reread
    BY <1>2, <2>1, Outputs, ReadAgainType DEF RxPurged, NextCode
  <2> QED
    BY <1>1, <1>2, <2>2
       DEF RxPurged, OneMoreFailure, Reread, RxInv, RxTypeOK, LinesTypeOK, ModeKept
<1>3. CASE badRead # "SERIAL_TIMEOUT"
  <2>1. /\ bwd' = Append(bwd, CAN) /\ RxReturn("UNDEFINED_ERROR")
        /\ UNCHANGED <<rxMode, rxCode, errorCount, failures>>
    BY <1>3 DEF RxPurged
  <2>2. /\ rxPc' = "done" /\ rxStatus' = "UNDEFINED_ERROR" /\ rxStatus' \in ModemErrors
        /\ bwd' \in Seq(Byte) /\ Last(bwd') = CAN
    BY <2>1, ReturnType DEF ModemErrors
  <2> QED
    BY <1>1, <2>1, <2>2 DEF RxInv, RxTypeOK, LinesTypeOK, ModeKept
<1> QED
  BY <1>2, <1>3

(* The peer and the port. *)
LEMMA OthersInv ==
    ASSUME RxInv, RxPort \/ SenderSends \/ SenderReads
    PROVE  RxInv' /\ rxPc' = rxPc
<1>1. CASE RxPort
  BY <1>1 DEF RxPort, lines, RxInv, RxTypeOK, LinesTypeOK, ModeKept
<1>2. CASE SenderSends
  <2>1. fwd' \in Seq(Byte)
    BY <1>2, RxAssumption, ConcatProperties DEF SenderSends, RxInv, RxTypeOK, LinesTypeOK
  <2> QED
    BY <1>2, <2>1 DEF SenderSends, rxVars, RxInv, RxTypeOK, LinesTypeOK, ModeKept
<1>3. CASE SenderReads
  <2>1. bwd' \in Seq(Byte)
    BY <1>3, EmptySeq DEF SenderReads
  <2> QED
    BY <1>3, <2>1 DEF SenderReads, rxVars, RxInv, RxTypeOK, LinesTypeOK, ModeKept
<1> QED
  BY <1>1, <1>2, <1>3

-----------------------------------------------------------------------------
(* The last byte sent tells how the function ended, when it ends. *)
Tells ==
    rxPc # "done" /\ rxPc' = "done" =>
        Last(bwd') = IF rxStatus' = "MODEM_NO_ERRORS" THEN ACK ELSE CAN

LEMMA NextInv ==
    ASSUME RxInv, [RxSpecNext]_<<rxVars, lines>> PROVE RxInv' /\ Tells
<1>1. CASE UNCHANGED <<rxVars, lines>>
  BY <1>1 DEF rxVars, lines, RxInv, RxTypeOK, LinesTypeOK, ModeKept, Tells
<1>2. CASE RxStart \/ RxJunk \/ RxWaitTimeout \/ RxWaitHwError
  BY <1>2, WaitInv DEF Reread, Tells
<1>3. CASE RxStartChar
  BY <1>3, StartCharInv DEF RxStartChar, Tells
<1>4. CASE RxEot
  BY <1>4, EotInv DEF Tells
<1>5. CASE RxMismatch
  BY <1>5, MismatchInv DEF Tells
<1>6. CASE RxBadCheck
  BY <1>6, BadCheckInv DEF Reread, Tells
<1>7. CASE RxStore
  BY <1>7, StoreInv DEF Reread, Tells
<1>8. CASE RxSinkFull
  BY <1>8, SinkFullInv DEF Tells
<1>9. CASE RxSinkError
  BY <1>9, SinkErrorInv DEF Reread, Tells
<1>10. CASE RxRestTimeout \/ RxRestHwError
  <2>1. PICK serStatus \in DOMAIN SerialToModemError : RestFails(serStatus)
    BY <1>10 DEF RxRestTimeout, RxRestHwError, SerialToModemError
  <2> QED
    BY <2>1, RestFailsInv DEF RestFails, Tells
<1>11. CASE RxPurgeByte
  BY <1>11, PurgeByteInv DEF RxPurgeByte, rxVars, Tells
<1>12. CASE RxPurged
  BY <1>12, PurgedInv DEF Tells
<1>13. CASE RxPort \/ SenderSends \/ SenderReads
  BY <1>13, OthersInv DEF Tells
<1> QED
  BY <1>1, <1>2, <1>3, <1>4, <1>5, <1>6, <1>7, <1>8, <1>9, <1>10, <1>11, <1>12, <1>13
     DEF RxSpecNext, RxNext, RxProgress, RxTimeout, RxHwError

(* Every variable of xmodem_rx keeps its type: the error count stays       *)
(* within its limit, the block number is a byte, the sink is not overrun,  *)
(* and only bytes are sent, whatever the peer sends.                       *)
THEOREM RxTyped == RxSpec => []RxTypeOK
<1>1. RxInv /\ [RxSpecNext]_<<rxVars, lines>> => RxInv'
  BY NextInv
<1>2. RxInv => RxTypeOK
  BY DEF RxInv
<1> QED
  BY <1>1, <1>2, InitInv, PTL DEF RxSpec

(* The reads of xmodem_rx stay in a buffer of the size that modem.h asks   *)
(* for, with any change of packet size and after a fallback to checksum.   *)
THEOREM RxReadsFit == RxSpec => []ReadsFitBuffer
<1>1. RxInv /\ [RxSpecNext]_<<rxVars, lines>> => RxInv'
  BY NextInv
<1>2. RxInv => ReadsFitBuffer
  <2> SUFFICES ASSUME RxInv PROVE 1 + RestSize <= BufferSize(callMode)
    BY DEF ReadsFitBuffer
  <2>1. DataSize <= BlockSize(callMode) /\ DataSize \in Nat /\ BlockSize(callMode) \in Nat
    BY LengthAssumption DEF RxInv, ModeKept, DataSize, BlockSize
  <2>2. /\ CheckSize(rxMode) <= CheckSize(callMode)
        /\ CheckSize(rxMode) \in Nat /\ CheckSize(callMode) \in Nat
    BY DEF RxInv, ModeKept, CheckSize
  <2> QED
    BY <2>1, <2>2 DEF RestSize, BufferSize, DATA
<1> QED
  BY <1>1, <1>2, InitInv, PTL DEF RxSpec

(* Whenever xmodem_rx returns, ACK or CAN is the last byte it has sent,    *)
(* as it succeeded or failed.                                              *)
THEOREM RxTellsPeer == RxSpec => ReturnTellsPeer
<1>1. RxInv /\ [RxSpecNext]_<<rxVars, lines>> => RxInv'
  BY NextInv
<1>2. RxInv /\ [RxSpecNext]_<<rxVars, lines>> => Tells
  BY NextInv
<1>3. []RxInv /\ [][RxSpecNext]_<<rxVars, lines>> => [][Tells]_<<rxVars, lines>>
  BY <1>2, PTL
<1> QED
  BY <1>1, <1>3, InitInv, PTL DEF RxSpec, ReturnTellsPeer, Tells
-----------------------------------------------------------------------------
(* While the function runs, the error count of the code is the number of   *)
(* failures in a row, and it has no result yet.                            *)
Counted ==
    /\ rxPc # "done" => errorCount = failures /\ rxStatus = "MODEM_NO_ERRORS"
    /\ rxPc = "idle" => failures = 0
    /\ GivesUpAtLimit

CountInv == RxInv /\ Counted

(* The top of the loop with one failure more, and with a fresh count.      *)
LEMMA FailureCounted ==
    ASSUME CountInv, rxPc # "done", OneMoreFailure,
           NEW out, NEW code, ReadAgain(errorCount + 1, out, code)
    PROVE  Counted'
<1>1. /\ errorCount \in Nat /\ errorCount <= MaxErrors /\ failures = errorCount
      /\ failures' = errorCount + 1 /\ rxStatus = "MODEM_NO_ERRORS" /\ MaxErrors \in Nat
  BY RxAssumption DEF CountInv, Counted, RxInv, RxTypeOK, OneMoreFailure
<1>2. CASE TooMany(errorCount + 1)
  BY <1>1, <1>2 DEF ReadAgain, RxReturn, TooMany, Counted, GivesUpAtLimit
<1>3. CASE ~TooMany(errorCount + 1)
  BY <1>1, <1>3 DEF ReadAgain, TooMany, Counted, GivesUpAtLimit
<1> QED
  BY <1>2, <1>3

LEMMA FreshCounted ==
    ASSUME CountInv, rxPc # "done", failures' = 0,
           NEW out, NEW code, ReadAgain(FirstAttempt, out, code)
    PROVE  Counted'
<1>1. ~TooMany(FirstAttempt) /\ MaxErrors \in Nat
  BY RxAssumption DEF TooMany, FirstAttempt
<1> QED
  BY <1>1 DEF ReadAgain, FirstAttempt, CountInv, Counted, GivesUpAtLimit

(* Steps that neither fail nor start a new count. *)
LEMMA CountUnchanged ==
    ASSUME CountInv, UNCHANGED <<errorCount, failures>>,
           \/ rxPc' \notin {"idle", "done"} /\ rxPc # "done" /\ UNCHANGED rxStatus
           \/ UNCHANGED <<rxPc, rxStatus>>
           \/ rxPc' = "done" /\ rxPc # "done" /\ rxStatus' # "MODEM_TIMEOUT"
    PROVE  Counted'
BY RxAssumption DEF CountInv, Counted, GivesUpAtLimit, RxInv, RxTypeOK

LEMMA CountNext ==
    ASSUME CountInv, [RxSpecNext]_<<rxVars, lines>> PROVE CountInv'
<1>1. RxInv'
  BY NextInv DEF CountInv
<1>2. Counted'
  <2>1. CASE RxStart
    <3>1. failures' = 0
      BY <2>1 DEF RxStart, CountInv, Counted
    <3> QED
      BY <2>1, <3>1, FreshCounted DEF RxStart
  <2>2. CASE RxJunk \/ RxWaitTimeout \/ RxWaitHwError \/ RxBadCheck
    BY <2>2, FailureCounted
       DEF RxJunk, RxWaitTimeout, RxWaitHwError, RxBadCheck, TakeRest
  <2>3. CASE RxStore \/ RxSinkError
    BY <2>3, FreshCounted DEF RxStore, RxSinkError, GoodPacket, TakeRest
  <2>4. CASE RxEot \/ RxMismatch \/ RxSinkFull
    BY <2>4, CountUnchanged
       DEF RxEot, RxMismatch, RxSinkFull, GoodPacket, TakeRest, RxReturn
  <2>5. CASE RxStartChar \/ RxRestTimeout \/ RxRestHwError \/ RxPurgeByte
    BY <2>5, CountUnchanged
       DEF RxStartChar, RxRestTimeout, RxRestHwError, RestFails, RxPurgeByte, rxVars
  <2>6. CASE RxPurged
    <3>1. CASE badRead = "SERIAL_TIMEOUT"
      BY <2>6, <3>1, FailureCounted DEF RxPurged, PurgeEnds
    <3>2. CASE badRead # "SERIAL_TIMEOUT"
      BY <2>6, <3>2, CountUnchanged DEF RxPurged, PurgeEnds, RxReturn
    <3> QED
      BY <3>1, <3>2
  <2>7. CASE RxPort \/ SenderSends \/ SenderReads \/ UNCHANGED <<rxVars, lines>>
    BY <2>7, CountUnchanged DEF RxPort, SenderSends, SenderReads, rxVars
  <2> QED
    BY <2>1, <2>2, <2>3, <2>4, <2>5, <2>6, <2>7
       DEF RxSpecNext, RxNext, RxProgress, RxTimeout, RxHwError
<1> QED
  BY <1>1, <1>2 DEF CountInv

(* xmodem_rx gives up at the failure that passes the limit, no sooner and  *)
(* no later: the start value and the reset of error_count, which wrap, and *)
(* its increments add up to one for each failure since a good packet.      *)
THEOREM RxGivesUpAtLimit == RxSpec => []GivesUpAtLimit
<1>1. RxSpecInit => CountInv
  <2>1. RxSpecInit => Counted
    BY RxAssumption DEF RxSpecInit, RxInit, Counted, GivesUpAtLimit
  <2> QED
    BY <2>1, InitInv DEF CountInv
<1>2. CountInv /\ [RxSpecNext]_<<rxVars, lines>> => CountInv'
  BY CountNext
<1>3. CountInv => GivesUpAtLimit
  BY DEF CountInv, Counted
<1> QED
  BY <1>1, <1>2, <1>3, PTL DEF RxSpec
=============================================================================
