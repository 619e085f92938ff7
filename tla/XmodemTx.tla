------------------------------ MODULE XmodemTx ------------------------------
(***************************************************************************)
(* xmodem_tx: the transmitter, between a source callback and a serial      *)
(* port.  One action per piece of the function that runs between two calls *)
(* that block or leave it: the reads of a response, the callback, the      *)
(* sends and the flushes.  txPc says where the function is:                *)
(*                                                                         *)
(*   idle   not called yet                                                 *)
(*   ready  reading in wait_for_rx_ready                                   *)
(*   fill   at the top of the packet loop, about to call data_out_fcn      *)
(*   sent   the packet is handed to the port, the flush is still to come   *)
(*   resp   reading the response to the packet                             *)
(*   eot    about to send EOT                                              *)
(*   fin    reading the response to EOT                                    *)
(*   done   returned txStatus                                              *)
(*                                                                         *)
(* The environment of the specification TxSpec is any peer: it puts any    *)
(* byte on the line to the transmitter at any time.                        *)
(***************************************************************************)
EXTENDS SerialLines

CONSTANTS
    Sources,        \* the data a transfer may be asked to send
    PeerBytes       \* the bytes the peer of TxSpec may send

ASSUME TxAssumption ==
    /\ Sources \subseteq Seq(Alphabet)
    /\ PeerBytes \subseteq Byte

VARIABLES
    txPc, txMode, txStatus,
    source,         \* the data behind the callback
    srcPos,         \* source_pos of the callback's state
    lastSent,       \* last_sent_size
    eofDetected,
    blkNo,          \* tx_buffer[BLOCK_NO]; COMP_BLOCK_NO is its complement
    txBuf,          \* the packet in tx_buffer, << >> before the first one
    ackedTo         \* history: payload bytes in acknowledged packets

txVars == <<txPc, txMode, txStatus, source, srcPos, lastSent, eofDetected,
            blkNo, txBuf, ackedTo>>

TxInit ==
    /\ txPc = "idle"
    /\ txMode \in Modes
    /\ txStatus = "MODEM_NO_ERRORS"
    /\ source \in Sources
    /\ srcPos = 0 /\ lastSent = 0 /\ blkNo = 1 /\ ackedTo = 0
    /\ eofDetected = FALSE
    /\ txBuf = << >>

TxReturn(status) == txPc' = "done" /\ txStatus' = status

(* The byte that serial_rcv(&rx_code, 1, ...) hands over. *)
TxReads(b) == bwd # << >> /\ b = Head(bwd) /\ bwd' = Tail(bwd)

TxReading == txPc \in {"ready", "resp", "fin"}

-----------------------------------------------------------------------------
(* Entry: flush, then wait for the receiver. *)
TxStart ==
    /\ txPc = "idle"
    /\ txPc' = "ready"
    /\ bwd' \in Flushed(bwd)
    /\ UNCHANGED <<txMode, txStatus, source, srcPos, lastSent, eofDetected,
                   blkNo, txBuf, ackedTo, fwd>>

(* wait_for_rx_ready leaves its loop on the code of its own mode only. *)
ReadyCode == IF txMode = "XMODEM" THEN NAK ELSE ASCII_C

TxReady ==
    /\ txPc = "ready"
    /\ \E b \in Byte :
          /\ TxReads(b)
          /\ txPc' = IF b = ReadyCode THEN "fill" ELSE "ready"
    /\ UNCHANGED <<txMode, txStatus, source, srcPos, lastSent, eofDetected,
                   blkNo, txBuf, ackedTo, fwd>>

(* The callback: a reader of a buffer, as in modem.h and the unit tests.   *)
(* It moves by last_sent_size, then copies what is left up to the request. *)
BytesRead(pos) ==
    LET left == Len(source) - pos IN
    IF BlockSize(txMode) < left THEN BlockSize(txMode) ELSE left

(* A 1K transfer goes on in 128 byte blocks once less than 1024 is read. *)
ModeAfter(bytesRead) ==
    IF txMode = "XMODEM_1K" /\ bytesRead < KBlockLen THEN "XMODEM_CRC" ELSE txMode

(* The packet that the callback's data makes in tx_buffer. *)
TxFill ==
    LET pos  == srcPos + lastSent
        mode == ModeAfter(BytesRead(pos))
        pkt  == Packet(mode, blkNo, Block(source, pos, BlockSize(mode)))
    IN  /\ txPc = "fill"
        /\ BytesRead(pos) >= 0
        /\ srcPos' = pos
        /\ txMode' = mode
        /\ eofDetected' = (eofDetected \/ BytesRead(pos) < BlockSize(mode))
        /\ txBuf' = pkt
        /\ txPc' = "sent"
        /\ UNCHANGED <<txStatus, source, lastSent, blkNo, ackedTo, bwd>>

TxSend == TxFill /\ fwd' = fwd \o txBuf'

(* The result of serial_snd is ignored: when it fails, a part of the       *)
(* packet, or nothing, is on the line, and the function goes on as usual.  *)
TxSendFails ==
    /\ TxFill
    /\ \E n \in 0 .. Len(txBuf') - 1 : fwd' = fwd \o SubSeq(txBuf', 1, n)

(* A negative result of the callback ends the transfer at once: nothing    *)
(* tells the receiver.  The callback can fail for reasons of its own.      *)
TxChannelError ==
    /\ txPc = "fill"
    /\ srcPos' = srcPos + lastSent
    /\ TxReturn("CHANNEL_ERROR")
    /\ UNCHANGED <<txMode, source, lastSent, eofDetected, blkNo, txBuf, ackedTo, lines>>

(* The flush after the packet may swallow a response that is already in. *)
TxFlush ==
    /\ txPc = "sent"
    /\ txPc' = "resp"
    /\ bwd' \in Flushed(bwd)
    /\ UNCHANGED <<txMode, txStatus, source, srcPos, lastSent, eofDetected,
                   blkNo, txBuf, ackedTo, fwd>>

(* Faulty variants of the definitions below, for the mutation checks. *)
BlkAfterNoWrap(code)  == IF code = ACK THEN blkNo + 1 ELSE blkNo
BlkAfterAny(code)     == (blkNo + 1) % NumBlockNos
SentSizeKept(code)    == IF code = ACK THEN BlockSize(txMode) ELSE lastSent
EofAfterKept(code)    == eofDetected

(* What a response changes.  ACK moves on to the next block number and     *)
(* lets the callback move by the size sent; NAK sends the packet again,    *)
(* and takes back the end of the data if that was seen.                    *)
BlkAfter(code) == IF code = ACK THEN (blkNo + 1) % NumBlockNos ELSE blkNo
SentSize(code) == IF code = ACK THEN BlockSize(txMode) ELSE 0
EofAfter(code) == code = ACK /\ eofDetected

TxResponse(code) ==
    /\ txPc = "resp"
    /\ TxReads(code)
    /\ blkNo' = BlkAfter(code)
    /\ lastSent' = SentSize(code)
    /\ eofDetected' = EofAfter(code)
    /\ txPc' = IF EofAfter(code) THEN "eot" ELSE "fill"
    /\ UNCHANGED <<txMode, txStatus, source, srcPos, txBuf, fwd>>

TxAck == TxResponse(ACK) /\ ackedTo' = ackedTo + BlockSize(txMode)
TxNak == TxResponse(NAK) /\ UNCHANGED ackedTo

(* Any other byte counts as a cancellation. *)
TxCancelled ==
    /\ txPc = "resp"
    /\ \E b \in Byte \ {ACK, NAK} : TxReads(b)
    /\ TxReturn("SENT_CAN")
    /\ UNCHANGED <<txMode, source, srcPos, lastSent, eofDetected, blkNo, txBuf, ackedTo, fwd>>

TxSendEot ==
    /\ txPc = "eot"
    /\ fwd' = Append(fwd, EOT)
    /\ txPc' = "fin"
    /\ UNCHANGED <<txMode, txStatus, source, srcPos, lastSent, eofDetected,
                   blkNo, txBuf, ackedTo, bwd>>

TxEotFails ==
    /\ txPc = "eot"
    /\ txPc' = "fin"
    /\ UNCHANGED <<txMode, txStatus, source, srcPos, lastSent, eofDetected,
                   blkNo, txBuf, ackedTo, lines>>

(* EOT is repeated until the response is ACK or CAN. *)
TxFinish ==
    /\ txPc = "fin"
    /\ \/ TxReads(ACK) /\ TxReturn("MODEM_NO_ERRORS")
       \/ TxReads(CAN) /\ TxReturn("SENT_CAN")
       \/ (\E b \in Byte \ {ACK, CAN} : TxReads(b)) /\ txPc' = "eot" /\ UNCHANGED txStatus
    /\ UNCHANGED <<txMode, source, srcPos, lastSent, eofDetected, blkNo, txBuf, ackedTo, fwd>>

(* Every read gives up on a timeout or a failure of the port. *)
TxReadFails(serStatus) ==
    /\ TxReading
    /\ TxReturn(SerialToModemError[serStatus])
    /\ UNCHANGED <<txMode, source, srcPos, lastSent, eofDetected, blkNo, txBuf, ackedTo, lines>>

TxTimeout == TxReadFails("SERIAL_TIMEOUT")
TxHwError == TxReadFails("SERIAL_HW_ERROR")

(* What the function does when nothing fails, and when it must not wait. *)
TxProgress == \/ TxReady \/ TxSend \/ TxFlush \/ TxAck \/ TxNak \/ TxCancelled
              \/ TxSendEot \/ TxFinish

TxNext == \/ TxStart \/ TxProgress \/ TxSendFails \/ TxEotFails
          \/ TxChannelError \/ TxTimeout \/ TxHwError

-----------------------------------------------------------------------------
(* The transmitter with any peer. *)
PeerSends ==
    /\ Len(bwd) < LineLimit /\ Len(fwd) <= LineLimit
    /\ \E b \in PeerBytes : bwd' = Append(bwd, b)
    /\ UNCHANGED <<txVars, fwd>>

PeerReads ==
    /\ fwd # << >>
    /\ fwd' = << >>
    /\ UNCHANGED <<txVars, bwd>>

TxSpecInit == TxInit /\ LinesInit
TxSpecNext == TxNext \/ PeerSends \/ PeerReads
TxSpec == TxSpecInit /\ [][TxSpecNext]_<<txVars, lines>>

-----------------------------------------------------------------------------
TxTypeOK ==
    /\ txPc \in {"idle", "ready", "fill", "sent", "resp", "eot", "fin", "done"}
    /\ txMode \in Modes
    /\ txStatus \in ModemErrors
    /\ source \in Sources
    /\ srcPos \in Nat /\ lastSent \in Nat /\ ackedTo \in Nat
    /\ eofDetected \in BOOLEAN
    /\ blkNo \in 0 .. NumBlockNos - 1
    /\ txBuf \in Seq(Byte)
    /\ LinesTypeOK

(* The packet under way carries the data that follows what has been        *)
(* acknowledged, whatever NAKs came before: no byte of the source is       *)
(* skipped and none is sent again under a new number.                      *)
PacketCarriesNextData ==
    txPc \in {"sent", "resp"} =>
        txBuf = Packet(txMode, blkNo, Block(source, ackedTo, BlockSize(txMode)))

(* xmodem_tx returns MODEM_NO_ERRORS only when every byte of the source is *)
(* in an acknowledged packet, followed by at least one CPMEOF and by less  *)
(* than one short block more than that.                                    *)
SuccessCoversSource ==
    txPc = "done" /\ txStatus = "MODEM_NO_ERRORS" =>
        /\ Len(source) < ackedTo
        /\ ackedTo <= Len(source) + BlockLen

(* The packet in the buffer is replaced by a different one only after it   *)
(* was acknowledged, and the new one has the next block number: a          *)
(* retransmission repeats the packet, also when it is the last of the data *)
(* or the first after the change from 1024 to 128 bytes.                   *)
PacketChangesOnAckOnly ==
    [][txBuf' # txBuf /\ txBuf # << >> =>
          /\ lastSent > 0
          /\ txBuf'[2] = (txBuf[2] + 1) % NumBlockNos]_<<txVars, lines>>
=============================================================================
