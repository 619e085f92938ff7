------------------------------ MODULE XmodemRx ------------------------------
(***************************************************************************)
(* xmodem_rx: the receiver, between a serial port and a sink callback.     *)
(* rxPc says where the function is:                                        *)
(*                                                                         *)
(*   idle   not called yet                                                 *)
(*   wait   reading the first byte of a packet, up to 10 seconds           *)
(*   rest   reading the rest of the packet, up to 1 second                 *)
(*   purge  in purge(), reading until the line is silent for 1 second      *)
(*   done   returned rxStatus                                              *)
(*                                                                         *)
(* The error count is that of the read under way: error_count starts at    *)
(* UINT_MAX and wraps to 0 at the top of the loop, and the function gives  *)
(* up when it passes 11, which is at the 12th failure in a row.            *)
(*                                                                         *)
(* The environment of the specification RxSpec is a peer that sends any    *)
(* sequence of the messages in PeerMsgs, and a port that may stop working. *)
(***************************************************************************)
EXTENDS SerialLines, SequencesExt

CONSTANTS
    MaxErrors,      \* errors borne in a row, one more ends the transfer: 11
    FallbackErrors, \* errors an XMODEM_CRC receiver bears: 2
    SinkSize,       \* bytes the sink can store
    MaxSinkErrors,  \* bound on the errors the sink callback reports
    PeerMsgs        \* what the peer of RxSpec sends

ASSUME RxAssumption ==
    /\ MaxErrors \in Nat /\ FallbackErrors \in Nat
    /\ SinkSize \in Nat /\ MaxSinkErrors \in Nat
    /\ PeerMsgs \subseteq Seq(Byte)

VARIABLES
    rxPc, rxMode, rxStatus,
    callMode,       \* history: the mode the caller asked for
    rxCode,         \* tx_code, the reply to a timeout
    errorCount,
    failures,       \* history: failures since the start or the last good packet
    using128,       \* using_128_blocks_in_1k
    expBlk,         \* expected_block_no
    badRead,        \* the serial status that led to purge()
    sink,           \* what the callback has stored
    sinkErrors,     \* errors the callback has reported
    rxPortUp        \* reads of the port work

rxVars == <<rxPc, rxMode, rxStatus, callMode, rxCode, errorCount, failures,
            using128, expBlk, badRead, sink, sinkErrors, rxPortUp>>

FirstCode(mode) == IF mode = "XMODEM" THEN NAK ELSE ASCII_C

RxInit ==
    /\ rxPc = "idle"
    /\ rxMode \in Modes /\ callMode = rxMode
    /\ rxStatus = "MODEM_NO_ERRORS"
    /\ rxCode = FirstCode(rxMode)
    /\ errorCount = 0 /\ failures = 0 /\ expBlk = 1 /\ sinkErrors = 0
    /\ using128 = FALSE
    /\ badRead = "SERIAL_NO_ERRORS"
    /\ sink = << >>
    /\ rxPortUp = TRUE

RxReturn(status) == rxPc' = "done" /\ rxStatus' = status

StartChars == IF rxMode = "XMODEM_1K" THEN {STX, SOH} ELSE {SOH}

(* Faulty variants of definitions below, for the mutation checks. *)
DataSizeByStart == IF using128 THEN BlockLen ELSE KBlockLen
TooManyByOne(n) == n > MaxErrors + 1
FirstAttemptByOne == 1
NextCodeStale == ACK
PurgeEndsByByte == rxPc = "purge" /\ rxPortUp /\ fwd # << >>
OutOfSequenceIgnored == FALSE

(* Sizes of the packet at hand: chksum_offset and packet_end. *)
DataSize == IF rxMode = "XMODEM_1K" /\ ~using128 THEN KBlockLen ELSE BlockLen
RestSize == 2 + DataSize + CheckSize(rxMode)

-----------------------------------------------------------------------------
(* error_count > 11 *)
TooMany(n) == n > MaxErrors

(* What error_count = -1, an unsigned int, is after the error_count++ at    *)
(* the top of the loop.                                                    *)
FirstAttempt == 0

(* After a packet a timeout is answered by NAK, whatever was sent before. *)
NextCode == NAK

(* The top of the loop that reads the first byte, reached with n errors    *)
(* and after the bytes out have been sent: give up with CAN, or read       *)
(* again, in checksum mode if the errors are too many for XMODEM_CRC.      *)
ReadAgain(n, out, code) ==
    \/ /\ TooMany(n)
       /\ bwd' = Append(bwd \o out, CAN)
       /\ RxReturn("MODEM_TIMEOUT")
       /\ UNCHANGED <<rxMode, rxCode, errorCount>>
    \/ /\ ~TooMany(n)
       /\ bwd' = bwd \o out
       /\ errorCount' = n
       /\ IF rxMode = "XMODEM_CRC" /\ n > FallbackErrors
             THEN rxMode' = "XMODEM" /\ rxCode' = NAK
             ELSE rxMode' = rxMode /\ rxCode' = code
       /\ rxPc' = "wait"
       /\ UNCHANGED rxStatus

(* The history of failures is kept apart from the count. *)
OneMoreFailure == failures' = failures + 1

RxStart ==
    /\ rxPc = "idle"
    /\ ReadAgain(FirstAttempt, <<rxCode>>, rxCode)
    /\ UNCHANGED <<failures, callMode, using128, expBlk, badRead, sink, sinkErrors, rxPortUp, fwd>>

(* The byte that starts a packet sets its size, in a 1K transfer. *)
RxStartChar ==
    /\ rxPc = "wait" /\ rxPortUp
    /\ fwd # << >> /\ Head(fwd) \in StartChars
    /\ fwd' = Tail(fwd)
    /\ rxPc' = "rest"
    /\ using128' = (rxMode = "XMODEM_1K" /\ Head(fwd) = SOH)
    /\ UNCHANGED <<rxMode, rxStatus, callMode, rxCode, errorCount, failures, expBlk,
                   badRead, sink, sinkErrors, rxPortUp, bwd>>

(* A faulty variant of RxEot: the last ACK is missing. *)
RxEotSilent ==
    /\ rxPc = "wait" /\ rxPortUp
    /\ fwd # << >> /\ Head(fwd) = EOT
    /\ fwd' = Tail(fwd)
    /\ RxReturn("MODEM_NO_ERRORS")
    /\ UNCHANGED <<rxMode, callMode, rxCode, errorCount, failures, using128, expBlk,
                   badRead, sink, sinkErrors, rxPortUp, bwd>>

RxEot ==
    /\ rxPc = "wait" /\ rxPortUp
    /\ fwd # << >> /\ Head(fwd) = EOT
    /\ fwd' = Tail(fwd)
    /\ bwd' = Append(bwd, ACK)
    /\ RxReturn("MODEM_NO_ERRORS")
    /\ UNCHANGED <<rxMode, callMode, rxCode, errorCount, failures, using128, expBlk,
                   badRead, sink, sinkErrors, rxPortUp>>

(* A faulty variant of RxJunk: junk is not counted. *)
RxJunkUncounted ==
    /\ rxPc = "wait" /\ rxPortUp
    /\ fwd # << >> /\ Head(fwd) \notin StartChars \cup {EOT}
    /\ fwd' = Tail(fwd)
    /\ UNCHANGED <<rxVars, bwd>>

(* Any other byte counts as an error and gets no reply. *)
RxJunk ==
    /\ rxPc = "wait" /\ rxPortUp
    /\ fwd # << >> /\ Head(fwd) \notin StartChars \cup {EOT}
    /\ fwd' = Tail(fwd)
    /\ ReadAgain(errorCount + 1, << >>, rxCode)
    /\ OneMoreFailure
    /\ UNCHANGED <<callMode, using128, expBlk, badRead, sink, sinkErrors, rxPortUp>>

(* A timeout repeats the last code, a failing port is only counted. *)
RxWaitTimeout ==
    /\ rxPc = "wait" /\ rxPortUp
    /\ ReadAgain(errorCount + 1, <<rxCode>>, rxCode)
    /\ OneMoreFailure
    /\ UNCHANGED <<callMode, using128, expBlk, badRead, sink, sinkErrors, rxPortUp, fwd>>

RxWaitHwError ==
    /\ rxPc = "wait" /\ ~rxPortUp
    /\ ReadAgain(errorCount + 1, << >>, rxCode)
    /\ OneMoreFailure
    /\ UNCHANGED <<callMode, using128, expBlk, badRead, sink, sinkErrors, rxPortUp, fwd>>

-----------------------------------------------------------------------------
(* The rest of a packet: block number, complement, payload, check bytes. *)
RestBlk   == fwd[1]
RestComp  == fwd[2]
RestData  == SubSeq(fwd, 3, DataSize + 2)
RestCheck == SubSeq(fwd, DataSize + 3, RestSize)

TakeRest ==
    /\ rxPc = "rest" /\ rxPortUp
    /\ Len(fwd) >= RestSize
    /\ fwd' = Without(fwd, RestSize)

(* Sequence is lost only if both the number and its complement are wrong. *)
OutOfSequence == RestComp # Complement(expBlk) /\ RestBlk # expBlk

(* The CRC of payload and CRC bytes is 0 exactly when these are the CRC of *)
(* the payload.                                                            *)
CheckGood == RestCheck = CheckBytes(rxMode, RestData)

RxMismatch ==
    /\ TakeRest /\ OutOfSequence
    /\ bwd' = Append(bwd, CAN)
    /\ RxReturn("PACKET_MISMATCH")
    /\ UNCHANGED <<rxMode, callMode, rxCode, errorCount, failures, using128, expBlk,
                   badRead, sink, sinkErrors, rxPortUp>>

RxBadCheck ==
    /\ TakeRest /\ ~OutOfSequence /\ ~CheckGood
    /\ ReadAgain(errorCount + 1, <<NAK>>, NextCode)
    /\ OneMoreFailure
    /\ UNCHANGED <<callMode, using128, expBlk, badRead, sink, sinkErrors, rxPortUp>>

(* A good packet: advance the number and hand the payload to the callback. *)
GoodPacket ==
    /\ TakeRest /\ ~OutOfSequence /\ CheckGood
    /\ expBlk' = (expBlk + 1) % NumBlockNos
    /\ UNCHANGED <<callMode, using128, badRead, rxPortUp>>

SinkRoom == SinkSize - Len(sink)

RxStore ==
    /\ GoodPacket
    /\ SinkRoom >= DataSize
    /\ sink' = sink \o RestData
    /\ ReadAgain(FirstAttempt, <<ACK>>, NextCode)
    /\ failures' = 0
    /\ UNCHANGED sinkErrors

RxSinkFull ==
    /\ GoodPacket
    /\ SinkRoom < DataSize
    /\ sink' = sink \o SubSeq(RestData, 1, SinkRoom)
    /\ bwd' = Append(bwd, CAN)
    /\ RxReturn("CHANNEL_ERROR")
    /\ UNCHANGED <<rxMode, rxCode, errorCount, failures, sinkErrors>>

(* A negative result of the callback, stored in a size_t, is a huge size:  *)
(* the packet is acknowledged like one that was stored.                    *)
RxSinkError ==
    /\ GoodPacket
    /\ sinkErrors < MaxSinkErrors
    /\ sinkErrors' = sinkErrors + 1
    /\ ReadAgain(FirstAttempt, <<ACK>>, NextCode)
    /\ failures' = 0
    /\ UNCHANGED sink

(* The read of the rest fails; it may have taken some of the bytes. *)
RestFails(serStatus) ==
    /\ rxPc = "rest"
    /\ \E n \in 0 .. RestSize - 1 : n <= Len(fwd) /\ fwd' = Without(fwd, n)
    /\ rxPc' = "purge"
    /\ badRead' = serStatus
    /\ UNCHANGED <<rxMode, rxStatus, callMode, rxCode, errorCount, failures, using128, expBlk,
                   sink, sinkErrors, rxPortUp, bwd>>

RxRestTimeout == rxPortUp /\ RestFails("SERIAL_TIMEOUT")
RxRestHwError == ~rxPortUp /\ RestFails("SERIAL_HW_ERROR")

-----------------------------------------------------------------------------
(* purge() leaves its loop on a timeout only; a failing read is repeated. *)
PurgeEnds == rxPc = "purge" /\ rxPortUp

RxPurgeByte ==
    /\ rxPc = "purge" /\ rxPortUp
    /\ fwd # << >>
    /\ fwd' = Tail(fwd)
    /\ UNCHANGED <<rxVars, bwd>>

RxPurged ==
    /\ PurgeEnds
    /\ \/ /\ badRead = "SERIAL_TIMEOUT"
          /\ ReadAgain(errorCount + 1, <<NAK>>, NextCode)
          /\ OneMoreFailure
       \/ /\ badRead = "SERIAL_HW_ERROR"
          /\ bwd' = Append(bwd, CAN)
          /\ RxReturn("UNDEFINED_ERROR")
          /\ UNCHANGED <<rxMode, rxCode, errorCount, failures>>
    /\ UNCHANGED <<callMode, using128, expBlk, badRead, sink, sinkErrors, rxPortUp, fwd>>

(* What the function does with the bytes it gets. *)
RxProgress == \/ RxStartChar \/ RxEot \/ RxJunk \/ RxMismatch \/ RxBadCheck
              \/ RxStore \/ RxSinkFull \/ RxPurgeByte

RxTimeout == RxWaitTimeout \/ RxRestTimeout \/ RxPurged

RxHwError == RxWaitHwError \/ RxRestHwError

RxNext == RxStart \/ RxProgress \/ RxSinkError \/ RxTimeout \/ RxHwError

RxPort ==
    /\ rxPortUp' = ~rxPortUp
    /\ UNCHANGED <<rxPc, rxMode, rxStatus, callMode, rxCode, errorCount, failures, using128,
                   expBlk, badRead, sink, sinkErrors, lines>>

-----------------------------------------------------------------------------
(* The receiver with any peer. *)
SenderSends ==
    /\ Len(fwd) <= LineLimit /\ Len(bwd) <= LineLimit
    /\ \E m \in PeerMsgs : fwd' = fwd \o m
    /\ UNCHANGED <<rxVars, bwd>>

SenderReads ==
    /\ bwd # << >>
    /\ bwd' = << >>
    /\ UNCHANGED <<rxVars, fwd>>

RxSpecInit == RxInit /\ LinesInit
RxSpecNext == RxNext \/ RxPort \/ SenderSends \/ SenderReads
RxSpec == RxSpecInit /\ [][RxSpecNext]_<<rxVars, lines>>

(* xmodem_rx runs on, and a line that is being purged falls silent for a   *)
(* second at some time: the peer may delay that but not for ever.          *)
RxFairness ==
    /\ WF_<<rxVars, lines>>(RxNext)
    /\ WF_<<rxVars, lines>>(RxPurged)
RxFairSpec == RxSpec /\ RxFairness

-----------------------------------------------------------------------------
RxTypeOK ==
    /\ rxPc \in {"idle", "wait", "rest", "purge", "done"}
    /\ rxMode \in Modes /\ callMode \in Modes
    /\ rxStatus \in ModemErrors
    /\ rxCode \in {NAK, ASCII_C}
    /\ errorCount \in 0 .. MaxErrors /\ failures \in Nat
    /\ using128 \in BOOLEAN
    /\ expBlk \in 0 .. NumBlockNos - 1
    /\ badRead \in DOMAIN SerialToModemError
    /\ sink \in Seq(Byte) /\ Len(sink) <= SinkSize
    /\ sinkErrors \in 0 .. MaxSinkErrors
    /\ rxPortUp \in BOOLEAN
    /\ LinesTypeOK

(* The buffer the caller must provide for a mode (modem.h): a packet. *)
BufferSize(mode) == DATA + BlockSize(mode) + CheckSize(mode)

(* No read reaches beyond the buffer the caller sized for the mode it      *)
(* asked for, after fallbacks and changes of packet size too.              *)
ReadsFitBuffer == rxPc = "rest" => 1 + RestSize <= BufferSize(callMode)

(* xmodem_rx gives up at the failure that passes the limit, no sooner and  *)
(* no later: every kind of failure counts once, and what comes before a    *)
(* good packet does not count, although one variable holds the count, the  *)
(* start value and the reset of the loop.                                  *)
GivesUpAtLimit ==
    IF rxStatus = "MODEM_TIMEOUT" THEN failures = MaxErrors + 1
                                  ELSE failures <= MaxErrors

(* Whenever xmodem_rx returns, the last byte it sent tells the peer how it *)
(* ended: ACK for success, CAN for every failure.                          *)
ReturnTellsPeer ==
    [][rxPc # "done" /\ rxPc' = "done" =>
          Last(bwd') = IF rxStatus' = "MODEM_NO_ERRORS" THEN ACK ELSE CAN]_<<rxVars, lines>>

(* xmodem_rx returns, whatever the peer sends and however often the port   *)
(* fails, if it works again in the end.                                    *)
RxReturns == <>[]rxPortUp => <>(rxPc = "done")

-----------------------------------------------------------------------------
(* What documentation says that xmodem_rx does not do.                     *)

(* The sink callback returns "an integer less than buf_size (possibly      *)
(* negative) if any error occurred" (modem.h:182): a packet is             *)
(* acknowledged, and the next one waited for, only if it was stored.       *)
AckMeansStored ==
    [][rxPc = "rest" /\ rxPc' = "wait" /\ Last(bwd') = ACK =>
          Len(sink') = Len(sink) + DataSize]_<<rxVars, lines>>
=============================================================================
