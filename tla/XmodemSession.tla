--------------------------- MODULE XmodemSession ---------------------------
(***************************************************************************)
(* One transfer: xmodem_tx and xmodem_rx at the two ends of a serial       *)
(* connection that may lose and change bytes.                              *)
(*                                                                         *)
(* Time.  With Prompt = FALSE a read may time out at any moment, as when   *)
(* bytes are delayed without bound.  With Prompt = TRUE a read times out   *)
(* only when nothing can arrive any more: the line is empty and the other  *)
(* end is itself in a blocking call; the receiver reads for 10 seconds and *)
(* the transmitter for 60, so quiet counts the receiver's timeouts during  *)
(* one wait of the transmitter; and the flush that follows a packet is     *)
(* over before the answer to the packet arrives.                           *)
(***************************************************************************)
EXTENDS XmodemTx, XmodemRx

CONSTANTS
    ModePairs,      \* the modes the two ends are called with
    Prompt,         \* see above
    MaxFaults,      \* bound on the faults in a transfer
    FaultKinds,     \* among "lose", "change", "send" and "end"
    Spared,         \* what no byte fault hits: see Exposed
    Noise,          \* what a byte to the receiver can be changed to
    ReplyNoise      \* what a byte to the transmitter can be changed to

ASSUME SessionAssumption ==
    /\ ModePairs \subseteq Modes \X Modes
    /\ Prompt \in BOOLEAN
    /\ Spared \subseteq {"header", "replies"} /\ ("header" \in Spared => Prompt)
    /\ MaxFaults \in Nat
    /\ FaultKinds \subseteq {"lose", "change", "send", "end"}
    /\ Noise \subseteq Byte /\ ReplyNoise \subseteq Byte

VARIABLES
    quiet,          \* receiver timeouts during the transmitter's wait
    faults          \* faults so far

vars == <<txVars, rxVars, lines, quiet, faults>>

WaitLimit == 6      \* 60 seconds in waits of 10

Init ==
    /\ TxInit /\ RxInit /\ LinesInit
    /\ <<txMode, rxMode>> \in ModePairs
    /\ quiet = 0 /\ faults = 0

-----------------------------------------------------------------------------
TxBlocked == txPc = "done" \/ (TxReading /\ bwd = << >>)

(* The transmitter.  The 60 seconds of wait_for_rx_ready cover all its     *)
(* reads, those of a response start anew with each read.                   *)
TxStep ==
    /\ TxStart \/ TxProgress
    /\ quiet' = IF txPc = "ready" /\ txPc' = "ready" THEN quiet ELSE 0
    /\ UNCHANGED <<rxVars, faults>>

TxGivesUp ==
    /\ TxTimeout
    /\ Prompt => bwd = << >> /\ (quiet = WaitLimit \/ rxPc = "done")
    /\ UNCHANGED <<rxVars, quiet, faults>>

(* The receiver. *)
RxStep ==
    /\ RxStart \/ RxProgress
    /\ Prompt => txPc # "sent"
    /\ UNCHANGED <<txVars, quiet, faults>>

(* A wait of 10 seconds uses up as much of the transmitter's 60. *)
RxWaits ==
    /\ RxWaitTimeout
    /\ Prompt => fwd = << >> /\ TxBlocked /\ (txPc = "done" \/ quiet < WaitLimit)
    /\ quiet' = IF Prompt /\ TxReading THEN quiet + 1 ELSE quiet
    /\ UNCHANGED <<txVars, faults>>

RxGivesUpRest ==
    /\ RxRestTimeout
    /\ Prompt => Len(fwd) < RestSize /\ TxBlocked
    /\ UNCHANGED <<txVars, quiet, faults>>

RxLineSilent ==
    /\ RxPurged
    /\ Prompt => fwd = << >> /\ TxBlocked
    /\ UNCHANGED <<txVars, quiet, faults>>

-----------------------------------------------------------------------------
(* Faults: a byte is lost or changed on its way, the transmitter sends a   *)
(* part of a packet or no EOT without noticing, or its callback or port    *)
(* fails.  A serial_snd of the receiver that fails loses its one byte.     *)
Fault(kind) ==
    /\ kind \in FaultKinds
    /\ faults < MaxFaults /\ faults' = faults + 1
    /\ UNCHANGED <<rxVars, quiet>>

(* The bytes a fault can hit.  Where headers are spared these belong to    *)
(* the packet just sent, the only thing on the line, and follow its        *)
(* header; EOT is spared too.                                              *)
Exposed ==
    IF "header" \in Spared THEN {i \in DOMAIN fwd : txPc = "sent" /\ i > DATA}
                           ELSE DOMAIN fwd
ExposedReplies == IF "replies" \in Spared THEN {} ELSE DOMAIN bwd

LoseByte ==
    /\ Fault("lose") /\ UNCHANGED txVars
    /\ \/ (\E i \in Exposed : fwd' = RemoveAt(fwd, i)) /\ UNCHANGED bwd
       \/ (\E i \in ExposedReplies : bwd' = RemoveAt(bwd, i)) /\ UNCHANGED fwd

ChangeByte ==
    /\ Fault("change") /\ UNCHANGED txVars
    /\ \/ /\ \E i \in Exposed, b \in Noise : b # fwd[i] /\ fwd' = ReplaceAt(fwd, i, b)
          /\ UNCHANGED bwd
       \/ /\ \E i \in ExposedReplies, b \in ReplyNoise :
                b # bwd[i] /\ bwd' = ReplaceAt(bwd, i, b)
          /\ UNCHANGED fwd

SendFails == Fault("send") /\ (TxSendFails \/ TxEotFails)

EndFails == Fault("end") /\ (TxChannelError \/ TxHwError)

Work == TxStep \/ TxGivesUp \/ RxStep \/ RxWaits \/ RxGivesUpRest \/ RxLineSilent

Next == Work \/ LoseByte \/ ChangeByte \/ SendFails \/ EndFails

Spec == Init /\ [][Next]_vars

(* Each end is a program that runs on; its reads end by a byte or by a     *)
(* timeout.  Nothing makes a fault happen.                                 *)
TxWork == TxStep \/ TxGivesUp
RxWork == RxStep \/ RxWaits \/ RxGivesUpRest \/ RxLineSilent
FairSpec == Spec /\ WF_vars(TxWork) /\ WF_vars(RxWork)

(* What a check code is for: with 1 to n bytes of a payload and its check  *)
(* bytes changed the receiver's test fails (see CheckCodes for n = 1).     *)
DetectsChanges(n) ==
    \A mode \in Modes, src \in Sources : \A pos \in 0 .. Len(src) :
        LET size == BlockSize(mode)
            data == Block(src, pos, size)
            sent == data \o CheckBytes(mode, data)
        IN  \A hit \in SUBSET DOMAIN sent : \A noise \in [hit -> Noise] :
                Cardinality(hit) \in 1 .. n /\ (\A i \in hit : noise[i] # sent[i]) =>
                    LET arrived == [i \in DOMAIN sent |-> IF i \in hit THEN noise[i] ELSE sent[i]]
                    IN  SubSeq(arrived, size + 1, Len(sent))
                            # CheckBytes(mode, SubSeq(arrived, 1, size))

(* The connection the theorems are about.  Reads time out only when        *)
(* nothing can arrive any more.  Headers and EOT arrive; other bytes of a  *)
(* packet may be lost or changed, as far as the check codes notice, and    *)
(* replies may be lost; no serial_snd of the transmitter fails.  The modes *)
(* can work together, and the faults are too few for the fallback of an    *)
(* XMODEM_CRC receiver: it bears FallbackErrors, of which the negotiation  *)
(* may cost one.                                                           *)
Matching == {<<m, m>> : m \in Modes} \cup
                {<<"XMODEM", "XMODEM_CRC">>, <<"XMODEM_CRC", "XMODEM_1K">>}

FairLine ==
    /\ Prompt
    /\ "header" \in Spared /\ "send" \notin FaultKinds
    /\ "replies" \in Spared \/ ReplyNoise = {}
    /\ "change" \in FaultKinds => DetectsChanges(MaxFaults)
    /\ ModePairs \subseteq Matching
    /\ <<"XMODEM_CRC", "XMODEM_CRC">> \in ModePairs => MaxFaults < FallbackErrors

-----------------------------------------------------------------------------
(* The sink holds the data of the source, in order, nothing twice and      *)
(* nothing left out, then CPMEOFs: whatever the lines lose or change and   *)
(* whenever the two ends time out.                                         *)
SinkIsPrefix == sink = Block(source, 0, Len(sink))

(* Neither end is more than one packet ahead of the other: as long as the  *)
(* receiver runs, what is acknowledged is stored, and no more than one     *)
(* packet is stored and not yet acknowledged.                              *)
StopAndWait ==
    rxPc # "done" => /\ ackedTo <= Len(sink)
                     /\ Len(sink) <= ackedTo + BlockSize(txMode)

TxSucceeded == txPc = "done" /\ txStatus = "MODEM_NO_ERRORS"
RxSucceeded == rxPc = "done" /\ rxStatus = "MODEM_NO_ERRORS"
AllStored == Len(sink) > Len(source)

(* xmodem_tx returns MODEM_NO_ERRORS only when xmodem_rx has returned it   *)
(* and every byte of the source is in the sink.                            *)
TxSuccessMeansDelivered == TxSucceeded => RxSucceeded /\ AllStored

(* xmodem_rx returns MODEM_NO_ERRORS only when every byte of the source is *)
(* in the sink ("Transfer completed successfully", modem.h:74).            *)
RxSuccessMeansComplete == RxSucceeded => AllStored

(* Whatever happens to the bytes, both functions return.                   *)
BothReturn == <>(txPc = "done" /\ rxPc = "done")

(* The transfer succeeds: both functions return MODEM_NO_ERRORS and the    *)
(* sink holds the source.                                                  *)
Completes == <>(TxSucceeded /\ RxSucceeded /\ AllStored /\ SinkIsPrefix)

-----------------------------------------------------------------------------
(* A byte counts as confirmed when it is both stored and acknowledged.     *)
Result(returned, status) ==
    IF ~returned THEN "none" ELSE IF status = "MODEM_NO_ERRORS" THEN "ok" ELSE "failed"

Transfer == INSTANCE FileTransfer WITH
    Pad       <- CPMEOF,
    MaxBlock  <- KBlockLen,
    got       <- sink,
    confirmed <- Min({ackedTo, Len(sink)}),
    txResult  <- Result(txPc = "done", txStatus),
    rxResult  <- Result(rxPc = "done", rxStatus)

(* The two functions together implement the transfer of FileTransfer: no   *)
(* block is stored before the one before it is acknowledged, none after    *)
(* the end of the data or after xmodem_rx returned, and results stay.      *)
ImplementsTransfer == Transfer!Spec

-----------------------------------------------------------------------------
(* What documentation and comments say that the two ends do not do.        *)

(* The downgrade to XMODEM happens "during initial negotiation"            *)
(* (modem.h:273): the mode stays once data has arrived.                    *)
DowngradeBeforeData == [][rxMode' # rxMode => sink = << >>]_vars

(* "(either current or previous packet number)" (xmodem.c:319-320): the    *)
(* previous packet, sent again, is no loss of synchronicity.               *)
PreviousIsExpected ==
    [][rxPc = "rest" /\ rxPc' = "done" /\ rxStatus' = "PACKET_MISMATCH" =>
          (RestBlk + 1) % NumBlockNos # expBlk]_vars
=============================================================================
