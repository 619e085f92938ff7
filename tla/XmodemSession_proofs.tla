------------------------ MODULE XmodemSession_proofs ------------------------
(***************************************************************************)
(* Proofs about a transfer between xmodem_tx and xmodem_rx, for every      *)
(* length of block, every source and sink, every limit and any number of   *)
(* faults: the sink holds the data in order, success means delivery, and   *)
(* the two functions implement FileTransfer.                               *)
(***************************************************************************)
EXTENDS XmodemSession, XmodemTx_proofs, XmodemRx_proofs, FiniteSetTheorems

-----------------------------------------------------------------------------
(***************************************************************************)
(* The inductive invariant.  Besides the invariants of the two ends it     *)
(* says in which situations the session can be; what the sink holds beside *)
(* what is acknowledged; and, for XMODEM_CRC, how many errors there can be *)
(* given the number of faults.                                             *)
(***************************************************************************)

(* The receiver waits for the packet under way, or has it already, because *)
(* the answer is under way or lost.                                        *)
Expected == Len(sink) = ackedTo /\ expBlk = blkNo
Stored   == Len(sink) = ackedTo + BlockSize(txMode) /\ expBlk = (blkNo + 1) % NumBlockNos

ModesAgree == rxMode = "XMODEM" <=> txMode = "XMODEM"

(* A receiver that must not fall back. *)
MustKeep == rxMode = "XMODEM_CRC" /\ txMode # "XMODEM"
Errors(n) == MustKeep => errorCount <= n

(* The packet in the buffer of xmodem_tx is on the line, without its first *)
(* k bytes, which are read, and perhaps damaged after its header.          *)
BodySize == Len(txBuf) - DATA
Changed(k) == {i \in 1 .. BodySize : fwd[DATA - k + i] # txBuf[DATA + i]}
Intact(k) == Len(fwd) + k = Len(txBuf) /\ Changed(k) = {}

Arrives(k) ==
    /\ DATA <= Len(fwd) + k /\ Len(fwd) + k <= Len(txBuf)
    /\ \A i \in 1 .. DATA - k : fwd[i] = txBuf[i + k]
    /\ Len(fwd) + k = Len(txBuf) =>
           /\ Changed(k) = {} \/ "change" \in FaultKinds
           /\ Cardinality(Changed(k)) <= faults
           /\ \A i \in Changed(k) : fwd[DATA - k + i] \in Noise
    /\ ~Intact(k) => Errors(faults)

(* The situations of a session, by what is on the lines. *)
Negotiating ==
    /\ txPc \in {"idle", "ready"} /\ rxPc \in {"idle", "wait"}
    /\ fwd = << >> /\ bwd \in {<< >>, <<NAK>>, <<ASCII_C>>}
    /\ rxPc = "idle" => bwd = << >>
    /\ bwd = <<NAK>> => rxMode = "XMODEM"
    /\ rxMode = "XMODEM" => txMode = "XMODEM"
    /\ sink = << >> /\ blkNo = 1 /\ expBlk = 1
    /\ rxCode = FirstCode(rxMode)
    /\ Errors(faults + 1)
    /\ txPc = "idle" \/ bwd = << >> => Errors(faults)

Filling ==
    /\ txPc = "fill" /\ rxPc = "wait" /\ fwd = << >> /\ bwd = << >>
    /\ Expected \/ (Stored /\ lastSent = 0 /\ txBuf # << >>)
    /\ ModesAgree /\ Errors(faults + 1)

Flying ==
    /\ txPc \in {"sent", "resp", "done"} /\ bwd = << >>
    /\ PacketUnderWay /\ (Expected \/ Stored)
    /\ ModesAgree /\ Errors(faults + 1)
    /\ txPc = "sent" => rxPc = "wait"
    /\ \/ rxPc = "wait" /\ Arrives(0)
       \/ /\ rxPc = "rest" /\ Arrives(1)
          /\ using128 = (rxMode = "XMODEM_1K" /\ txMode # "XMODEM_1K")
       \/ rxPc = "purge" /\ badRead = "SERIAL_TIMEOUT" /\ Errors(faults)

Answered ==
    /\ txPc = "resp" /\ rxPc = "wait" /\ fwd = << >> /\ rxCode = NAK
    /\ PacketUnderWay /\ (Expected \/ Stored)
    /\ ModesAgree /\ Errors(faults + 1)
    /\ \/ bwd = << >> /\ Errors(faults)
       \/ bwd = <<NAK>>
       \/ bwd = <<ACK>> /\ Stored

Ending ==
    /\ rxPc = "wait" /\ bwd = << >> /\ Len(sink) = ackedTo /\ AllAcked
    /\ \/ txPc = "eot" /\ fwd = << >>
       \/ txPc \in {"fin", "done"} /\ fwd = <<EOT>>

Alone ==
    /\ txPc = "done" /\ rxPc \in {"idle", "wait"} /\ fwd = << >>
    /\ ackedTo <= Len(sink) /\ Len(sink) <= ackedTo + BlockSize(txMode)

Over ==
    /\ rxPc = "done" /\ ackedTo <= Len(sink)
    /\ rxStatus = "MODEM_NO_ERRORS" => AllStored
    /\ txPc = "done" \/ IF rxStatus = "MODEM_NO_ERRORS"
                        THEN txPc = "fin" /\ bwd \in {<< >>, <<ACK>>}
                        ELSE /\ txPc \notin {"eot", "fin"}
                             /\ \A i \in 1 .. Len(bwd) : bwd[i] # ACK

Situation == Negotiating \/ Filling \/ Flying \/ Answered \/ Ending \/ Alone \/ Over

Background ==
    /\ TxInv /\ RxInv
    /\ faults \in 0 .. MaxFaults /\ rxPortUp
    /\ MustKeep => MaxFaults < FallbackErrors
    /\ txMode = "XMODEM_1K" => rxMode = "XMODEM_1K"
    /\ rxMode = "XMODEM_1K" => txMode # "XMODEM"

SessionInv == Background /\ Situation /\ SinkIsPrefix /\ TxSuccessMeansDelivered

-----------------------------------------------------------------------------
(* What is in the packet under way. *)
Payload == Block(source, ackedTo, BlockSize(txMode))
Body    == Payload \o CheckBytes(txMode, Payload)

LEMMA UnderWay ==
    ASSUME TxInv, PacketUnderWay
    PROVE  /\ txBuf \in Seq(Byte) /\ BodySize = BlockSize(txMode) + CheckSize(txMode)
           /\ BlockSize(txMode) \in Nat \ {0} /\ CheckSize(txMode) \in {1, 2}
           /\ txBuf[1] = StartChar(txMode) /\ txBuf[2] = blkNo /\ txBuf[3] = Complement(blkNo)
           /\ Payload \in Seq(Byte) /\ Len(Payload) = BlockSize(txMode)
           /\ CheckBytes(txMode, Payload) \in Seq(Byte)
           /\ Len(CheckBytes(txMode, Payload)) = CheckSize(txMode)
           /\ Body \in Seq(Byte) /\ Len(Body) = BodySize
           /\ \A i \in 1 .. BodySize : txBuf[DATA + i] = Body[i]
<1> DEFINE check == CheckBytes(txMode, Payload)
<1>1. /\ txMode \in Modes /\ source \in Seq(Alphabet) /\ ackedTo \in Nat
      /\ blkNo \in 0 .. NumBlockNos - 1
  BY TxAssumption DEF TxInv, TxTypeOK
<1>2. BlockSize(txMode) \in Nat \ {0} /\ CheckSize(txMode) \in {1, 2}
  BY <1>1, SizeType DEF CheckSize
<1>3. Payload \in Payloads /\ Payload \in Seq(Byte) /\ Len(Payload) = BlockSize(txMode)
  BY <1>1, <1>2, BlockType, BlockSeq DEF Payload
<1>4. txBuf = Packet(txMode, blkNo, Payload)
  BY DEF PacketUnderWay, Payload
<1>5. /\ txBuf \in Seq(Byte) /\ check \in Seq(Byte) /\ Len(check) = CheckSize(txMode)
      /\ Len(txBuf) = DATA + Len(Payload) + CheckSize(txMode)
      /\ txBuf[1] = StartChar(txMode) /\ txBuf[2] = blkNo /\ txBuf[3] = Complement(blkNo)
      /\ \A i \in 1 .. Len(Payload) : txBuf[DATA + i] = Payload[i]
      /\ \A i \in 1 .. Len(check) : txBuf[DATA + Len(Payload) + i] = check[i]
  <2> DEFINE pkt == Packet(txMode, blkNo, Payload)
  <2>1. /\ pkt \in Seq(Byte) /\ check \in Seq(Byte) /\ Len(check) = CheckSize(txMode)
        /\ Len(pkt) = DATA + Len(Payload) + CheckSize(txMode)
        /\ pkt[1] = StartChar(txMode) /\ pkt[2] = blkNo /\ pkt[3] = Complement(blkNo)
        /\ \A i \in 1 .. Len(Payload) : pkt[DATA + i] = Payload[i]
        /\ \A i \in 1 .. Len(check) : pkt[DATA + Len(Payload) + i] = check[i]
    BY <1>1, <1>3, PacketParts
  <2>2. txBuf = pkt
    BY <1>4
  <2> HIDE DEF pkt, check
  <2>3. QED
    BY <2>1, <2>2
<1>6. BodySize = BlockSize(txMode) + CheckSize(txMode)
  BY <1>2, <1>3, <1>5 DEF BodySize, DATA
<1> HIDE DEF check
<1>7. /\ Body \in Seq(Byte) /\ Len(Body) = Len(Payload) + Len(check)
      /\ \A i \in 1 .. Len(Payload) : Body[i] = Payload[i]
      /\ \A i \in 1 .. Len(check) : Body[Len(Payload) + i] = check[i]
  BY <1>3, <1>5, ConcatParts DEF Body, check
<1>8. ASSUME NEW i \in 1 .. BodySize PROVE txBuf[DATA + i] = Body[i]
  <2>1. CASE i \in 1 .. Len(Payload)
    BY <1>5, <1>7, <2>1
  <2>2. CASE i \notin 1 .. Len(Payload)
    <3>1. /\ i - Len(Payload) \in 1 .. Len(check)
          /\ i = Len(Payload) + (i - Len(Payload))
          /\ DATA + i = DATA + Len(Payload) + (i - Len(Payload))
      BY <1>2, <1>3, <1>5, <1>6, <2>2 DEF DATA
    <3>2. QED
      BY <1>5, <1>7, <3>1
  <2>3. QED
    BY <2>1, <2>2
<1>9. QED
  BY <1>2, <1>3, <1>5, <1>6, <1>7, <1>8 DEF check

-----------------------------------------------------------------------------
(***************************************************************************)
(* What the receiver makes of a packet whose first byte it has read.       *)
(***************************************************************************)
Resting ==
    /\ Background /\ PacketUnderWay /\ ModesAgree /\ Arrives(1)
    /\ using128 = (rxMode = "XMODEM_1K" /\ txMode # "XMODEM_1K")

(* It expects the size that was sent, *)
LEMMA SizesAgree ==
    ASSUME Resting
    PROVE  /\ DataSize = BlockSize(txMode) /\ CheckSize(rxMode) = CheckSize(txMode)
           /\ RestSize = Len(txBuf) - 1 /\ RestSize = 2 + BodySize
           /\ fwd \in Seq(Byte) /\ Len(fwd) \in Nat /\ Len(txBuf) \in Nat
           /\ 2 <= Len(fwd) /\ Len(fwd) <= RestSize
           /\ fwd[1] = blkNo /\ fwd[2] = Complement(blkNo)
<1>1. TxInv /\ PacketUnderWay
  BY DEF Resting, Background
<1>2. /\ txBuf \in Seq(Byte) /\ BodySize = BlockSize(txMode) + CheckSize(txMode)
      /\ BlockSize(txMode) \in Nat \ {0} /\ CheckSize(txMode) \in {1, 2}
      /\ txBuf[2] = blkNo /\ txBuf[3] = Complement(blkNo)
  BY <1>1, UnderWay
<1>3. DataSize = BlockSize(txMode)
  BY DEF Resting, Background, DataSize, BlockSize
<1>4. CheckSize(rxMode) = CheckSize(txMode)
  BY DEF Resting, ModesAgree, CheckSize
<1>5. Len(txBuf) \in Nat /\ fwd \in Seq(Byte) /\ Len(fwd) \in Nat
  BY <1>2 DEF Resting, Background, RxInv, RxTypeOK, LinesTypeOK
<1>6. Len(txBuf) = BodySize + 3
  BY <1>2, <1>5 DEF BodySize, DATA
<1>7. RestSize = Len(txBuf) - 1 /\ RestSize = 2 + BodySize
  BY <1>2, <1>3, <1>4, <1>6 DEF RestSize
<1>8. 3 <= Len(fwd) + 1 /\ Len(fwd) + 1 <= Len(txBuf)
  BY DEF Resting, Arrives, DATA
<1>9. fwd[1] = txBuf[2] /\ fwd[2] = txBuf[3]
  BY DEF Resting, Arrives, DATA
<1>10. QED
  BY <1>2, <1>3, <1>4, <1>5, <1>7, <1>8, <1>9

(* the bytes it reads are those of the body except where they are changed, *)
LEMMA RestParts ==
    ASSUME Resting, Len(fwd) >= RestSize
    PROVE  /\ Without(fwd, RestSize) = << >>
           /\ RestBlk = blkNo /\ RestComp = Complement(blkNo)
           /\ Len(fwd) + 1 = Len(txBuf)
           /\ RestData \in Seq(Byte) /\ Len(RestData) = BlockSize(txMode)
           /\ RestCheck \in Seq(Byte) /\ Len(RestCheck) = CheckSize(txMode)
           /\ \A i \in 1 .. BlockSize(txMode) : RestData[i] = fwd[2 + i]
           /\ \A i \in 1 .. CheckSize(txMode) : RestCheck[i] = fwd[2 + BlockSize(txMode) + i]
<1> DEFINE size == BlockSize(txMode)
           last == CheckSize(txMode)
<1>1. /\ DataSize = size /\ RestSize = Len(txBuf) - 1 /\ RestSize = 2 + BodySize
      /\ fwd \in Seq(Byte) /\ Len(fwd) \in Nat /\ Len(txBuf) \in Nat
      /\ Len(fwd) = RestSize
      /\ fwd[1] = blkNo /\ fwd[2] = Complement(blkNo)
  BY SizesAgree
<1>2. /\ BodySize = size + last /\ size \in Nat /\ last \in {1, 2}
  BY UnderWay DEF Resting, Background
<1> HIDE DEF size, last
<1>3. Len(fwd) = 2 + size + last
  BY <1>1, <1>2
<1>4. Without(fwd, RestSize) = << >>
  BY <1>1, <1>3 DEF Without
<1>5. \A i \in 3 .. 2 + size : fwd[i] \in Byte
  BY <1>1, <1>2, <1>3, ElementOfSeq
<1>6. /\ RestData \in Seq(Byte) /\ Len(RestData) = size
      /\ \A i \in 1 .. size : RestData[i] = fwd[3 + i - 1]
  <2>1. /\ SubSeq(fwd, 3, size + 2) \in Seq(Byte)
        /\ Len(SubSeq(fwd, 3, size + 2)) = IF 3 <= size + 2 THEN size + 2 - 3 + 1 ELSE 0
        /\ \A i \in 1 .. size + 2 - 3 + 1 : SubSeq(fwd, 3, size + 2)[i] = fwd[3 + i - 1]
    BY <1>2, <1>5, SubSeqProperties
  <2>2. RestData = SubSeq(fwd, 3, size + 2)
    BY <1>1 DEF RestData
  <2>3. size + 2 - 3 + 1 = size
    BY <1>2
  <2>4. QED
    BY <1>2, <2>1, <2>2, <2>3
<1>7. \A i \in 3 + size .. Len(fwd) : fwd[i] \in Byte
  BY <1>1, <1>2, <1>3, ElementOfSeq
<1>8. /\ RestCheck \in Seq(Byte) /\ Len(RestCheck) = last
      /\ \A i \in 1 .. last : RestCheck[i] = fwd[3 + size + i - 1]
  <2>1. /\ SubSeq(fwd, 3 + size, Len(fwd)) \in Seq(Byte)
        /\ Len(SubSeq(fwd, 3 + size, Len(fwd))) =
               IF 3 + size <= Len(fwd) THEN Len(fwd) - (3 + size) + 1 ELSE 0
        /\ \A i \in 1 .. Len(fwd) - (3 + size) + 1 :
               SubSeq(fwd, 3 + size, Len(fwd))[i] = fwd[3 + size + i - 1]
    BY <1>1, <1>2, <1>7, SubSeqProperties
  <2>2. RestCheck = SubSeq(fwd, 3 + size, Len(fwd))
    BY <1>1, <1>2 DEF RestCheck
  <2>3. Len(fwd) - (3 + size) + 1 = last
    BY <1>2, <1>3
  <2>4. QED
    BY <1>2, <2>1, <2>2, <2>3
<1>9. /\ \A i \in 1 .. size : 3 + i - 1 = 2 + i
      /\ \A i \in 1 .. last : 3 + size + i - 1 = 2 + size + i
  BY <1>2
<1>10. RestBlk = blkNo /\ RestComp = Complement(blkNo) /\ Len(fwd) + 1 = Len(txBuf)
  BY <1>1 DEF RestBlk, RestComp
<1>11. QED
  BY <1>4, <1>6, <1>8, <1>9, <1>10 DEF size, last

(* and if its check passes it has the payload that was sent: whatever was  *)
(* changed in the packet is noticed.                                       *)
LEMMA ChangesNoticed ==
    ASSUME TxInv, PacketUnderWay, DetectsChanges(MaxFaults), faults \in 0 .. MaxFaults,
           NEW got \in Seq(Byte), Len(got) = BodySize,
           NEW hit, hit = {i \in 1 .. BodySize : got[i] # Body[i]},
           hit # {}, Cardinality(hit) <= faults, \A i \in hit : got[i] \in Noise
    PROVE  SubSeq(got, BlockSize(txMode) + 1, BodySize)
               # CheckBytes(txMode, SubSeq(got, 1, BlockSize(txMode)))
<1> DEFINE noise == [i \in hit |-> got[i]]
           arrived == [i \in DOMAIN Body |-> IF i \in hit THEN noise[i] ELSE Body[i]]
<1>1. Body \in Seq(Byte) /\ Len(Body) = BodySize /\ BodySize \in Nat
  BY UnderWay
<1>2. DOMAIN Body = 1 .. BodySize /\ hit \subseteq 1 .. BodySize
  BY <1>1
<1>3. txMode \in Modes /\ source \in Sources /\ ackedTo \in 0 .. Len(source)
  <2>1. source \in Seq(Alphabet) /\ ackedTo \in Nat /\ Len(source) - ackedTo >= 0
    BY TxAssumption DEF TxInv, TxTypeOK, PacketUnderWay, Left
  <2>2. QED
    BY <2>1 DEF TxInv, TxTypeOK
<1>4. Cardinality(hit) \in 1 .. MaxFaults
  <2>1. IsFiniteSet(hit)
    BY <1>1, <1>2, FS_Interval, FS_Subset
  <2>2. Cardinality(hit) \in Nat /\ Cardinality(hit) # 0
    BY <2>1, FS_CardinalityType, FS_EmptySet
  <2>3. QED
    BY <2>2, SessionAssumption
<1>5. noise \in [hit -> Noise] /\ \A i \in hit : noise[i] # Body[i]
  OBVIOUS
<1>6. SubSeq(arrived, BlockSize(txMode) + 1, Len(Body))
          # CheckBytes(txMode, SubSeq(arrived, 1, BlockSize(txMode)))
  <2> DEFINE detected(h, n) ==
                 LET arr == [i \in DOMAIN Body |-> IF i \in h THEN n[i] ELSE Body[i]]
                 IN  SubSeq(arr, BlockSize(txMode) + 1, Len(Body))
                         # CheckBytes(txMode, SubSeq(arr, 1, BlockSize(txMode)))
  <2>1. \A h \in SUBSET DOMAIN Body : \A n \in [h -> Noise] :
            Cardinality(h) \in 1 .. MaxFaults /\ (\A i \in h : n[i] # Body[i]) => detected(h, n)
    BY <1>3 DEF DetectsChanges, Body, Payload
  <2>2. hit \in SUBSET DOMAIN Body
    BY <1>2
  <2> HIDE DEF detected, noise
  <2>3. detected(hit, noise)
    BY <1>4, <1>5, <2>1, <2>2
  <2>4. QED
    BY <2>3 DEF detected
<1>7. arrived = got
  <2>1. got = [i \in 1 .. BodySize |-> got[i]]
    BY <1>1
  <2>2. \A i \in 1 .. BodySize : got[i] = IF i \in hit THEN noise[i] ELSE Body[i]
    OBVIOUS
  <2>3. QED
    BY <1>2, <2>1, <2>2
<1>8. QED
  BY <1>1, <1>6, <1>7

LEMMA RestIsPayload ==
    ASSUME Resting, FairLine, Len(fwd) >= RestSize
    PROVE  /\ CheckGood <=> Changed(1) = {}
           /\ CheckGood => RestData = Payload
<1> DEFINE size == BlockSize(txMode)
           last == CheckSize(txMode)
           check == CheckBytes(txMode, Payload)
           got == [i \in 1 .. BodySize |-> fwd[2 + i]]
<1>1. TxInv /\ PacketUnderWay /\ RxInv /\ faults \in 0 .. MaxFaults
  BY DEF Resting, Background
<1>2. /\ BodySize = size + last /\ size \in Nat /\ last \in {1, 2}
      /\ Payload \in Seq(Byte) /\ Len(Payload) = size
      /\ check \in Seq(Byte) /\ Len(check) = last
      /\ Body \in Seq(Byte) /\ Len(Body) = BodySize /\ Body = Payload \o check
      /\ \A i \in 1 .. BodySize : txBuf[DATA + i] = Body[i]
  BY <1>1, UnderWay DEF Body
<1>3. /\ RestData \in Seq(Byte) /\ Len(RestData) = size
      /\ RestCheck \in Seq(Byte) /\ Len(RestCheck) = last
      /\ \A i \in 1 .. size : RestData[i] = fwd[2 + i]
      /\ \A i \in 1 .. last : RestCheck[i] = fwd[2 + size + i]
      /\ Len(fwd) + 1 = Len(txBuf) /\ fwd \in Seq(Byte) /\ Len(fwd) = 2 + BodySize
  <2>1. Len(fwd) = RestSize /\ RestSize = 2 + BodySize /\ fwd \in Seq(Byte)
    BY <1>2, SizesAgree
  <2>2. QED
    BY <2>1, RestParts
<1>4. CheckBytes(rxMode, RestData) = CheckBytes(txMode, RestData)
  BY DEF Resting, ModesAgree, CheckBytes
<1> HIDE DEF size, last, check
<1>5. /\ \A i \in 1 .. size : Body[i] = Payload[i]
      /\ \A i \in 1 .. last : Body[size + i] = check[i]
  BY <1>2, ConcatParts
<1>6. got \in Seq(Byte) /\ Len(got) = BodySize /\ \A i \in 1 .. BodySize : got[i] = fwd[2 + i]
  <2>1. \A i \in 1 .. BodySize : fwd[2 + i] \in Byte
    BY <1>2, <1>3, ElementOfSeq
  <2>2. got \in [1 .. BodySize -> Byte]
    BY <2>1
  <2>3. BodySize \in Nat
    BY <1>2
  <2>4. QED
    BY <2>2, <2>3
<1>7. Changed(1) = {i \in 1 .. BodySize : got[i] # Body[i]}
  <2>1. \A i \in 1 .. BodySize : DATA - 1 + i = 2 + i
    BY <1>2 DEF DATA
  <2>2. \A i \in 1 .. BodySize : fwd[DATA - 1 + i] # txBuf[DATA + i] <=> got[i] # Body[i]
    BY <1>2, <1>6, <2>1
  <2>3. QED
    BY <2>2 DEF Changed
<1> HIDE DEF got
<1>8. RestData = SubSeq(got, 1, size) /\ RestCheck = SubSeq(got, size + 1, BodySize)
  <2>1. /\ SubSeq(got, 1, size) \in Seq(Byte) /\ Len(SubSeq(got, 1, size)) = size
        /\ \A i \in 1 .. size : SubSeq(got, 1, size)[i] = got[i]
    BY <1>2, <1>6, SubSeqProperties
  <2>2. RestData = SubSeq(got, 1, size)
    BY <1>2, <1>3, <1>6, <2>1, SeqEqual
  <2>3. \A i \in size + 1 .. BodySize : got[i] \in Byte
    BY <1>2, <1>6
  <2>4. /\ SubSeq(got, size + 1, BodySize) \in Seq(Byte)
        /\ Len(SubSeq(got, size + 1, BodySize)) =
               IF size + 1 <= BodySize THEN BodySize - (size + 1) + 1 ELSE 0
        /\ \A i \in 1 .. BodySize - (size + 1) + 1 :
               SubSeq(got, size + 1, BodySize)[i] = got[size + 1 + i - 1]
    BY <1>2, <2>3, SubSeqProperties
  <2>5. BodySize - (size + 1) + 1 = last /\ \A i \in 1 .. last : size + 1 + i - 1 = size + i
    BY <1>2
  <2>6. /\ Len(SubSeq(got, size + 1, BodySize)) = last
        /\ \A i \in 1 .. last : SubSeq(got, size + 1, BodySize)[i] = got[size + i]
    BY <1>2, <2>4, <2>5
  <2>7. \A i \in 1 .. last : got[size + i] = fwd[2 + size + i]
    <3>1. \A i \in 1 .. last : size + i \in 1 .. BodySize /\ 2 + (size + i) = 2 + size + i
      BY <1>2
    <3>2. QED
      BY <1>6, <3>1
  <2>8. RestCheck = SubSeq(got, size + 1, BodySize)
    <3>1. \A i \in 1 .. last : RestCheck[i] = SubSeq(got, size + 1, BodySize)[i]
      BY <1>3, <2>6, <2>7
    <3>2. QED
      BY <1>3, <2>4, <2>6, <3>1, SeqEqual
  <2>9. QED
    BY <2>2, <2>8
<1>9. CASE Changed(1) = {}
  <2>1. \A i \in 1 .. BodySize : got[i] = Body[i]
    BY <1>7, <1>9
  <2>2. got = Body
    BY <1>2, <1>6, <2>1, SeqEqual
  <2>3. RestData = Payload
    <3>1. \A i \in 1 .. size : i \in 1 .. BodySize
      BY <1>2
    <3>2. \A i \in 1 .. size : RestData[i] = Payload[i]
      BY <1>3, <1>5, <1>6, <2>1, <3>1
    <3>3. QED
      BY <1>2, <1>3, <3>2, SeqEqual
  <2>4. RestCheck = check
    <3>1. \A i \in 1 .. last : size + i \in 1 .. BodySize /\ 2 + (size + i) = 2 + size + i
      BY <1>2
    <3>2. ASSUME NEW i \in 1 .. last PROVE RestCheck[i] = check[i]
      <4>1. RestCheck[i] = fwd[2 + (size + i)]
        BY <1>3, <3>1
      <4>2. Body[size + i] = check[i]
        BY <1>5
      <4>3. QED
        BY <1>6, <2>1, <3>1, <4>1, <4>2
    <3>3. QED
      BY <1>2, <1>3, <3>2, SeqEqual
  <2>5. QED
    BY <1>4, <1>9, <2>3, <2>4 DEF CheckGood, check
<1>10. CASE Changed(1) # {}
  <2>1. /\ "change" \in FaultKinds /\ Cardinality(Changed(1)) <= faults
        /\ \A i \in Changed(1) : fwd[DATA - 1 + i] \in Noise
    BY <1>3, <1>10 DEF Resting, Arrives
  <2>2. DetectsChanges(MaxFaults)
    BY <2>1 DEF FairLine
  <2>3. \A i \in Changed(1) : i \in 1 .. BodySize /\ DATA - 1 + i = 2 + i
    BY <1>2 DEF Changed, DATA
  <2>4. \A i \in Changed(1) : got[i] \in Noise
    BY <1>6, <2>1, <2>3
  <2>5. SubSeq(got, size + 1, BodySize) # CheckBytes(txMode, SubSeq(got, 1, size))
    BY <1>1, <1>6, <1>7, <1>10, <2>1, <2>2, <2>4, ChangesNoticed DEF size
  <2>6. QED
    BY <1>4, <1>8, <1>10, <2>5 DEF CheckGood
<1>11. QED
  BY <1>9, <1>10

-----------------------------------------------------------------------------
(* What a line keeps when bytes are taken off it or one of them is lost.   *)
LEMMA TakenOff ==
    ASSUME NEW line \in Seq(Byte), NEW n \in 0 .. Len(line)
    PROVE  /\ Without(line, n) \in Seq(Byte) /\ Len(Without(line, n)) = Len(line) - n
           /\ \A i \in 1 .. Len(line) - n : Without(line, n)[i] = line[n + i]
<1>1. Len(line) \in Nat /\ n \in Nat
  OBVIOUS
<1>2. \A i \in n + 1 .. Len(line) : line[i] \in Byte
  BY <1>1, ElementOfSeq
<1>3. /\ Without(line, n) \in Seq(Byte)
      /\ Len(Without(line, n)) = IF n + 1 <= Len(line) THEN Len(line) - (n + 1) + 1 ELSE 0
      /\ \A i \in 1 .. Len(line) - (n + 1) + 1 : Without(line, n)[i] = line[n + 1 + i - 1]
  BY <1>1, <1>2, SubSeqProperties DEF Without
<1>4. /\ Len(line) - (n + 1) + 1 = Len(line) - n
      /\ \A i \in 1 .. Len(line) - n : n + 1 + i - 1 = n + i
  BY <1>1
<1> HIDE DEF Without
<1>5. Len(Without(line, n)) = Len(line) - n
  <2>1. n + 1 <= Len(line) => Len(Without(line, n)) = Len(line) - n
    BY <1>3, <1>4, Zenon
  <2>2. ~(n + 1 <= Len(line)) => Len(Without(line, n)) = 0
    BY <1>3, Zenon
  <2>3. ~(n + 1 <= Len(line)) => Len(line) - n = 0
    BY <1>1
  <2>4. QED
    BY <2>1, <2>2, <2>3, Zenon
<1>6. ASSUME NEW i \in 1 .. Len(line) - n PROVE Without(line, n)[i] = line[n + i]
  BY <1>3, <1>4
<1>7. QED
  BY <1>3, <1>5, <1>6

LEMMA Removed ==
    ASSUME NEW line \in Seq(Byte), NEW i \in 1 .. Len(line)
    PROVE  /\ RemoveAt(line, i) \in Seq(Byte) /\ Len(RemoveAt(line, i)) = Len(line) - 1
           /\ \A j \in 1 .. i - 1 : RemoveAt(line, i)[j] = line[j]
           /\ \A j \in i .. Len(line) - 1 : RemoveAt(line, i)[j] = line[j + 1]
<1> DEFINE front == SubSeq(line, 1, i - 1)
           back == SubSeq(line, i + 1, Len(line))
<1>1. Len(line) \in Nat
  OBVIOUS
<1>2. /\ front \in Seq(Byte) /\ Len(front) = i - 1
      /\ \A j \in 1 .. i - 1 : front[j] = line[j]
  BY <1>1, ElementOfSeq, SubSeqProperties
<1>3. Without(line, i) = back
  BY DEF Without
<1>4. /\ back \in Seq(Byte) /\ Len(back) = Len(line) - i
      /\ \A j \in 1 .. Len(line) - i : back[j] = line[i + j]
  <2>1. i \in 0 .. Len(line)
    BY <1>1
  <2>2. /\ Without(line, i) \in Seq(Byte) /\ Len(Without(line, i)) = Len(line) - i
        /\ \A j \in 1 .. Len(line) - i : Without(line, i)[j] = line[i + j]
    BY <2>1, TakenOff
  <2> HIDE DEF back
  <2>3. QED
    BY <1>3, <2>2
<1>5. RemoveAt(line, i) = front \o back
  BY DEF RemoveAt
<1> HIDE DEF front, back
<1>6. /\ front \o back \in Seq(Byte) /\ Len(front \o back) = Len(front) + Len(back)
      /\ \A j \in 1 .. Len(front) : (front \o back)[j] = front[j]
      /\ \A j \in 1 .. Len(back) : (front \o back)[Len(front) + j] = back[j]
  BY <1>2, <1>4, ConcatParts
<1>7. ASSUME NEW j \in i .. Len(line) - 1 PROVE (front \o back)[j] = line[j + 1]
  <2>1. /\ j - i + 1 \in 1 .. Len(back) /\ j = Len(front) + (j - i + 1)
        /\ i + (j - i + 1) = j + 1 /\ j - i + 1 \in 1 .. Len(line) - i
    BY <1>1, <1>2, <1>4
  <2>2. (front \o back)[Len(front) + (j - i + 1)] = back[j - i + 1]
    BY <1>6, <2>1
  <2>3. back[j - i + 1] = line[i + (j - i + 1)]
    BY <1>4, <2>1
  <2>4. QED
    BY <2>1, <2>2, <2>3
<1>8. \A j \in 1 .. i - 1 : (front \o back)[j] = line[j]
  BY <1>2, <1>6
<1>9. Len(front \o back) = Len(line) - 1
  BY <1>1, <1>2, <1>4, <1>6
<1>10. QED
  BY <1>5, <1>6, <1>7, <1>8, <1>9

(* No reply acknowledges anything. *)
NoAck(line) == \A i \in 1 .. Len(line) : line[i] # ACK

LEMMA StillNoAck ==
    ASSUME NEW line \in Seq(Byte), NoAck(line)
    PROVE  /\ \A rest \in Flushed(line) : NoAck(rest)
           /\ line # << >> => NoAck(Tail(line)) /\ Head(line) # ACK
           /\ \A i \in 1 .. Len(line) : NoAck(RemoveAt(line, i))
<1>1. ASSUME NEW n \in 0 .. Len(line) PROVE NoAck(Without(line, n))
  <2>1. ASSUME NEW i \in 1 .. Len(Without(line, n)) PROVE Without(line, n)[i] # ACK
    <3>1. n + i \in 1 .. Len(line) /\ Without(line, n)[i] = line[n + i]
      BY TakenOff
    <3>2. QED
      BY <3>1 DEF NoAck
  <2>2. QED
    BY <2>1 DEF NoAck
<1>2. ASSUME line # << >> PROVE NoAck(Tail(line)) /\ Head(line) # ACK
  <2>1. Tail(line) = Without(line, 1) /\ 1 \in 0 .. Len(line) /\ 1 \in 1 .. Len(line) /\ Head(line) = line[1]
    BY <1>2 DEF Without
  <2>2. QED
    BY <1>1, <2>1 DEF NoAck
<1>3. ASSUME NEW i \in 1 .. Len(line) PROVE NoAck(RemoveAt(line, i))
  <2>1. /\ Len(RemoveAt(line, i)) = Len(line) - 1 /\ Len(line) \in Nat
        /\ \A j \in 1 .. i - 1 : RemoveAt(line, i)[j] = line[j]
        /\ \A j \in i .. Len(line) - 1 : RemoveAt(line, i)[j] = line[j + 1]
    BY Removed
  <2>2. ASSUME NEW j \in 1 .. Len(line) - 1 PROVE RemoveAt(line, i)[j] # ACK
    <3>1. j \in 1 .. i - 1 \/ j \in i .. Len(line) - 1
      BY <2>1
    <3>2. j \in 1 .. Len(line) /\ j + 1 \in 1 .. Len(line)
      BY <2>1
    <3>3. QED
      BY <2>1, <3>1, <3>2 DEF NoAck
  <2>3. QED
    BY <2>1, <2>2 DEF NoAck
<1>4. QED
  BY <1>1, <1>2, <1>3 DEF Flushed

(* A line of one byte is the same or empty afterwards. *)
LEMMA SingleByte ==
    ASSUME NEW line \in Seq(Byte), Len(line) \in {0, 1}
    PROVE  /\ Flushed(line) \subseteq {line, << >>}
           /\ \A i \in DOMAIN line : RemoveAt(line, i) = << >>
           /\ line # << >> => Tail(line) = << >>
<1>1. Len(line) \in Nat
  OBVIOUS
<1>2. ASSUME NEW n \in 0 .. Len(line) PROVE Without(line, n) \in {line, << >>}
  <2>1. /\ Without(line, n) \in Seq(Byte) /\ Len(Without(line, n)) = Len(line) - n
        /\ \A i \in 1 .. Len(line) - n : Without(line, n)[i] = line[n + i]
    BY TakenOff
  <2>2. CASE n = 0
    <3>1. \A i \in 1 .. Len(line) : Without(line, n)[i] = line[i]
      BY <1>1, <2>1, <2>2
    <3>2. QED
      BY <1>1, <2>1, <2>2, <3>1, SeqEqual
  <2>3. CASE n # 0
    BY <1>1, <2>1, <2>3, EmptySeq
  <2>4. QED
    BY <2>2, <2>3
<1>3. ASSUME NEW i \in 1 .. Len(line) PROVE RemoveAt(line, i) = << >>
  <2>1. RemoveAt(line, i) \in Seq(Byte) /\ Len(RemoveAt(line, i)) = 0
    BY <1>1, Removed
  <2>2. QED
    BY <2>1, EmptySeq
<1>4. Flushed(line) \subseteq {line, << >>}
  BY <1>2 DEF Flushed
<1>5. ASSUME line # << >> PROVE Tail(line) = << >>
  <2>1. Tail(line) \in Seq(Byte) /\ Len(Tail(line)) = Len(line) - 1 /\ Len(line) # 0
    BY <1>5, EmptySeq, HeadTailProperties
  <2>2. Len(Tail(line)) = 0
    BY <1>1, <2>1
  <2>3. QED
    BY <2>1, <2>2, EmptySeq
<1>6. DOMAIN line = 1 .. Len(line)
  OBVIOUS
<1>7. QED
  BY <1>3, <1>4, <1>5, <1>6

-----------------------------------------------------------------------------
(***************************************************************************)
(* Every step of a session is a step of one end with any peer, or a fault  *)
(* on the line.                                                            *)
(***************************************************************************)
LEMMA TxKeeps == ASSUME TxInv, UNCHANGED txVars, LinesTypeOK' PROVE TxInv'
<1>1. TxTypeOK'
  BY DEF TxInv, TxTypeOK, txVars
<1>2. UNCHANGED <<DataVars, txPc, txStatus>>
  BY DEF txVars, DataVars
<1>3. QED
  BY <1>1, <1>2, SameData DEF TxInv

LEMMA RxKeeps == ASSUME RxInv, UNCHANGED rxVars, LinesTypeOK' PROVE RxInv'
  BY DEF RxInv, RxTypeOK, ModeKept, rxVars

TxStepTaken == TxNext /\ UNCHANGED rxVars /\ faults' \in {faults, faults + 1}
RxStepTaken == /\ RxStart \/ RxProgress \/ RxTimeout
               /\ UNCHANGED <<txVars, faults>>
ByteHit == (LoseByte \/ ChangeByte) /\ UNCHANGED <<txVars, rxVars>>

LEMMA StepKinds ==
    ASSUME [Next]_vars
    PROVE  TxStepTaken \/ RxStepTaken \/ ByteHit \/ UNCHANGED vars
<1>1. CASE TxStep \/ TxGivesUp \/ SendFails \/ EndFails
  BY <1>1 DEF TxStep, TxGivesUp, SendFails, EndFails, Fault, TxStepTaken, TxNext
<1>2. CASE RxStep \/ RxWaits \/ RxGivesUpRest \/ RxLineSilent
  BY <1>2 DEF RxStep, RxWaits, RxGivesUpRest, RxLineSilent, RxStepTaken, RxTimeout
<1>3. CASE LoseByte \/ ChangeByte
  BY <1>3 DEF LoseByte, ChangeByte, Fault, ByteHit
<1>4. QED
  BY <1>1, <1>2, <1>3 DEF Next, Work

(* A damaged line is still a line. *)
LEMMA HitType == ASSUME LinesTypeOK, ByteHit PROVE LinesTypeOK'
<1>1. \A i \in Exposed : i \in 1 .. Len(fwd)
  BY DEF Exposed, LinesTypeOK
<1>2. \A i \in ExposedReplies : i \in 1 .. Len(bwd)
  BY DEF ExposedReplies, LinesTypeOK
<1>3. ASSUME NEW line \in Seq(Byte), NEW i \in 1 .. Len(line)
      PROVE  RemoveAt(line, i) \in Seq(Byte) /\ \A b \in Byte : ReplaceAt(line, i, b) \in Seq(Byte)
  BY <1>3, Removed DEF ReplaceAt
<1>4. CASE LoseByte
  BY <1>1, <1>2, <1>3, <1>4 DEF LoseByte, LinesTypeOK
<1>5. CASE ChangeByte
  BY <1>1, <1>2, <1>3, <1>5, SessionAssumption DEF ChangeByte, LinesTypeOK
<1>6. QED
  BY <1>4, <1>5 DEF ByteHit

LEMMA EndsInv ==
    ASSUME TxInv, RxInv, [Next]_vars
    PROVE  TxInv' /\ RxInv'
<1>1. CASE TxStepTaken
  <2>1. TxInv'
    BY <1>1, InvNext DEF TxStepTaken, TxSpecNext
  <2>2. QED
    BY <1>1, <2>1, RxKeeps DEF TxStepTaken, TxInv, TxTypeOK
<1>2. CASE RxStepTaken
  <2>1. RxInv'
    BY <1>2, NextInv DEF RxStepTaken, RxSpecNext, RxNext
  <2>2. QED
    BY <1>2, <2>1, TxKeeps DEF RxStepTaken, RxInv, RxTypeOK
<1>3. CASE ByteHit
  <2>1. LinesTypeOK'
    BY <1>3, HitType DEF TxInv, TxTypeOK
  <2>2. QED
    BY <1>3, <2>1, TxKeeps, RxKeeps DEF ByteHit
<1>4. CASE UNCHANGED vars
  <2>1. LinesTypeOK'
    BY <1>4 DEF vars, lines, LinesTypeOK, TxInv, TxTypeOK
  <2>2. QED
    BY <1>4, <2>1, TxKeeps, RxKeeps DEF vars
<1>5. QED
  BY <1>1, <1>2, <1>3, <1>4, StepKinds

(* The modes only fall: 1K to 128 byte blocks, CRC to checksum. *)
LEMMA TxModeFalls ==
    ASSUME TxTypeOK, TxNext
    PROVE  /\ txMode' = txMode \/ (txMode = "XMODEM_1K" /\ txMode' = "XMODEM_CRC")
           /\ source' = source
<1>1. CASE TxSend \/ TxSendFails
  BY <1>1 DEF TxSend, TxSendFails, TxFill, ModeAfter
<1>2. CASE TxStart \/ TxReady \/ TxFlush
  BY <1>2 DEF TxStart, TxReady, TxFlush
<1>3. CASE TxAck \/ TxNak
  BY <1>3 DEF TxAck, TxNak, TxResponse
<1>4. CASE TxCancelled \/ TxSendEot \/ TxEotFails \/ TxFinish
  BY <1>4 DEF TxCancelled, TxSendEot, TxEotFails, TxFinish
<1>5. CASE TxChannelError \/ TxTimeout \/ TxHwError
  BY <1>5 DEF TxChannelError, TxTimeout, TxHwError, TxReadFails
<1>6. QED
  BY <1>1, <1>2, <1>3, <1>4, <1>5 DEF TxNext, TxProgress

LEMMA AgainMode ==
    ASSUME NEW n, NEW out, NEW code, ReadAgain(n, out, code)
    PROVE  rxMode' = rxMode \/ (rxMode = "XMODEM_CRC" /\ rxMode' = "XMODEM")
  BY DEF ReadAgain

LEMMA RxModeFalls ==
    ASSUME RxStart \/ RxProgress \/ RxTimeout
    PROVE  /\ rxMode' = rxMode \/ (rxMode = "XMODEM_CRC" /\ rxMode' = "XMODEM")
           /\ rxPortUp' = rxPortUp
<1>1. CASE RxStart \/ RxJunk \/ RxWaitTimeout
  BY <1>1, AgainMode DEF RxStart, RxJunk, RxWaitTimeout
<1>2. CASE RxStartChar \/ RxEot \/ RxMismatch
  BY <1>2 DEF RxStartChar, RxEot, RxMismatch
<1>3. CASE RxBadCheck
  BY <1>3, AgainMode DEF RxBadCheck
<1>4. CASE RxStore \/ RxSinkFull
  BY <1>4, AgainMode DEF RxStore, RxSinkFull, GoodPacket
<1>5. CASE RxPurgeByte
  BY <1>5 DEF RxPurgeByte, rxVars
<1>6. CASE RxRestTimeout \/ RxPurged
  BY <1>6, AgainMode DEF RxRestTimeout, RestFails, RxPurged
<1>7. QED
  BY <1>1, <1>2, <1>3, <1>4, <1>5, <1>6 DEF RxProgress, RxTimeout

LEMMA BackgroundNext == ASSUME Background, [Next]_vars PROVE Background'
<1>1. TxInv' /\ RxInv'
  BY EndsInv DEF Background
<1>2. faults' \in 0 .. MaxFaults
  BY SessionAssumption DEF Background, Next, Work, TxStep, TxGivesUp, RxStep, RxWaits, RxGivesUpRest,
     RxLineSilent, LoseByte, ChangeByte, SendFails, EndFails, Fault, vars
<1>3. /\ txMode' = txMode \/ (txMode = "XMODEM_1K" /\ txMode' = "XMODEM_CRC")
      /\ rxMode' = rxMode \/ (rxMode = "XMODEM_CRC" /\ rxMode' = "XMODEM")
      /\ rxPortUp' = rxPortUp
  <2>1. CASE TxStepTaken
    BY <2>1, TxModeFalls DEF TxStepTaken, Background, TxInv, rxVars
  <2>2. CASE RxStepTaken
    BY <2>2, RxModeFalls DEF RxStepTaken, txVars
  <2>3. CASE ByteHit \/ UNCHANGED vars
    BY <2>3 DEF ByteHit, vars, txVars, rxVars
  <2>4. QED
    BY <2>1, <2>2, <2>3, StepKinds
<1>4. QED
  BY <1>1, <1>2, <1>3 DEF Background, MustKeep

-----------------------------------------------------------------------------
LEMMA SessionStart == ASSUME FairLine, Init PROVE SessionInv
<1>1. TxInv /\ RxInv
  BY InvInit, InitInv DEF Init, TxSpecInit, RxSpecInit
<1>2. <<txMode, rxMode>> \in Matching /\ <<txMode, rxMode>> \in ModePairs
  BY DEF FairLine, Init
<1>3. /\ rxMode = "XMODEM_CRC" => txMode \in {"XMODEM", "XMODEM_CRC"}
      /\ rxMode = "XMODEM" => txMode = "XMODEM"
      /\ rxMode = "XMODEM_1K" => txMode # "XMODEM"
      /\ txMode = "XMODEM_1K" => rxMode = "XMODEM_1K"
  BY <1>2 DEF Matching, Modes
<1>4. Background
  BY <1>1, <1>2, <1>3, SessionAssumption DEF Background, Init, RxInit, MustKeep, FairLine
<1>5. Negotiating
  BY <1>3 DEF Negotiating, Init, TxInit, RxInit, LinesInit, Errors
<1>6. SinkIsPrefix
  <2>1. sink = << >> /\ Len(sink) = 0 /\ source \in Seq(Alphabet)
    BY TxAssumption DEF Init, RxInit, TxInit
  <2>2. Block(source, 0, 0) = << >>
    BY <2>1, BlockSeq, EmptySeq
  <2>3. QED
    BY <2>1, <2>2 DEF SinkIsPrefix
<1>7. TxSuccessMeansDelivered
  BY DEF TxSuccessMeansDelivered, TxSucceeded, Init, TxInit
<1>8. QED
  BY <1>4, <1>5, <1>6, <1>7 DEF SessionInv, Situation

LEMMA Numbers ==
    ASSUME Background
    PROVE  /\ faults \in Nat /\ MaxFaults \in Nat /\ errorCount \in Nat /\ MaxErrors \in Nat
           /\ FallbackErrors \in Nat /\ ackedTo \in Nat /\ Len(sink) \in Nat
           /\ BlockSize(txMode) \in Nat \ {0} /\ blkNo \in 0 .. NumBlockNos - 1
           /\ source \in Seq(Alphabet) /\ Len(source) \in Nat /\ sink \in Seq(Byte)
           /\ fwd \in Seq(Byte) /\ bwd \in Seq(Byte)
<1>1. TxTypeOK /\ RxTypeOK /\ faults \in 0 .. MaxFaults
  BY DEF Background, TxInv, RxInv
<1>2. source \in Seq(Alphabet) /\ sink \in Seq(Byte) /\ txMode \in Modes
  BY <1>1, TxAssumption DEF TxTypeOK, RxTypeOK
<1>3. QED
  BY <1>1, <1>2, SizeType, SessionAssumption, RxAssumption
     DEF TxTypeOK, RxTypeOK, LinesTypeOK

-----------------------------------------------------------------------------
(***************************************************************************)
(* Steps of the transmitter.                                               *)
(***************************************************************************)

(* Once the receiver has returned, with a failure, nothing the transmitter *)
(* does counts unless it gets an ACK, and none is on the line.             *)
LEMMA OverStays ==
    ASSUME Over, UNCHANGED <<rxVars, source, ackedTo>>,
           txPc # "done",
           \/ txPc' = "done"
           \/ rxStatus # "MODEM_NO_ERRORS" /\ txPc' \notin {"eot", "fin"} /\ NoAck(bwd')
    PROVE  Over'
  BY DEF Over, rxVars, AllStored, NoAck

LEMMA OverFailed ==
    ASSUME Over, txPc \notin {"done", "fin"}
    PROVE  rxStatus # "MODEM_NO_ERRORS" /\ NoAck(bwd) /\ txPc # "eot"
  BY DEF Over, NoAck

LEMMA StartStep ==
    ASSUME Background, Situation, TxStart, UNCHANGED <<rxVars, faults>>
    PROVE  Situation'
<1>1. /\ txPc = "idle" /\ txPc' = "ready" /\ bwd' \in Flushed(bwd)
      /\ UNCHANGED <<txMode, source, blkNo, ackedTo, fwd>>
  BY DEF TxStart
<1>2. CASE Negotiating
  <2>1. /\ <<NAK>> \in Seq(Byte) /\ <<ASCII_C>> \in Seq(Byte) /\ << >> \in Seq(Byte)
        /\ Len(<<NAK>>) = 1 /\ Len(<<ASCII_C>>) = 1 /\ Len(<< >>) = 0
    BY Outputs
  <2>2. bwd \in Seq(Byte) /\ Len(bwd) \in {0, 1}
    <3>1. bwd = << >> \/ bwd = <<NAK>> \/ bwd = <<ASCII_C>>
      BY <1>2 DEF Negotiating
    <3>2. Len(bwd) \in {0, 1}
      BY <2>1, <3>1, Zenon
    <3>3. QED
      BY <3>2, Numbers
  <2>3. bwd' = bwd \/ bwd' = << >>
    BY <1>1, <2>2, SingleByte
  <2>4. Negotiating'
    BY <1>1, <1>2, <2>3 DEF Negotiating, rxVars, Errors, MustKeep
  <2>5. QED
    BY <2>4 DEF Situation
<1>3. CASE Over
  <2>1. rxStatus # "MODEM_NO_ERRORS" /\ NoAck(bwd)
    BY <1>1, <1>3, OverFailed
  <2>2. NoAck(bwd')
    BY <1>1, <2>1, Numbers, StillNoAck
  <2>3. QED
    BY <1>1, <1>3, <2>1, <2>2, OverStays DEF Situation
<1>4. QED
  BY <1>1, <1>2, <1>3 DEF Situation, Filling, Flying, Answered, Ending, Alone

LEMMA ReadyStep ==
    ASSUME Background, Situation, TxReady, UNCHANGED <<rxVars, faults>>
    PROVE  Situation'
<1>1. /\ txPc = "ready" /\ bwd # << >> /\ bwd' = Tail(bwd)
      /\ txPc' = IF Head(bwd) = ReadyCode THEN "fill" ELSE "ready"
      /\ UNCHANGED <<txMode, source, lastSent, blkNo, txBuf, ackedTo, fwd>>
  BY DEF TxReady, TxReads
<1>2. CASE Negotiating
  <2>1. /\ bwd \in {<<NAK>>, <<ASCII_C>>} /\ bwd' = << >>
        /\ Head(bwd) = IF bwd = <<NAK>> THEN NAK ELSE ASCII_C
    BY <1>1, <1>2 DEF Negotiating
  <2>2. rxPc = "wait" /\ ackedTo = 0 /\ sink = << >> /\ blkNo = 1 /\ expBlk = 1
    BY <1>1, <1>2, <2>1 DEF Negotiating, Background, TxInv, NothingSent
  <2>3. CASE Head(bwd) = ReadyCode
    <3>1. ModesAgree
      BY <1>2, <2>1, <2>3 DEF Negotiating, ModesAgree, ReadyCode, NAK, ASCII_C
    <3>2. Filling'
      BY <1>1, <1>2, <2>1, <2>2, <2>3, <3>1
         DEF Negotiating, Filling, Expected, ModesAgree, rxVars, Errors, MustKeep
    <3>3. QED
      BY <3>2 DEF Situation
  <2>4. CASE Head(bwd) # ReadyCode
    <3>1. ~MustKeep
      BY <1>2, <2>1, <2>4 DEF Negotiating, MustKeep, ReadyCode
    <3>2. Negotiating'
      BY <1>1, <1>2, <2>1, <2>2, <2>4, <3>1 DEF Negotiating, rxVars, Errors, MustKeep
    <3>3. QED
      BY <3>2 DEF Situation
  <2>5. QED
    BY <2>3, <2>4
<1>3. CASE Over
  <2>1. rxStatus # "MODEM_NO_ERRORS" /\ NoAck(bwd)
    BY <1>1, <1>3, OverFailed
  <2>2. NoAck(bwd')
    BY <1>1, <2>1, Numbers, StillNoAck
  <2>3. QED
    BY <1>1, <1>3, <2>1, <2>2, OverStays DEF Situation
<1>4. QED
  BY <1>1, <1>2, <1>3 DEF Situation, Filling, Flying, Answered, Ending, Alone

(* The packet goes out whole. *)
LEMMA Whole == TxInv /\ PacketUnderWay /\ fwd = txBuf /\ faults \in Nat => Arrives(0)
<1> SUFFICES ASSUME TxInv, PacketUnderWay, fwd = txBuf, faults \in Nat
             PROVE  Arrives(0)
  OBVIOUS
<1>1. /\ BodySize = BlockSize(txMode) + CheckSize(txMode)
      /\ BlockSize(txMode) \in Nat /\ CheckSize(txMode) \in {1, 2} /\ txBuf \in Seq(Byte)
  BY UnderWay
<1>2. Len(txBuf) \in Nat /\ Len(txBuf) = BodySize + 3
  BY <1>1 DEF BodySize, DATA
<1>3. Changed(0) = {}
  <2>1. \A i \in 1 .. BodySize : DATA - 0 + i = DATA + i
    BY <1>1 DEF DATA
  <2>2. QED
    BY <2>1 DEF Changed
<1>4. Len(fwd) + 0 = Len(txBuf) /\ DATA <= Len(fwd) + 0
  BY <1>1, <1>2 DEF DATA
<1>5. \A i \in 1 .. DATA - 0 : fwd[i] = txBuf[i + 0]
  <2>1. \A i \in 1 .. 3 - 0 : i + 0 = i
    OBVIOUS
  <2>2. QED
    BY <2>1 DEF DATA
<1>6. Cardinality(Changed(0)) = 0
  BY <1>3, FS_EmptySet
<1>7. QED
  BY <1>2, <1>3, <1>4, <1>5, <1>6 DEF Arrives, Intact

LEMMA WholeNext ==
    (TxInv /\ PacketUnderWay /\ fwd = txBuf /\ faults \in Nat)' => Arrives(0)'
  BY Whole, PTL

LEMMA SendStep ==
    ASSUME Background, Background', Situation, TxSend, UNCHANGED <<rxVars, faults>>
    PROVE  Situation'
<1>1. /\ txPc = "fill" /\ txPc' = "sent" /\ fwd' = fwd \o txBuf' /\ bwd' = bwd
      /\ UNCHANGED <<source, lastSent, blkNo, ackedTo>>
  BY DEF TxSend, TxFill
<1>2. TxInv /\ TxInv' /\ PacketUnderWay'
  BY FillInv DEF TxSend, Background
<1>3. CASE Filling
  <2>1. fwd' = txBuf'
    <3>1. fwd = << >> /\ txBuf' \in Seq(Byte)
      BY <1>2, <1>3 DEF Filling, TxInv, TxTypeOK
    <3>2. QED
      BY <1>1, <3>1
  <2>2. Arrives(0)'
    <3>1. faults' \in Nat
      BY Numbers
    <3>2. QED
      BY <1>2, <2>1, <3>1, WholeNext
  <2>3. (Expected \/ Stored)'
    <3>1. CASE Expected
      BY <1>1, <3>1 DEF Expected, rxVars
    <3>2. CASE Stored /\ lastSent = 0 /\ txBuf # << >>
      <4>1. txMode' = txMode
        BY <1>2, <3>2, SendsAgain DEF TxSend
      <4>2. QED
        BY <1>1, <3>2, <4>1 DEF Stored, rxVars
    <3>3. QED
      BY <1>3, <3>1, <3>2 DEF Filling
  <2>4. txMode' = "XMODEM" <=> txMode = "XMODEM"
    BY <1>2, TxModeFalls DEF TxNext, TxProgress, TxInv
  <2>5. Flying'
    BY <1>1, <1>2, <1>3, <2>2, <2>3, <2>4
       DEF Filling, Flying, ModesAgree, Errors, MustKeep, rxVars
  <2>6. QED
    BY <2>5 DEF Situation
<1>4. CASE Over
  <2>1. rxStatus # "MODEM_NO_ERRORS" /\ NoAck(bwd)
    BY <1>1, <1>4, OverFailed
  <2>2. QED
    BY <1>1, <1>4, <2>1, OverStays DEF Situation, NoAck
<1>5. QED
  BY <1>1, <1>3, <1>4 DEF Situation, Negotiating, Flying, Answered, Ending, Alone

LEMMA FlushStep ==
    ASSUME Background, Situation, TxFlush, UNCHANGED <<rxVars, faults>>
    PROVE  Situation'
<1>1. /\ txPc = "sent" /\ txPc' = "resp" /\ bwd' \in Flushed(bwd)
      /\ UNCHANGED DataVars /\ fwd' = fwd
  BY DEF TxFlush, DataVars
<1>2. CASE Flying
  <2>1. bwd \in Seq(Byte) /\ Len(bwd) \in {0, 1} /\ bwd = << >>
    BY <1>2, Numbers, EmptySeq DEF Flying
  <2>2. bwd' = << >>
    BY <1>1, <2>1, SingleByte
  <2>3. PacketUnderWay' /\ Arrives(0)'
    <3>1. PacketUnderWay /\ Arrives(0)
      BY <1>1, <1>2 DEF Flying
    <3>2. QED
      BY <1>1, <3>1, SameData
         DEF Arrives, Changed, Intact, BodySize, Errors, MustKeep, DataVars, rxVars
  <2>4. Flying'
    BY <1>1, <1>2, <2>2, <2>3
       DEF Flying, Expected, Stored, ModesAgree, Errors, MustKeep, DataVars, rxVars
  <2>5. QED
    BY <2>4 DEF Situation
<1>3. CASE Over
  <2>1. rxStatus # "MODEM_NO_ERRORS" /\ NoAck(bwd)
    BY <1>1, <1>3, OverFailed
  <2>2. NoAck(bwd')
    BY <1>1, <2>1, Numbers, StillNoAck
  <2>3. QED
    BY <1>1, <1>3, <2>1, <2>2, OverStays DEF Situation, DataVars
<1>4. QED
  BY <1>1, <1>2, <1>3 DEF Situation, Negotiating, Filling, Answered, Ending, Alone

(* An ACK is under way only for a packet that is stored. *)
LEMMA AckStep ==
    ASSUME Background, Situation, TxAck, UNCHANGED <<rxVars, faults>>
    PROVE  Situation'
<1>1. /\ txPc = "resp" /\ bwd # << >> /\ Head(bwd) = ACK /\ bwd' = Tail(bwd)
      /\ ackedTo' = ackedTo + BlockSize(txMode) /\ blkNo' = (blkNo + 1) % NumBlockNos
      /\ UNCHANGED <<txMode, source, txBuf, fwd>>
  BY DEF TxAck, TxResponse, TxReads, BlkAfter
<1>2. /\ txPc' \in {"fill", "eot"} /\ (txPc' = "eot" => AllAcked')
  BY AckInv DEF Background
<1>3. Answered /\ bwd = <<ACK>> /\ Stored
  <2>1. bwd = <<NAK>> => Head(bwd) = NAK
    OBVIOUS
  <2>2. ~Over
    BY <1>1, OverFailed, Numbers, StillNoAck
  <2>3. Answered
    BY <1>1, <2>2 DEF Situation, Negotiating, Filling, Flying, Ending, Alone
  <2>4. QED
    BY <1>1, <2>1, <2>3 DEF Answered, NAK, ACK
<1>4. bwd' = << >>
  BY <1>1, <1>3
<1>5. Expected' /\ Len(sink') = ackedTo'
  BY <1>1, <1>3 DEF Stored, Expected, rxVars
<1>6. CASE txPc' = "fill"
  <2>1. Filling'
    BY <1>1, <1>3, <1>4, <1>5, <1>6 DEF Answered, Filling, ModesAgree, Errors, MustKeep, rxVars
  <2>2. QED
    BY <2>1 DEF Situation
<1>7. CASE txPc' = "eot"
  <2>1. Ending'
    BY <1>1, <1>2, <1>3, <1>4, <1>5, <1>7 DEF Answered, Ending, rxVars
  <2>2. QED
    BY <2>1 DEF Situation
<1>8. QED
  BY <1>2, <1>6, <1>7

LEMMA NakStep ==
    ASSUME Background, Situation, TxNak, UNCHANGED <<rxVars, faults>>
    PROVE  Situation'
<1>1. /\ txPc = "resp" /\ txPc' = "fill" /\ bwd # << >> /\ Head(bwd) = NAK /\ bwd' = Tail(bwd)
      /\ lastSent' = 0
      /\ UNCHANGED <<txMode, source, blkNo, txBuf, ackedTo, fwd>>
  BY DEF TxNak, TxResponse, TxReads, BlkAfter, SentSize, EofAfter, ACK, NAK
<1>2. CASE Answered
  <2>1. bwd = <<NAK>> /\ bwd' = << >>
    <3>1. bwd = <<ACK>> => Head(bwd) = ACK
      OBVIOUS
    <3>2. bwd = <<NAK>>
      BY <1>1, <1>2, <3>1 DEF Answered, NAK, ACK
    <3>3. QED
      BY <1>1, <3>2
  <2>2. txBuf # << >>
    <3>1. PacketUnderWay /\ TxInv
      BY <1>2 DEF Answered, Background
    <3>2. /\ Len(txBuf) - 3 = BlockSize(txMode) + CheckSize(txMode) /\ txBuf \in Seq(Byte)
          /\ BlockSize(txMode) \in Nat /\ CheckSize(txMode) \in {1, 2}
      BY <3>1, UnderWay DEF BodySize, DATA
    <3>3. Len(txBuf) \in Nat
      BY <3>2
    <3>4. Len(txBuf) # 0
      BY <3>2, <3>3
    <3>5. QED
      BY <3>2, <3>4, EmptySeq
  <2>3. Filling'
    BY <1>1, <1>2, <2>1, <2>2
       DEF Answered, Filling, Expected, Stored, ModesAgree, Errors, MustKeep, rxVars
  <2>4. QED
    BY <2>3 DEF Situation
<1>3. CASE Over
  <2>1. rxStatus # "MODEM_NO_ERRORS" /\ NoAck(bwd)
    BY <1>1, <1>3, OverFailed
  <2>2. NoAck(bwd')
    BY <1>1, <2>1, Numbers, StillNoAck
  <2>3. QED
    BY <1>1, <1>3, <2>1, <2>2, OverStays DEF Situation
<1>4. CASE Flying
  BY <1>1, <1>4 DEF Flying
<1>5. QED
  BY <1>1, <1>2, <1>3, <1>4 DEF Situation, Negotiating, Filling, Ending, Alone

LEMMA CancelStep ==
    ASSUME Background, Situation, TxCancelled, UNCHANGED <<rxVars, faults>>
    PROVE  Situation'
<1>1. /\ txPc = "resp" /\ txPc' = "done" /\ bwd # << >> /\ Head(bwd) \notin {ACK, NAK}
      /\ UNCHANGED <<source, ackedTo>>
  BY DEF TxCancelled, TxReads, TxReturn
<1>2. Over
  <2>1. Head(<<ACK>>) = ACK /\ Head(<<NAK>>) = NAK
    OBVIOUS
  <2>2. ~Answered
    BY <1>1, <2>1 DEF Answered
  <2>3. QED
    BY <1>1, <2>2 DEF Situation, Negotiating, Filling, Flying, Ending, Alone
<1>3. QED
  BY <1>1, <1>2, OverStays DEF Situation

LEMMA SendEotStep ==
    ASSUME Background, Situation, TxSendEot, UNCHANGED <<rxVars, faults>>
    PROVE  Situation'
<1>1. /\ txPc = "eot" /\ txPc' = "fin" /\ fwd' = Append(fwd, EOT)
      /\ UNCHANGED <<DataVars, bwd>>
  BY DEF TxSendEot, DataVars
<1>2. ~Over
  BY <1>1, OverFailed
<1>3. Ending
  BY <1>1, <1>2 DEF Situation, Negotiating, Filling, Flying, Answered, Alone
<1>4. fwd' = <<EOT>>
  BY <1>1, <1>3 DEF Ending
<1>5. Ending'
  BY <1>1, <1>3, <1>4, SameData DEF Ending, DataVars, rxVars
<1>6. QED
  BY <1>5 DEF Situation

(* Only an ACK of a receiver that has succeeded ends the transfer well. *)
LEMMA FinishStep ==
    ASSUME Background, Situation, TxFinish, UNCHANGED <<rxVars, faults>>
    PROVE  Situation' /\ TxSuccessMeansDelivered'
<1>1. /\ txPc = "fin" /\ bwd # << >> /\ UNCHANGED <<source, ackedTo>>
      /\ Head(bwd) = ACK => txPc' = "done"
  BY DEF TxFinish, TxReads, TxReturn, ACK, CAN
<1>2. Over
  BY <1>1 DEF Situation, Negotiating, Filling, Flying, Answered, Ending, Alone
<1>3. rxPc = "done" /\ rxStatus = "MODEM_NO_ERRORS" /\ bwd = <<ACK>> /\ AllStored
  BY <1>1, <1>2 DEF Over
<1>4. txPc' = "done"
  BY <1>1, <1>3
<1>5. Over'
  BY <1>1, <1>2, <1>4, OverStays
<1>6. QED
  BY <1>1, <1>3, <1>5
     DEF Situation, TxSuccessMeansDelivered, RxSucceeded, AllStored, rxVars

LEMMA ChangedFinite ==
    ASSUME TxInv, PacketUnderWay, NEW k \in {0, 1}
    PROVE  IsFiniteSet(Changed(k)) /\ Cardinality(Changed(k)) \in Nat
<1>1. BodySize \in Nat
  BY UnderWay
<1>2. IsFiniteSet(1 .. BodySize)
  BY <1>1, FS_Interval
<1>3. Changed(k) \in SUBSET (1 .. BodySize)
  BY DEF Changed
<1>4. QED
  BY <1>2, <1>3, FS_Subset, FS_CardinalityType

LEMMA ErrorsGrow ==
    ASSUME Background, UNCHANGED <<rxMode, errorCount>>,
           txMode' = "XMODEM" <=> txMode = "XMODEM", faults' \in {faults, faults + 1}
    PROVE  /\ Errors(faults) => Errors(faults)'
           /\ Errors(faults + 1) => Errors(faults + 1)'
<1>1. faults \in Nat /\ errorCount \in Nat /\ faults <= faults' /\ faults' \in Nat
  BY Numbers
<1>2. MustKeep' <=> MustKeep
  BY DEF MustKeep
<1>3. errorCount <= faults => errorCount <= faults'
  BY <1>1
<1>4. errorCount <= faults + 1 => errorCount <= faults' + 1
  <2>1. \A a, b, c \in Nat : a <= b /\ c <= a + 1 => c <= b + 1
    OBVIOUS
  <2>2. QED
    BY <1>1, <2>1, Zenon
<1>5. QED
  BY <1>2, <1>3, <1>4 DEF Errors

(* A transmitter that gives up leaves what it has sent on the line. *)
LEMMA GiveUpStep ==
    ASSUME Background, Situation, TxChannelError \/ TxTimeout \/ TxHwError,
           UNCHANGED rxVars, faults' \in {faults, faults + 1}
    PROVE  Situation' /\ txStatus' # "MODEM_NO_ERRORS"
<1>1. /\ txPc \in {"fill", "ready", "resp", "fin"} /\ txPc' = "done"
      /\ txStatus' # "MODEM_NO_ERRORS"
      /\ UNCHANGED <<txMode, source, blkNo, txBuf, ackedTo, eofDetected, fwd, bwd>>
  BY DEF TxChannelError, TxTimeout, TxHwError, TxReadFails, TxReturn, TxReading,
         SerialToModemError, lines
<1>2. faults \in Nat /\ errorCount \in Nat /\ faults <= faults'
  BY Numbers
<1>3. CASE Negotiating
  <2>1. ackedTo = 0 /\ sink = << >> /\ Len(sink) = 0
    BY <1>1, <1>3, EmptySeq DEF Negotiating, Background, TxInv, NothingSent
  <2>2. Alone'
    BY <1>1, <1>3, <2>1, Numbers DEF Negotiating, Alone, rxVars
  <2>3. QED
    BY <1>1, <2>2 DEF Situation
<1>4. CASE Filling \/ Answered
  <2>1. Expected \/ Stored
    BY <1>4 DEF Filling, Answered
  <2>2. ackedTo <= Len(sink) /\ Len(sink) <= ackedTo + BlockSize(txMode)
    BY <2>1, Numbers DEF Expected, Stored
  <2>3. Alone'
    BY <1>1, <1>4, <2>2 DEF Filling, Answered, Alone, rxVars
  <2>4. QED
    BY <1>1, <2>3 DEF Situation
<1>5. CASE Flying
  <2>1. txPc = "resp" /\ UNCHANGED srcPos
    BY <1>1, <1>5 DEF Flying, TxChannelError, TxTimeout, TxHwError, TxReadFails
  <2>2. PacketUnderWay'
    BY <1>1, <1>5, <2>1 DEF Flying, PacketUnderWay, Left
  <2>3. /\ Errors(faults) => Errors(faults)'
        /\ Errors(faults + 1) => Errors(faults + 1)'
    BY <1>1, ErrorsGrow DEF rxVars
  <2>4. ASSUME NEW k \in {0, 1}, Arrives(k)
        PROVE  Arrives(k)'
    <3>1. BodySize' = BodySize /\ Changed(k)' = Changed(k) /\ (Intact(k)' <=> Intact(k))
      BY <1>1 DEF Intact, Changed, BodySize
    <3>2. Cardinality(Changed(k)) <= faults => Cardinality(Changed(k)) <= faults'
      <4>1. TxInv /\ PacketUnderWay
        BY <1>5 DEF Flying, Background
      <4>2. Cardinality(Changed(k)) \in Nat
        BY <4>1, ChangedFinite
      <4>3. QED
        BY <1>2, <4>2
    <3>3. QED
      BY <1>1, <2>3, <2>4, <3>1, <3>2 DEF Arrives
  <2>5. ModesAgree' /\ (Expected \/ Stored)'
    BY <1>1, <1>5 DEF Flying, ModesAgree, Expected, Stored, rxVars
  <2>6. Flying'
    BY <1>1, <1>5, <2>1, <2>2, <2>3, <2>4, <2>5 DEF Flying, rxVars
  <2>7. QED
    BY <1>1, <2>6 DEF Situation
<1>6. CASE Ending
  <2>1. Ending'
    BY <1>1, <1>6 DEF Ending, AllAcked, rxVars
  <2>2. QED
    BY <1>1, <2>1 DEF Situation
<1>7. CASE Over
  BY <1>1, <1>7, OverStays DEF Situation
<1>8. QED
  BY <1>1, <1>3, <1>4, <1>5, <1>6, <1>7 DEF Situation, Alone

(* All steps of the transmitter. *)
LEMMA TxStepKeeps ==
    ASSUME SessionInv, Background', TxStep \/ TxGivesUp \/ EndFails
    PROVE  SessionInv'
<1>1. Background /\ Situation
  BY DEF SessionInv
<1>2. /\ UNCHANGED rxVars /\ TxNext
      /\ TxStart \/ TxProgress \/ TxChannelError \/ TxTimeout \/ TxHwError
  BY DEF TxStep, TxGivesUp, EndFails, Fault, TxNext
<1>3. CASE TxChannelError \/ TxTimeout \/ TxHwError
  <2>1. faults' \in {faults, faults + 1}
    BY DEF TxStep, TxGivesUp, EndFails, Fault
  <2>2. QED
    BY <1>1, <1>2, <1>3, <2>1, GiveUpStep
       DEF SessionInv, TxSuccessMeansDelivered, TxSucceeded, SinkIsPrefix, rxVars,
           TxChannelError, TxTimeout, TxHwError, TxReadFails
<1>4. CASE ~(TxChannelError \/ TxTimeout \/ TxHwError)
  <2>1. UNCHANGED faults
    BY <1>4 DEF TxStep, TxGivesUp, EndFails
  <2>2. Situation'
    BY <1>1, <1>2, <1>4, <2>1, StartStep, ReadyStep, SendStep, FlushStep, AckStep, NakStep,
       CancelStep, SendEotStep, FinishStep DEF TxProgress
  <2>3. SinkIsPrefix'
    BY <1>1, <1>2, TxModeFalls DEF SessionInv, SinkIsPrefix, rxVars, Background, TxInv
  <2>4. TxSuccessMeansDelivered'
    <3>1. CASE TxFinish
      BY <1>1, <1>2, <2>1, <3>1, FinishStep
    <3>2. CASE TxCancelled
      BY <3>2 DEF TxCancelled, TxReturn, TxSuccessMeansDelivered, TxSucceeded
    <3>3. CASE TxStart \/ TxReady \/ TxSend \/ TxFlush \/ TxSendEot
      BY <3>3 DEF TxStart, TxReady, TxSend, TxFill, TxFlush, TxSendEot, TxSuccessMeansDelivered,
             TxSucceeded
    <3>4. CASE TxAck \/ TxNak
      BY <3>4 DEF TxAck, TxNak, TxResponse, TxSuccessMeansDelivered, TxSucceeded
    <3>5. QED
      BY <1>2, <1>4, <3>1, <3>2, <3>3, <3>4 DEF TxProgress
  <2>5. QED
    BY <2>2, <2>3, <2>4 DEF SessionInv
<1>5. QED
  BY <1>3, <1>4

-----------------------------------------------------------------------------
(***************************************************************************)
(* Steps of the receiver.                                                  *)
(***************************************************************************)

(* Reading for another packet, or giving up, without a fallback. *)
GaveUp(out) == /\ rxPc' = "done" /\ rxStatus' # "MODEM_NO_ERRORS"
               /\ rxMode' = rxMode /\ bwd' = Append(bwd \o out, CAN)
Waits(n, out, code) ==
    /\ rxPc' = "wait" /\ rxMode' = rxMode /\ rxCode' = code /\ errorCount' = n
    /\ bwd' = bwd \o out

LEMMA Again ==
    ASSUME NEW n \in Nat, rxMode = "XMODEM_CRC" => n <= FallbackErrors,
           NEW out, NEW code, ReadAgain(n, out, code)
    PROVE  (GaveUp(out) /\ n > MaxErrors) \/ Waits(n, out, code)
<1>1. ~(rxMode = "XMODEM_CRC" /\ n > FallbackErrors)
  BY RxAssumption
<1>2. QED
  BY <1>1 DEF ReadAgain, RxReturn, TooMany, GaveUp, Waits

(* The errors of the negotiation and of all faults are too few for it. *)
LEMMA NoFallback ==
    ASSUME Background, NEW n \in Nat, MustKeep => n <= faults + 1,
           txMode = "XMODEM" => rxMode # "XMODEM_CRC"
    PROVE  rxMode = "XMODEM_CRC" => n <= FallbackErrors
<1>1. rxMode = "XMODEM_CRC" => MustKeep /\ MaxFaults < FallbackErrors
  BY DEF MustKeep, Background
<1>2. faults \in 0 .. MaxFaults /\ MaxFaults \in Nat /\ FallbackErrors \in Nat
  BY Numbers DEF Background
<1>3. QED
  BY <1>1, <1>2

LEMMA Codes == \A b \in {ACK, NAK, ASCII_C} :
                  /\ <<b>> \in Seq(Byte) /\ << >> \o <<b>> = <<b>>
                  /\ b # ACK => NoAck(Append(<< >> \o <<b>>, CAN))
<1>1. ASSUME NEW b \in {ACK, NAK, ASCII_C}
      PROVE  /\ <<b>> \in Seq(Byte) /\ << >> \o <<b>> = <<b>>
             /\ b # ACK => NoAck(Append(<< >> \o <<b>>, CAN))
  <2>1. <<b>> \in Seq(Byte)
    BY DEF ACK, NAK, ASCII_C, Byte
  <2>2. << >> \o <<b>> = <<b>>
    BY <2>1, ConcatEmptySeq
  <2>3. ASSUME b # ACK PROVE NoAck(Append(<<b>>, CAN))
    <3>1. CAN # ACK
      BY DEF CAN, ACK
    <3>2. Len(<<b>>) = 1 /\ <<b>>[1] = b
      OBVIOUS
    <3>3. Len(Append(<<b>>, CAN)) = 2
      BY <2>1, <3>2, AppendProperties, CodesAreBytes
    <3>4. ASSUME NEW i \in 1 .. 2 PROVE Append(<<b>>, CAN)[i] # ACK
      <4>1. i = 1 \/ i = 2
        OBVIOUS
      <4>2. Append(<<b>>, CAN)[1] = b /\ Append(<<b>>, CAN)[2] = CAN
        BY <2>1, <3>2, AppendProperties, CodesAreBytes
      <4>3. QED
        BY <2>3, <3>1, <4>1, <4>2
    <3>5. QED
      BY <3>3, <3>4 DEF NoAck
  <2>4. QED
    BY <2>1, <2>2, <2>3
<1>2. QED
  BY <1>1

(* The receiver is through with a packet and answers it. *)
LEMMA AnswerStep ==
    ASSUME Background, UNCHANGED <<txVars, faults>>,
           PacketUnderWay, txPc \in {"resp", "done"}, bwd = << >>, fwd' = << >>, ModesAgree,
           NEW n \in Nat, MustKeep => n <= faults + 1,
           NEW b \in {ACK, NAK}, ReadAgain(n, <<b>>, NAK), (Expected \/ Stored)',
           b = ACK => Stored' /\ n = 0
    PROVE  Situation'
<1>1. rxMode = "XMODEM_CRC" => n <= FallbackErrors
  BY NoFallback DEF ModesAgree
<1>2. (GaveUp(<<b>>) /\ n > MaxErrors) \/ Waits(n, <<b>>, NAK)
  BY <1>1, Again
<1>3. /\ << >> \o <<b>> = <<b>>
      /\ b # ACK => NoAck(Append(<< >> \o <<b>>, CAN))
  BY Codes
<1>4. Len(sink') \in Nat \/ ~(Expected \/ Stored)'
  BY Numbers DEF Expected, Stored, txVars
<1>5. ackedTo' <= Len(sink') /\ Len(sink') <= ackedTo' + BlockSize(txMode')
  BY <1>4, Numbers DEF Expected, Stored, txVars
<1>6. PacketUnderWay'
  BY SameData DEF txVars, DataVars
<1>7. CASE Waits(n, <<b>>, NAK) /\ txPc = "resp"
  <2>1. Errors(faults + 1)'
    BY <1>7, Numbers DEF Waits, Errors, MustKeep, txVars
  <2>2. Answered'
    BY <1>3, <1>6, <1>7, <2>1 DEF Waits, Answered, ModesAgree, txVars
  <2>3. QED
    BY <2>2 DEF Situation
<1>8. CASE Waits(n, <<b>>, NAK) /\ txPc = "done"
  <2>1. Alone'
    BY <1>5, <1>8 DEF Waits, Alone, txVars
  <2>2. QED
    BY <2>1 DEF Situation
<1>9. CASE GaveUp(<<b>>) /\ n > MaxErrors
  <2>1. b # ACK
    BY <1>9, RxAssumption
  <2>2. NoAck(bwd')
    BY <1>3, <1>9, <2>1 DEF GaveUp
  <2>3. Over'
    BY <1>5, <1>9, <2>2 DEF GaveUp, Over, NoAck, txVars
  <2>4. QED
    BY <2>3 DEF Situation
<1>10. QED
  BY <1>2, <1>7, <1>8, <1>9

(* The first code sent. *)
LEMMA RxStartStep ==
    ASSUME Background, Situation, RxStart, UNCHANGED <<txVars, faults>>
    PROVE  Situation'
<1>1. /\ rxPc = "idle" /\ ReadAgain(0, <<rxCode>>, rxCode)
      /\ UNCHANGED <<expBlk, sink, fwd>>
  BY DEF RxStart, FirstAttempt
<1>2. Waits(0, <<rxCode>>, rxCode)
  <2>1. rxMode = "XMODEM_CRC" => 0 <= FallbackErrors
    BY RxAssumption
  <2>2. ~(0 > MaxErrors)
    BY RxAssumption
  <2>3. QED
    BY <1>1, <2>1, <2>2, Again
<1>3. CASE Negotiating
  <2>1. bwd = << >> /\ rxCode = FirstCode(rxMode)
    BY <1>1, <1>3 DEF Negotiating
  <2>2. bwd' = <<rxCode>> /\ rxCode \in {NAK, ASCII_C} /\ (rxCode = NAK => rxMode = "XMODEM")
    <3>1. rxCode \in {NAK, ASCII_C} /\ (rxCode = NAK => rxMode = "XMODEM")
      BY <2>1 DEF FirstCode, NAK, ASCII_C
    <3>2. QED
      BY <1>2, <2>1, <3>1, Codes DEF Waits
  <2>3. <<rxCode>> = <<NAK>> => rxCode = NAK
    OBVIOUS
  <2>4. Errors(faults)' /\ Errors(faults + 1)'
    BY <1>2, Numbers DEF Waits, Errors
  <2>5. Negotiating'
    BY <1>1, <1>2, <1>3, <2>1, <2>2, <2>3, <2>4 DEF Negotiating, Waits, txVars
  <2>6. QED
    BY <2>5 DEF Situation
<1>4. CASE Alone
  <2>1. Alone'
    BY <1>1, <1>2, <1>4 DEF Alone, Waits, txVars
  <2>2. QED
    BY <2>1 DEF Situation
<1>5. QED
  BY <1>1, <1>3, <1>4 DEF Situation, Filling, Flying, Answered, Ending, Over

(* A packet that is read begins with the header that was sent, and is      *)
(* taken for a packet of its size.                                         *)
LEMMA HeaderRead ==
    ASSUME Background, Flying, rxPc = "wait"
    PROVE  /\ fwd # << >> /\ Head(fwd) = StartChar(txMode) /\ Head(fwd) \in StartChars
           /\ fwd \in Seq(Byte) /\ Len(fwd) \in Nat /\ 3 <= Len(fwd)
<1>1. TxInv /\ PacketUnderWay /\ Arrives(0)
  BY DEF Background, Flying
<1>2. txBuf[1] = StartChar(txMode)
  BY <1>1, UnderWay
<1>3. fwd \in Seq(Byte) /\ Len(fwd) \in Nat /\ 3 <= Len(fwd)
  <2>1. fwd \in Seq(Byte)
    BY Numbers
  <2>2. Len(fwd) \in Nat
    BY <2>1
  <2>3. QED
    BY <1>1, <2>1, <2>2 DEF Arrives, DATA
<1>4. fwd[1] = txBuf[1]
  BY <1>1 DEF Arrives, DATA
<1>5. fwd # << >> /\ Head(fwd) = fwd[1]
  BY <1>3, EmptySeq
<1>6. StartChar(txMode) \in StartChars
  BY DEF StartChar, StartChars, Background
<1>7. QED
  BY <1>2, <1>3, <1>4, <1>5, <1>6

LEMMA StartCharStep ==
    ASSUME Background, Situation, RxStartChar, UNCHANGED <<txVars, faults>>,
           txPc # "sent"
    PROVE  Situation'
<1>1. /\ rxPc = "wait" /\ rxPc' = "rest" /\ fwd # << >> /\ Head(fwd) \in StartChars
      /\ fwd' = Tail(fwd) /\ using128' = (rxMode = "XMODEM_1K" /\ Head(fwd) = SOH)
      /\ UNCHANGED <<rxMode, errorCount, expBlk, sink, bwd>>
  BY DEF RxStartChar
<1>2. ~Ending
  BY <1>1 DEF Ending, StartChars, EOT, SOH, STX
<1>3. Flying
  BY <1>1, <1>2 DEF Situation, Negotiating, Filling, Answered, Alone, Over
<1>4. /\ Head(fwd) = StartChar(txMode) /\ fwd \in Seq(Byte) /\ Len(fwd) \in Nat /\ 3 <= Len(fwd)
  BY <1>1, <1>3, HeaderRead
<1>5. using128' = (rxMode = "XMODEM_1K" /\ txMode # "XMODEM_1K")
  BY <1>1, <1>4 DEF StartChar, SOH, STX
<1>6. Len(fwd') = Len(fwd) - 1 /\ \A i \in 1 .. Len(fwd) - 1 : fwd'[i] = fwd[i + 1]
  BY <1>1, <1>4, HeadTailProperties
<1>7. Arrives(0) /\ TxInv /\ PacketUnderWay
  BY <1>1, <1>3 DEF Flying, Background
<1>8. /\ BodySize \in Nat /\ Len(txBuf) \in Nat /\ Len(txBuf) = BodySize + 3
  <2>1. /\ BodySize = BlockSize(txMode) + CheckSize(txMode)
        /\ BlockSize(txMode) \in Nat /\ CheckSize(txMode) \in {1, 2} /\ txBuf \in Seq(Byte)
    BY <1>7, UnderWay
  <2>2. Len(txBuf) \in Nat
    BY <2>1
  <2>3. QED
    BY <2>1, <2>2 DEF BodySize, DATA
<1>9. Len(fwd') + 1 = Len(fwd) + 0
  BY <1>4, <1>6
<1>10. ASSUME Len(fwd) + 0 = Len(txBuf)
       PROVE  /\ Changed(1)' = Changed(0)
              /\ \A i \in 1 .. BodySize : fwd'[DATA - 1 + i] = fwd[DATA - 0 + i]
  <2>1. \A i \in 1 .. BodySize : 2 + i \in 1 .. Len(fwd) - 1 /\ 2 + i + 1 = 3 + i
    BY <1>4, <1>8, <1>10
  <2>2. \A i \in 1 .. BodySize : fwd'[2 + i] = fwd[3 + i]
    BY <1>6, <2>1
  <2>3. \A i \in 1 .. BodySize : DATA - 1 + i = 2 + i /\ DATA - 0 + i = 3 + i
    BY <1>8 DEF DATA
  <2>4. \A i \in 1 .. BodySize : fwd'[DATA - 1 + i] = fwd[DATA - 0 + i]
    BY <2>2, <2>3
  <2>5. txBuf' = txBuf /\ BodySize' = BodySize
    BY DEF txVars, BodySize
  <2>6. QED
    BY <2>4, <2>5 DEF Changed
<1>11. Arrives(1)'
  <2>1. txBuf' = txBuf /\ faults' = faults
    BY DEF txVars
  <2>2. \A i \in 1 .. DATA - 1 : fwd'[i] = txBuf[i + 1]
    <3>1. fwd'[1] = fwd[2] /\ fwd'[2] = fwd[3] /\ fwd[2] = txBuf[2] /\ fwd[3] = txBuf[3]
      <4>1. \A i \in 1 .. 3 : fwd[i] = txBuf[i + 0]
        BY <1>7 DEF Arrives, DATA
      <4>2. QED
        BY <1>4, <1>6, <4>1
    <3>2. \A i \in 1 .. 3 - 1 : i = 1 \/ i = 2
      OBVIOUS
    <3>3. QED
      BY <3>1, <3>2 DEF DATA
  <2>3. /\ DATA <= Len(fwd') + 1 /\ Len(fwd') + 1 <= Len(txBuf)
    BY <1>7, <1>9 DEF Arrives
  <2>4. ASSUME Len(fwd') + 1 = Len(txBuf)
        PROVE  /\ Changed(1)' = {} \/ "change" \in FaultKinds
               /\ Cardinality(Changed(1)') <= faults
               /\ \A i \in Changed(1)' : fwd'[DATA - 1 + i] \in Noise
    <3>1. Changed(0) \subseteq 1 .. BodySize
      BY DEF Changed
    <3>2. QED
      BY <1>7, <1>9, <1>10, <2>4, <3>1 DEF Arrives
  <2>5. Intact(0) => Intact(1)'
    BY <1>9, <1>10, <2>1 DEF Intact
  <2>6. Errors(faults) => Errors(faults)'
    BY <1>1, <2>1 DEF Errors, MustKeep, txVars
  <2>7. ~Intact(1)' => Errors(faults)'
    BY <1>7, <2>5, <2>6 DEF Arrives
  <2>8. QED
    BY <2>1, <2>2, <2>3, <2>4, <2>7 DEF Arrives
<1>12. PacketUnderWay'
  BY <1>3, SameData DEF Flying, txVars, DataVars
<1>13. Flying'
  BY <1>1, <1>3, <1>5, <1>11, <1>12
     DEF Flying, Expected, Stored, ModesAgree, Errors, MustKeep, txVars
<1>14. QED
  BY <1>13 DEF Situation

LEMMA EotStep ==
    ASSUME Background, Situation, RxEot, UNCHANGED <<txVars, faults>>
    PROVE  Situation'
<1>1. /\ rxPc = "wait" /\ rxPc' = "done" /\ rxStatus' = "MODEM_NO_ERRORS"
      /\ fwd # << >> /\ Head(fwd) = EOT
      /\ bwd' = Append(bwd, ACK) /\ sink' = sink
  BY DEF RxEot, RxReturn
<1>2. ~Flying
  BY <1>1, HeaderRead DEF StartChar, EOT, SOH, STX
<1>3. Ending
  BY <1>1, <1>2 DEF Situation, Negotiating, Filling, Answered, Alone, Over
<1>4. txPc \in {"fin", "done"} /\ bwd' = <<ACK>>
  BY <1>1, <1>3 DEF Ending
<1>5. ackedTo <= Len(sink) /\ AllStored
  BY <1>3, Numbers DEF Ending, AllAcked, AllStored
<1>6. Over'
  BY <1>1, <1>4, <1>5 DEF Over, AllStored, txVars
<1>7. QED
  BY <1>6 DEF Situation

LEMMA NoJunk == ASSUME Background, Situation PROVE ~RxJunk
<1>1. SUFFICES ASSUME rxPc = "wait", fwd # << >>, Head(fwd) \notin StartChars \cup {EOT}
               PROVE  FALSE
  BY DEF RxJunk
<1>2. ~Flying
  BY <1>1, HeaderRead
<1>3. ~Ending
  <2>1. fwd = <<EOT>> => Head(fwd) = EOT
    OBVIOUS
  <2>2. QED
    BY <1>1, <2>1 DEF Ending
<1>4. QED
  BY <1>1, <1>2, <1>3 DEF Situation, Negotiating, Filling, Answered, Alone, Over

(* The packet of which the rest is read. *)
LEMMA RestFacts ==
    ASSUME Background, Situation, rxPc = "rest"
    PROVE  /\ Resting /\ Flying /\ PacketUnderWay /\ (Expected \/ Stored) /\ bwd = << >>
           /\ txPc # "sent" => txPc \in {"resp", "done"}
           /\ Errors(faults + 1) /\ ModesAgree
<1>1. Flying
  BY DEF Situation, Negotiating, Filling, Answered, Ending, Alone, Over
<1>2. QED
  BY <1>1 DEF Flying, Resting

(* It is in sequence exactly if it is the expected one, *)
LEMMA InSequence ==
    ASSUME Background, Situation, TakeRest, ~OutOfSequence
    PROVE  Expected /\ ~Stored /\ RestBlk = blkNo /\ expBlk = blkNo
<1>1. Resting /\ (Expected \/ Stored)
  BY RestFacts DEF TakeRest
<1>2. RestBlk = blkNo /\ RestComp = Complement(blkNo)
  BY <1>1, RestParts DEF TakeRest
<1>3. blkNo \in 0 .. NumBlockNos - 1 /\ expBlk \in 0 .. NumBlockNos - 1 /\ NumBlockNos \in 2 .. 256
  BY LengthAssumption, Numbers DEF Background, RxInv, RxTypeOK
<1>4. expBlk = blkNo
  <2>1. CASE RestBlk = expBlk
    BY <1>2, <2>1
  <2>2. CASE RestComp = Complement(expBlk)
    BY <1>2, <1>3, <2>2 DEF Complement
  <2>3. QED
    BY <2>1, <2>2 DEF OutOfSequence
<1>5. ~Stored
  <2>1. (blkNo + 1) % NumBlockNos # blkNo
    BY <1>3
  <2>2. QED
    BY <1>4, <2>1 DEF Stored
<1>6. QED
  BY <1>1, <1>2, <1>4, <1>5

(* and otherwise one that is stored already. *)
LEMMA MismatchStep ==
    ASSUME Background, Situation, RxMismatch, UNCHANGED <<txVars, faults>>, txPc # "sent"
    PROVE  Situation'
<1>1. /\ rxPc = "rest" /\ rxPc' = "done" /\ rxStatus' = "PACKET_MISMATCH"
      /\ bwd' = Append(bwd, CAN) /\ sink' = sink
  BY DEF RxMismatch, RxReturn, TakeRest
<1>2. bwd = << >> /\ (Expected \/ Stored) /\ txPc \in {"resp", "done"}
  BY <1>1, RestFacts
<1>3. ackedTo <= Len(sink)
  BY <1>2, Numbers DEF Expected, Stored
<1>4. NoAck(bwd')
  <2>1. bwd' = <<CAN>> /\ Len(<<CAN>>) = 1 /\ <<CAN>>[1] = CAN
    BY <1>1, <1>2
  <2>2. QED
    BY <2>1 DEF NoAck, CAN, ACK
<1>5. Over'
  BY <1>1, <1>2, <1>3, <1>4 DEF Over, NoAck, txVars
<1>6. QED
  BY <1>5 DEF Situation

LEMMA BadCheckStep ==
    ASSUME FairLine, Background, Situation, RxBadCheck, UNCHANGED <<txVars, faults>>,
           txPc # "sent"
    PROVE  Situation'
<1>1. /\ TakeRest /\ ~CheckGood /\ rxPc = "rest" /\ Len(fwd) >= RestSize
      /\ fwd' = Without(fwd, RestSize)
      /\ ReadAgain(errorCount + 1, <<NAK>>, NAK) /\ UNCHANGED <<expBlk, sink>>
  BY DEF RxBadCheck, TakeRest, NextCode
<1>2. /\ Resting /\ PacketUnderWay /\ (Expected \/ Stored) /\ bwd = << >> /\ ModesAgree
      /\ txPc \in {"resp", "done"}
  BY <1>1, RestFacts
<1>3. fwd' = << >>
  BY <1>1, <1>2, RestParts
<1>4. MustKeep => errorCount + 1 <= faults + 1
  <2>1. Changed(1) # {}
    BY <1>1, <1>2, RestIsPayload
  <2>2. Errors(faults)
    BY <1>2, <2>1 DEF Resting, Arrives, Intact
  <2>3. QED
    BY <2>2, Numbers DEF Errors
<1>5. (Expected \/ Stored)'
  BY <1>1, <1>2 DEF Expected, Stored, txVars
<1>6. errorCount + 1 \in Nat /\ NAK \in {ACK, NAK} /\ NAK # ACK
  BY Numbers DEF NAK, ACK
<1>7. QED
  BY <1>1, <1>2, <1>3, <1>4, <1>5, <1>6, AnswerStep

(* A good packet has the payload that follows what is stored. *)
LEMMA GoodIsNext ==
    ASSUME FairLine, Background, Situation, SinkIsPrefix, GoodPacket
    PROVE  /\ Expected /\ PacketUnderWay /\ ModesAgree /\ bwd = << >> /\ fwd' = << >>
           /\ RestData = Payload /\ DataSize = BlockSize(txMode)
           /\ expBlk' = (blkNo + 1) % NumBlockNos
           /\ \A k \in 0 .. DataSize :
                  /\ sink \o SubSeq(RestData, 1, k) = Block(source, 0, Len(sink) + k)
                  /\ Len(sink \o SubSeq(RestData, 1, k)) = Len(sink) + k
           /\ sink \o RestData = Block(source, 0, Len(sink) + DataSize)
           /\ Len(sink \o RestData) = Len(sink) + DataSize
<1>1. /\ TakeRest /\ ~OutOfSequence /\ CheckGood /\ rxPc = "rest" /\ Len(fwd) >= RestSize
      /\ fwd' = Without(fwd, RestSize) /\ expBlk' = (expBlk + 1) % NumBlockNos
  BY DEF GoodPacket, TakeRest
<1>2. Resting /\ PacketUnderWay /\ bwd = << >> /\ ModesAgree
  BY <1>1, RestFacts
<1>3. Expected /\ expBlk = blkNo
  BY <1>1, InSequence
<1>4. RestData = Payload /\ fwd' = << >> /\ DataSize = BlockSize(txMode)
  BY <1>1, <1>2, RestIsPayload, RestParts, SizesAgree
<1>5. /\ source \in Seq(Alphabet) /\ Len(sink) \in Nat /\ ackedTo = Len(sink)
      /\ BlockSize(txMode) \in Nat
  BY <1>3, Numbers DEF Expected
<1>6. sink = Block(source, 0, Len(sink))
  BY DEF SinkIsPrefix
<1>7. ASSUME NEW k \in 0 .. BlockSize(txMode)
      PROVE  /\ sink \o Block(source, ackedTo, k) = Block(source, 0, Len(sink) + k)
             /\ Len(sink \o Block(source, ackedTo, k)) = Len(sink) + k
             /\ SubSeq(Payload, 1, k) = Block(source, ackedTo, k)
  <2>1. k \in Nat /\ Len(sink) + k \in Nat /\ 0 + Len(sink) = Len(sink)
    BY <1>5
  <2>2. Block(source, 0, Len(sink)) \o Block(source, 0 + Len(sink), k) = Block(source, 0, Len(sink) + k)
    <3>1. \A pos, m, n \in Nat :
              Block(source, pos, m) \o Block(source, pos + m, n) = Block(source, pos, m + n)
      BY <1>5, BlockJoin, Zenon
    <3>2. 0 \in Nat
      OBVIOUS
    <3>3. QED
      BY <1>5, <2>1, <3>1, <3>2, Zenon
  <2>3. SubSeq(Block(source, ackedTo, BlockSize(txMode)), 1, k) = Block(source, ackedTo, k)
    BY <1>5, BlockPart
  <2>4. Len(Block(source, 0, Len(sink) + k)) = Len(sink) + k
    BY <1>5, <2>1, BlockSeq
  <2>5. sink \o Block(source, ackedTo, k) = Block(source, 0, Len(sink) + k)
    BY <1>5, <1>6, <2>1, <2>2
  <2>6. QED
    BY <2>3, <2>4, <2>5 DEF Payload
<1>8. /\ sink \o Payload = Block(source, 0, Len(sink) + BlockSize(txMode))
      /\ Len(sink \o Payload) = Len(sink) + BlockSize(txMode)
  <2>1. BlockSize(txMode) \in 0 .. BlockSize(txMode)
    BY <1>5
  <2>2. QED
    BY <1>7, <2>1 DEF Payload
<1>9. QED
  BY <1>1, <1>2, <1>3, <1>4, <1>7, <1>8

LEMMA StoreStep ==
    ASSUME FairLine, Background, Situation, SinkIsPrefix, RxStore, UNCHANGED <<txVars, faults>>,
           txPc # "sent"
    PROVE  Situation' /\ SinkIsPrefix'
<1>1. /\ GoodPacket /\ rxPc = "rest" /\ sink' = sink \o RestData /\ ReadAgain(0, <<ACK>>, NAK)
  BY DEF RxStore, GoodPacket, TakeRest, NextCode, FirstAttempt
<1>2. /\ Expected /\ PacketUnderWay /\ ModesAgree /\ bwd = << >> /\ fwd' = << >>
      /\ DataSize = BlockSize(txMode) /\ expBlk' = (blkNo + 1) % NumBlockNos
      /\ sink' = Block(source, 0, Len(sink) + DataSize) /\ Len(sink') = Len(sink) + DataSize
  BY <1>1, GoodIsNext
<1>3. txPc \in {"resp", "done"}
  BY <1>1, RestFacts
<1>4. Stored'
  BY <1>2 DEF Stored, Expected, txVars
<1>5. MustKeep => 0 <= faults + 1
  BY Numbers
<1>6. Situation'
  BY <1>1, <1>2, <1>3, <1>4, <1>5, AnswerStep
<1>7. SinkIsPrefix'
  BY <1>2 DEF SinkIsPrefix, txVars
<1>8. QED
  BY <1>6, <1>7

LEMMA SinkFullStep ==
    ASSUME FairLine, Background, Situation, SinkIsPrefix, RxSinkFull, UNCHANGED <<txVars, faults>>,
           txPc # "sent"
    PROVE  Situation' /\ SinkIsPrefix'
<1>1. /\ GoodPacket /\ rxPc = "rest" /\ SinkRoom < DataSize
      /\ sink' = sink \o SubSeq(RestData, 1, SinkRoom)
      /\ rxPc' = "done" /\ rxStatus' = "CHANNEL_ERROR" /\ bwd' = Append(bwd, CAN)
  BY DEF RxSinkFull, GoodPacket, TakeRest, RxReturn
<1>2. SinkRoom \in 0 .. DataSize
  <2>1. DataSize \in Nat /\ SinkRoom \in Nat
    BY <1>1, GoodPacketInv DEF Background
  <2>2. QED
    BY <1>1, <2>1
<1>3. /\ Expected /\ bwd = << >>
      /\ sink' = Block(source, 0, Len(sink) + SinkRoom) /\ Len(sink') = Len(sink) + SinkRoom
  BY <1>1, <1>2, GoodIsNext
<1>4. txPc \in {"resp", "done"}
  BY <1>1, RestFacts
<1>5. ackedTo <= Len(sink')
  BY <1>2, <1>3, Numbers DEF Expected
<1>6. NoAck(bwd')
  <2>1. bwd' = <<CAN>> /\ Len(<<CAN>>) = 1 /\ <<CAN>>[1] = CAN
    BY <1>1, <1>3
  <2>2. QED
    BY <2>1 DEF NoAck, CAN, ACK
<1>7. Over'
  BY <1>1, <1>4, <1>5, <1>6 DEF Over, NoAck, txVars
<1>8. SinkIsPrefix'
  BY <1>3 DEF SinkIsPrefix, txVars
<1>9. QED
  BY <1>7, <1>8 DEF Situation

(* The rest of a packet stays out only if a byte of it was lost. *)
LEMMA RestLostStep ==
    ASSUME Background, Situation, RxRestTimeout, Len(fwd) < RestSize, UNCHANGED <<txVars, faults>>,
           txPc # "sent"
    PROVE  Situation'
<1>1. /\ rxPc = "rest" /\ rxPc' = "purge" /\ badRead' = "SERIAL_TIMEOUT"
      /\ UNCHANGED <<rxMode, errorCount, expBlk, sink, bwd>>
  BY DEF RxRestTimeout, RestFails
<1>2. /\ Resting /\ PacketUnderWay /\ (Expected \/ Stored) /\ bwd = << >> /\ ModesAgree
      /\ Errors(faults + 1) /\ txPc \in {"resp", "done"}
  BY <1>1, RestFacts
<1>3. Errors(faults)
  <2>1. Len(fwd) + 1 # Len(txBuf)
    BY <1>2, SizesAgree
  <2>2. QED
    BY <1>2, <2>1 DEF Resting, Arrives, Intact
<1>4. PacketUnderWay'
  BY <1>2, SameData DEF txVars, DataVars
<1>5. Flying'
  BY <1>1, <1>2, <1>3, <1>4
     DEF Flying, Expected, Stored, ModesAgree, Errors, MustKeep, txVars
<1>6. QED
  BY <1>5 DEF Situation

LEMMA PurgeFacts ==
    ASSUME Background, Situation, rxPc = "purge"
    PROVE  /\ Flying /\ PacketUnderWay /\ (Expected \/ Stored) /\ bwd = << >>
           /\ txPc \in {"resp", "done"} /\ badRead = "SERIAL_TIMEOUT"
           /\ Errors(faults) /\ Errors(faults + 1) /\ ModesAgree
<1>1. Flying
  BY DEF Situation, Negotiating, Filling, Answered, Ending, Alone, Over
<1>2. QED
  BY <1>1 DEF Flying

LEMMA PurgeByteStep ==
    ASSUME Background, Situation, RxPurgeByte, UNCHANGED <<txVars, faults>>
    PROVE  Situation'
<1>1. rxPc = "purge" /\ UNCHANGED <<rxVars, bwd>>
  BY DEF RxPurgeByte
<1>2. PacketUnderWay'
  BY <1>1, PurgeFacts, SameData DEF txVars, DataVars
<1>3. Flying'
  BY <1>1, <1>2, PurgeFacts
     DEF Flying, Expected, Stored, ModesAgree, Errors, MustKeep, txVars, rxVars
<1>4. QED
  BY <1>3 DEF Situation

LEMMA PurgedStep ==
    ASSUME Background, Situation, RxPurged, fwd = << >>, UNCHANGED <<txVars, faults>>
    PROVE  Situation'
<1>1. rxPc = "purge" /\ UNCHANGED <<expBlk, sink, fwd>>
  BY DEF RxPurged, PurgeEnds
<1>2. ReadAgain(errorCount + 1, <<NAK>>, NAK)
  BY <1>1, PurgeFacts DEF RxPurged, NextCode
<1>3. MustKeep => errorCount + 1 <= faults + 1
  BY <1>1, PurgeFacts, Numbers DEF Errors
<1>4. (Expected \/ Stored)'
  BY <1>1, PurgeFacts DEF Expected, Stored, txVars
<1>5. errorCount + 1 \in Nat /\ NAK \in {ACK, NAK} /\ NAK # ACK
  BY Numbers DEF NAK, ACK
<1>6. fwd' = << >>
  BY <1>1
<1>7. QED
  BY <1>1, <1>2, <1>3, <1>4, <1>5, <1>6, PurgeFacts, AnswerStep

(* The receiver repeats its code only when the transmitter waits for one,  *)
(* or is gone.                                                             *)
LEMMA WaitStep ==
    ASSUME Background, Situation, RxWaitTimeout, fwd = << >>, TxBlocked, UNCHANGED <<txVars, faults>>
    PROVE  Situation'
<1>1. /\ rxPc = "wait" /\ ReadAgain(errorCount + 1, <<rxCode>>, rxCode)
      /\ UNCHANGED <<expBlk, sink, fwd>>
  BY DEF RxWaitTimeout
<1>2. errorCount + 1 \in Nat /\ rxCode \in {NAK, ASCII_C} /\ rxCode # ACK
  BY Numbers DEF Background, RxInv, RxTypeOK, NAK, ACK, ASCII_C
<1>3. CASE Negotiating
  <2>1. bwd = << >> /\ txPc = "ready" /\ sink = << >> /\ Errors(faults)
    BY <1>3 DEF Negotiating, TxBlocked, TxReading
  <2>2. ackedTo = 0 /\ Len(sink) = 0
    BY <1>3, <2>1, EmptySeq DEF Negotiating, Background, TxInv, NothingSent
  <2>3. << >> \o <<rxCode>> = <<rxCode>> /\ NoAck(Append(<< >> \o <<rxCode>>, CAN))
    BY <1>2, Codes
  <2>4. CASE TooMany(errorCount + 1)
    <3>1. /\ rxPc' = "done" /\ rxStatus' # "MODEM_NO_ERRORS" /\ NoAck(bwd')
      BY <1>1, <2>1, <2>3, <2>4 DEF ReadAgain, RxReturn
    <3>2. Over'
      BY <1>1, <2>1, <2>2, <3>1, Numbers DEF Over, NoAck, txVars
    <3>3. QED
      BY <3>2 DEF Situation
  <2>5. CASE ~TooMany(errorCount + 1) /\ MustKeep
    <3>1. errorCount + 1 <= faults + 1
      BY <2>1, <2>5, Numbers DEF Errors
    <3>2. rxMode = "XMODEM_CRC" => errorCount + 1 <= FallbackErrors
      BY <1>2, <2>5, <3>1, NoFallback DEF MustKeep
    <3>3. Waits(errorCount + 1, <<rxCode>>, rxCode)
      BY <1>1, <1>2, <2>5, <3>2, Again DEF TooMany
    <3>4. Errors(faults + 1)'
      BY <3>1, <3>3 DEF Waits, Errors
    <3>5. rxCode = ASCII_C
      BY <1>3, <2>5 DEF Negotiating, FirstCode, MustKeep
    <3>6. Negotiating'
      BY <1>1, <1>3, <2>1, <2>3, <2>5, <3>3, <3>4, <3>5
         DEF Negotiating, Waits, MustKeep, ASCII_C, NAK, txVars
    <3>7. QED
      BY <3>6 DEF Situation
  <2>6. CASE ~TooMany(errorCount + 1) /\ ~MustKeep
    <3>1. /\ rxPc' = "wait" /\ bwd' = <<rxCode>>
          /\ \/ rxMode = "XMODEM_CRC" /\ rxMode' = "XMODEM" /\ rxCode' = NAK
             \/ rxMode' = rxMode /\ rxCode' = rxCode
      BY <1>1, <2>1, <2>3, <2>6 DEF ReadAgain
    <3>2. txMode = "XMODEM" \/ rxMode # "XMODEM_CRC"
      BY <2>6 DEF MustKeep
    <3>3. ~MustKeep'
      BY <3>1, <3>2 DEF MustKeep, txVars
    <3>4. rxCode = FirstCode(rxMode) /\ (rxMode = "XMODEM" => txMode = "XMODEM")
      BY <1>3 DEF Negotiating
    <3>5. rxCode' = FirstCode(rxMode') /\ (rxMode' = "XMODEM" => txMode = "XMODEM")
      BY <3>1, <3>2, <3>4 DEF FirstCode
    <3>6. bwd' \in {<<NAK>>, <<ASCII_C>>} /\ (bwd' = <<NAK>> => rxMode = "XMODEM")
      <4>1. <<rxCode>> = <<NAK>> => rxCode = NAK
        OBVIOUS
      <4>2. QED
        BY <1>2, <3>1, <3>4, <4>1 DEF FirstCode, NAK, ASCII_C
    <3>7. bwd' # << >>
      BY <3>6
    <3>8. Negotiating'
      BY <1>1, <1>3, <2>1, <3>1, <3>3, <3>5, <3>6, <3>7 DEF Negotiating, Errors, txVars
    <3>9. QED
      BY <3>8 DEF Situation
  <2>7. QED
    BY <2>4, <2>5, <2>6
<1>4. CASE Answered
  <2>1. /\ bwd = << >> /\ Errors(faults) /\ rxCode = NAK /\ txPc = "resp" /\ fwd' = << >>
        /\ PacketUnderWay /\ (Expected \/ Stored) /\ ModesAgree
    BY <1>1, <1>4 DEF Answered, TxBlocked, TxReading
  <2>2. MustKeep => errorCount + 1 <= faults + 1
    BY <2>1, Numbers DEF Errors
  <2>3. (Expected \/ Stored)'
    BY <1>1, <2>1 DEF Expected, Stored, txVars
  <2>4. QED
    BY <1>1, <1>2, <2>1, <2>2, <2>3, AnswerStep
<1>5. CASE Alone
  <2>1. rxPc' \in {"wait", "done"} /\ (rxPc' = "done" => rxStatus' # "MODEM_NO_ERRORS")
    BY <1>1 DEF ReadAgain, RxReturn
  <2>2. Alone' \/ Over'
    BY <1>1, <1>5, <2>1 DEF Alone, Over, txVars
  <2>3. QED
    BY <2>2 DEF Situation
<1>6. ~Flying
  BY <1>1, HeaderRead
<1>7. ~Ending
  BY DEF Ending, TxBlocked, TxReading
<1>8. QED
  BY <1>1, <1>3, <1>4, <1>5, <1>6, <1>7 DEF Situation, Filling, Over, TxBlocked, TxReading

(* All steps of the receiver. *)
LEMMA RxRuns ==
    ASSUME RxStart \/ RxProgress \/ RxTimeout
    PROVE  rxPc # "done" /\ (~RxStore /\ ~RxSinkFull => sink' = sink)
<1>1. CASE RxStart \/ RxStartChar \/ RxEot \/ RxJunk \/ RxWaitTimeout
  BY <1>1 DEF RxStart, RxStartChar, RxEot, RxJunk, RxWaitTimeout
<1>2. CASE RxMismatch \/ RxBadCheck \/ RxStore \/ RxSinkFull
  BY <1>2 DEF RxMismatch, RxBadCheck, RxStore, RxSinkFull, GoodPacket, TakeRest
<1>3. CASE RxPurgeByte \/ RxRestTimeout \/ RxPurged
  BY <1>3 DEF RxPurgeByte, RxRestTimeout, RestFails, RxPurged, PurgeEnds, rxVars
<1>4. QED
  BY <1>1, <1>2, <1>3 DEF RxProgress, RxTimeout

LEMMA RxStepKeeps ==
    ASSUME FairLine, SessionInv, Background', RxStep \/ RxWaits \/ RxGivesUpRest \/ RxLineSilent
    PROVE  SessionInv'
<1>1. Background /\ Situation /\ SinkIsPrefix /\ Prompt /\ UNCHANGED <<txVars, faults>>
  BY DEF SessionInv, FairLine, RxStep, RxWaits, RxGivesUpRest, RxLineSilent
<1>2. RxStart \/ RxProgress \/ RxTimeout
  BY DEF RxStep, RxWaits, RxGivesUpRest, RxLineSilent, RxTimeout
<1>3. Situation' /\ SinkIsPrefix'
  <2>1. sink' = sink => SinkIsPrefix'
    BY <1>1 DEF SinkIsPrefix, txVars
  <2>2. CASE RxStep
    <3>1. txPc # "sent"
      BY <1>1, <2>2 DEF RxStep
    <3>2. CASE RxStore \/ RxSinkFull
      BY <1>1, <3>1, <3>2, StoreStep, SinkFullStep
    <3>3. CASE ~RxStore /\ ~RxSinkFull
      <4>1. Situation'
        BY <1>1, <2>2, <3>1, <3>3, RxStartStep, StartCharStep, EotStep, NoJunk, MismatchStep,
           BadCheckStep, PurgeByteStep DEF RxStep, RxProgress
      <4>2. QED
        BY <1>2, <2>1, <3>3, <4>1, RxRuns
    <3>4. QED
      BY <3>2, <3>3
  <2>3. CASE ~RxStep
    <3>1. sink' = sink
      BY <2>3 DEF RxWaits, RxGivesUpRest, RxLineSilent, RxWaitTimeout, RxRestTimeout, RestFails,
         RxPurged
    <3>2. Situation'
      BY <1>1, <2>3, WaitStep, RestLostStep, PurgedStep
         DEF RxWaits, RxGivesUpRest, RxLineSilent, TxBlocked, TxReading
    <3>3. QED
      BY <2>1, <3>1, <3>2
  <2>4. QED
    BY <2>2, <2>3
<1>4. TxSuccessMeansDelivered'
  <2>1. ~TxSucceeded
    BY <1>2, RxRuns DEF SessionInv, TxSuccessMeansDelivered, RxSucceeded
  <2>2. QED
    BY <1>1, <2>1 DEF TxSuccessMeansDelivered, TxSucceeded, txVars
<1>5. QED
  BY <1>3, <1>4 DEF SessionInv

-----------------------------------------------------------------------------
(***************************************************************************)
(* Faults on the line.                                                     *)
(***************************************************************************)

(* A fault costs the receiver one error at most. *)
LEMMA HitErrors ==
    ASSUME Background, UNCHANGED <<txVars, rxVars>>, faults' = faults + 1
    PROVE  /\ Errors(faults + 1) => Errors(faults)' /\ Errors(faults + 1)'
           /\ Errors(faults) => Errors(faults)' /\ Errors(faults + 1)'
<1>1. MustKeep' = MustKeep /\ errorCount' = errorCount
  BY DEF MustKeep, txVars, rxVars
<1>2. \A n, m \in Nat : n <= m => n <= m + 1
  OBVIOUS
<1>3. faults \in Nat /\ errorCount \in Nat /\ faults + 1 \in Nat
  BY Numbers
<1>4. /\ errorCount <= faults => errorCount <= faults + 1
      /\ errorCount <= faults + 1 => errorCount <= faults + 1 + 1
  BY <1>2, <1>3, Zenon
<1>5. QED
  BY <1>1, <1>4 DEF Errors

(* A byte of a packet is lost, the packet is too short then; *)
LEMMA PacketLoses ==
    ASSUME Background, Flying, txPc = "sent", "header" \in Spared,
           NEW i \in Exposed, fwd' = RemoveAt(fwd, i), bwd' = bwd,
           UNCHANGED <<txVars, rxVars>>, faults' = faults + 1
    PROVE  Flying'
<1>1. rxPc = "wait" /\ Arrives(0) /\ PacketUnderWay /\ Errors(faults + 1)
  BY DEF Flying
<1>2. fwd \in Seq(Byte) /\ Len(fwd) \in Nat /\ i \in 1 .. Len(fwd) /\ i > 3
  <2>1. fwd \in Seq(Byte)
    BY Numbers
  <2>2. QED
    BY <2>1 DEF Exposed, DATA
<1>3. /\ Len(fwd') = Len(fwd) - 1
      /\ \A j \in 1 .. i - 1 : fwd'[j] = fwd[j]
  BY <1>2, Removed
<1>4. Len(txBuf) \in Nat /\ txBuf' = txBuf
  BY DEF Background, TxInv, TxTypeOK, txVars
<1>5. 3 <= Len(fwd) /\ Len(fwd) <= Len(txBuf) /\ \A j \in 1 .. 3 : fwd[j] = txBuf[j]
  <2>1. /\ 3 <= Len(fwd) + 0 /\ Len(fwd) + 0 <= Len(txBuf)
        /\ \A j \in 1 .. 3 - 0 : fwd[j] = txBuf[j + 0]
    BY <1>1 DEF Arrives, DATA
  <2>2. Len(fwd) + 0 = Len(fwd) /\ \A j \in 1 .. 3 : j + 0 = j
    BY <1>2
  <2>3. QED
    BY <2>1, <2>2
<1>6. /\ 3 <= Len(fwd') + 0 /\ Len(fwd') + 0 <= Len(txBuf) /\ Len(fwd') + 0 # Len(txBuf)
      /\ \A j \in 1 .. 3 - 0 : fwd'[j] = txBuf[j + 0]
  <2>1. \A j \in 1 .. 3 : j \in 1 .. i - 1 /\ j + 0 = j
    BY <1>2
  <2>2. QED
    BY <1>2, <1>3, <1>4, <1>5, <2>1
<1>7. Arrives(0)'
  BY <1>1, <1>4, <1>6, HitErrors DEF Arrives, DATA, Intact
<1>8. PacketUnderWay'
  BY <1>1, SameData DEF txVars, DataVars
<1>9. QED
  BY <1>1, <1>7, <1>8, HitErrors
     DEF Flying, Expected, Stored, ModesAgree, txVars, rxVars

LEMMA OneMore ==
    ASSUME NEW S, IsFiniteSet(S), NEW x, NEW T \in SUBSET (S \cup {x})
    PROVE  Cardinality(T) <= Cardinality(S) + 1 /\ Cardinality(T) \in Nat
<1>1. IsFiniteSet(S \cup {x}) /\ IsFiniteSet(T) /\ Cardinality(T) <= Cardinality(S \cup {x})
  BY FS_AddElement, FS_Subset
<1>2. Cardinality(S \cup {x}) = IF x \in S THEN Cardinality(S) ELSE Cardinality(S) + 1
  BY FS_AddElement
<1>3. /\ Cardinality(S) \in Nat /\ Cardinality(T) \in Nat
      /\ Cardinality(S \cup {x}) \in Nat
  BY <1>1, FS_CardinalityType
<1>4. QED
  BY <1>1, <1>2, <1>3

(* or is changed, and the packet has one more changed byte at most. *)
LEMMA PacketChanges ==
    ASSUME Background, Flying, txPc = "sent", "header" \in Spared, "change" \in FaultKinds,
           NEW i \in Exposed, NEW b \in Noise, fwd' = ReplaceAt(fwd, i, b), bwd' = bwd,
           UNCHANGED <<txVars, rxVars>>, faults' = faults + 1
    PROVE  Flying'
<1>1. rxPc = "wait" /\ Arrives(0) /\ PacketUnderWay /\ Errors(faults + 1) /\ TxInv
  BY DEF Flying, Background
<1>2. fwd \in Seq(Byte) /\ Len(fwd) \in Nat /\ i \in 1 .. Len(fwd) /\ i > 3
  <2>1. fwd \in Seq(Byte)
    BY Numbers
  <2>2. QED
    BY <2>1 DEF Exposed, DATA
<1>3. /\ Len(fwd') = Len(fwd)
      /\ \A j \in 1 .. Len(fwd) : fwd'[j] = IF j = i THEN b ELSE fwd[j]
  BY <1>2 DEF ReplaceAt
<1>4. txBuf' = txBuf /\ BodySize' = BodySize /\ faults \in Nat
  BY Numbers DEF txVars, BodySize
<1>5. /\ BodySize \in Nat /\ Len(txBuf) = BodySize + 3
  <2>1. /\ BodySize = BlockSize(txMode) + CheckSize(txMode)
        /\ BlockSize(txMode) \in Nat /\ CheckSize(txMode) \in {1, 2} /\ txBuf \in Seq(Byte)
    BY <1>1, UnderWay
  <2>2. Len(txBuf) \in Nat
    BY <2>1
  <2>3. QED
    BY <2>1, <2>2 DEF BodySize, DATA
<1>6. /\ DATA <= Len(fwd') + 0 /\ Len(fwd') + 0 <= Len(txBuf)
  BY <1>1, <1>3 DEF Arrives
<1>7. \A j \in 1 .. DATA - 0 : fwd'[j] = txBuf[j + 0]
  <2>1. \A j \in 1 .. 3 - 0 : fwd[j] = txBuf[j + 0]
    BY <1>1 DEF Arrives, DATA
  <2>2. \A j \in 1 .. 3 - 0 : j \in 1 .. Len(fwd) /\ j # i
    BY <1>2
  <2>3. QED
    BY <1>3, <2>1, <2>2 DEF DATA
<1>8. ASSUME Len(fwd') + 0 = Len(txBuf)
      PROVE  /\ Cardinality(Changed(0)') <= faults + 1
             /\ \A j \in Changed(0)' : fwd'[DATA - 0 + j] \in Noise
  <2>1. Len(fwd) + 0 = Len(txBuf) /\ Len(fwd) = BodySize + 3
    BY <1>2, <1>3, <1>5, <1>8
  <2>2. /\ Cardinality(Changed(0)) <= faults
        /\ \A j \in Changed(0) : fwd[DATA - 0 + j] \in Noise
    BY <1>1, <2>1 DEF Arrives
  <2>3. \A j \in 1 .. BodySize : DATA - 0 + j \in 1 .. Len(fwd) /\ (DATA - 0 + j = i <=> j = i - 3)
    BY <1>2, <1>5, <2>1 DEF DATA
  <2>4. \A j \in Changed(0)' : j = i - 3 \/ j \in Changed(0)
    BY <1>3, <1>4, <2>3 DEF Changed
  <2>5. \A j \in Changed(0)' : j \in 1 .. BodySize
    BY <1>4 DEF Changed
  <2>6. \A j \in Changed(0)' : fwd'[DATA - 0 + j] \in Noise
    BY <1>3, <2>2, <2>3, <2>4, <2>5
  <2>7. IsFiniteSet(Changed(0)) /\ Cardinality(Changed(0)) \in Nat
    BY <1>1, ChangedFinite
  <2>8. Changed(0)' \in SUBSET (Changed(0) \cup {i - 3})
    BY <2>4
  <2>9. Cardinality(Changed(0)') <= Cardinality(Changed(0)) + 1 /\ Cardinality(Changed(0)') \in Nat
    BY <2>7, <2>8, OneMore
  <2>10. Cardinality(Changed(0)') <= faults + 1
    BY <1>4, <2>2, <2>7, <2>9
  <2>11. QED
    BY <2>6, <2>10
<1>9. Arrives(0)'
  BY <1>1, <1>4, <1>6, <1>7, <1>8, HitErrors DEF Arrives
<1>10. PacketUnderWay'
  BY <1>1, SameData DEF txVars, DataVars
<1>11. QED
  BY <1>1, <1>9, <1>10, HitErrors
     DEF Flying, Expected, Stored, ModesAgree, txVars, rxVars

(* A lost reply is asked for again. *)
LEMMA ReplyLost ==
    ASSUME Background, Situation, NEW i \in DOMAIN bwd, bwd' = RemoveAt(bwd, i), fwd' = fwd,
           UNCHANGED <<txVars, rxVars>>, faults' = faults + 1
    PROVE  Situation'
<1>1. bwd \in Seq(Byte) /\ i \in 1 .. Len(bwd) /\ bwd # << >>
  <2>1. bwd \in Seq(Byte)
    BY Numbers
  <2>2. QED
    BY <2>1, EmptySeq
<1>2. ASSUME NEW b, bwd = <<b>> PROVE bwd' = << >>
  <2>1. Len(bwd) = 1
    BY <1>2
  <2>2. Len(bwd) \in {0, 1}
    BY <2>1
  <2>3. QED
    BY <1>1, <2>2, SingleByte
<1>3. CASE Negotiating
  <2>1. bwd' = << >> /\ Errors(faults + 1)
    BY <1>1, <1>2, <1>3 DEF Negotiating
  <2>2. Negotiating'
    BY <1>3, <2>1, HitErrors DEF Negotiating, txVars, rxVars
  <2>3. QED
    BY <2>2 DEF Situation
<1>4. CASE Answered
  <2>1. bwd' = << >> /\ Errors(faults + 1)
    BY <1>1, <1>2, <1>4 DEF Answered
  <2>2. PacketUnderWay'
    BY <1>4, SameData DEF Answered, txVars, DataVars
  <2>3. Answered'
    BY <1>4, <2>1, <2>2, HitErrors
       DEF Answered, Expected, Stored, ModesAgree, txVars, rxVars
  <2>4. QED
    BY <2>3 DEF Situation
<1>5. CASE Alone
  <2>1. Alone'
    BY <1>5 DEF Alone, txVars, rxVars
  <2>2. QED
    BY <2>1 DEF Situation
<1>6. CASE Over
  <2>1. NoAck(bwd) => NoAck(bwd')
    BY <1>1, StillNoAck
  <2>2. bwd \in {<< >>, <<ACK>>} => bwd' = << >>
    BY <1>1, <1>2
  <2>3. Over'
    BY <1>6, <2>1, <2>2 DEF Over, NoAck, AllStored, txVars, rxVars
  <2>4. QED
    BY <2>3 DEF Situation
<1>7. QED
  BY <1>1, <1>3, <1>4, <1>5, <1>6 DEF Situation, Filling, Flying, Ending

LEMMA HitStepKeeps ==
    ASSUME FairLine, SessionInv, LoseByte \/ ChangeByte
    PROVE  SessionInv'
<1>1. /\ Background /\ Situation /\ UNCHANGED <<txVars, rxVars>> /\ faults' = faults + 1
      /\ "header" \in Spared
      /\ "replies" \in Spared \/ ReplyNoise = {}
  BY DEF SessionInv, FairLine, LoseByte, ChangeByte, Fault
<1>2. ASSUME NEW i \in Exposed, bwd' = bwd,
             \/ fwd' = RemoveAt(fwd, i)
             \/ "change" \in FaultKinds /\ \E b \in Noise : fwd' = ReplaceAt(fwd, i, b)
      PROVE  Situation'
  <2>1. txPc = "sent"
    BY <1>1 DEF Exposed
  <2>2. CASE Flying
    <3>1. Flying'
      BY <1>1, <1>2, <2>1, <2>2, PacketLoses, PacketChanges
    <3>2. QED
      BY <3>1 DEF Situation
  <2>3. CASE Over
    <3>1. Over'
      BY <1>1, <1>2, <2>3 DEF Over, AllStored, txVars, rxVars
    <3>2. QED
      BY <3>1 DEF Situation
  <2>4. QED
    BY <1>1, <2>1, <2>2, <2>3 DEF Situation, Negotiating, Filling, Answered, Ending, Alone
<1>3. Situation'
  <2>1. CASE LoseByte
    <3>1. CASE \E i \in Exposed : fwd' = RemoveAt(fwd, i) /\ bwd' = bwd
      BY <1>2, <3>1
    <3>2. CASE \E i \in ExposedReplies : bwd' = RemoveAt(bwd, i) /\ fwd' = fwd
      <4>1. PICK i \in DOMAIN bwd : bwd' = RemoveAt(bwd, i) /\ fwd' = fwd
        BY <3>2 DEF ExposedReplies
      <4>2. QED
        BY <1>1, <4>1, ReplyLost
    <3>3. QED
      BY <2>1, <3>1, <3>2 DEF LoseByte
  <2>2. CASE ChangeByte
    <3>1. ~(\E i \in ExposedReplies, b \in ReplyNoise : TRUE)
      BY <1>1 DEF ExposedReplies
    <3>2. PICK i \in Exposed : bwd' = bwd /\ \E b \in Noise : fwd' = ReplaceAt(fwd, i, b)
      BY <2>2, <3>1 DEF ChangeByte
    <3>3. "change" \in FaultKinds
      BY <2>2 DEF ChangeByte, Fault
    <3>4. QED
      BY <1>2, <3>2, <3>3
  <2>3. QED
    BY <2>1, <2>2
<1>4. SinkIsPrefix' /\ TxSuccessMeansDelivered'
  BY <1>1 DEF SessionInv, SinkIsPrefix, TxSuccessMeansDelivered, TxSucceeded, RxSucceeded, AllStored,
     txVars, rxVars
<1>5. Background'
  BY <1>1, BackgroundNext DEF Next
<1>6. QED
  BY <1>3, <1>4, <1>5 DEF SessionInv

-----------------------------------------------------------------------------
LEMMA SessionNext == ASSUME FairLine, SessionInv, [Next]_vars PROVE SessionInv'
<1>1. Background'
  BY BackgroundNext DEF SessionInv
<1>2. CASE TxStep \/ TxGivesUp \/ EndFails
  BY <1>1, <1>2, TxStepKeeps
<1>3. CASE RxStep \/ RxWaits \/ RxGivesUpRest \/ RxLineSilent
  BY <1>1, <1>3, RxStepKeeps
<1>4. CASE LoseByte \/ ChangeByte
  BY <1>4, HitStepKeeps
<1>5. CASE UNCHANGED vars
  <2>1. UNCHANGED <<txVars, rxVars, lines, faults>>
    BY <1>5 DEF vars
  <2>2. SinkIsPrefix' /\ TxSuccessMeansDelivered'
    BY <2>1 DEF SessionInv, SinkIsPrefix, TxSuccessMeansDelivered, TxSucceeded, RxSucceeded,
       AllStored, txVars, rxVars
  <2>3. Situation'
    <3>1. PacketUnderWay' = PacketUnderWay /\ AllAcked' = AllAcked
      BY <2>1, SameData DEF txVars, DataVars
    <3>2. /\ Arrives(0)' = Arrives(0) /\ Arrives(1)' = Arrives(1)
          /\ Errors(faults)' = Errors(faults) /\ Errors(faults + 1)' = Errors(faults + 1)
      BY <2>1 DEF Arrives, Changed, Intact, BodySize, Errors, MustKeep, txVars, rxVars, lines
    <3>3. Situation
      BY DEF SessionInv
    <3>4. Negotiating => Negotiating'
      BY <2>1, <3>2 DEF Negotiating, txVars, rxVars, lines
    <3>5. Filling => Filling'
      BY <2>1, <3>2 DEF Filling, Expected, Stored, ModesAgree, txVars, rxVars, lines
    <3>6. Flying => Flying'
      BY <2>1, <3>1, <3>2 DEF Flying, Expected, Stored, ModesAgree, txVars, rxVars, lines
    <3>7. Answered => Answered'
      BY <2>1, <3>1, <3>2 DEF Answered, Expected, Stored, ModesAgree, txVars, rxVars, lines
    <3>8. Ending => Ending'
      BY <2>1, <3>1 DEF Ending, txVars, rxVars, lines
    <3>9. Alone => Alone'
      BY <2>1 DEF Alone, txVars, rxVars, lines
    <3>10. Over => Over'
      BY <2>1 DEF Over, AllStored, txVars, rxVars, lines
    <3>11. QED
      BY <3>3, <3>4, <3>5, <3>6, <3>7, <3>8, <3>9, <3>10 DEF Situation
  <2>4. QED
    BY <1>1, <2>2, <2>3 DEF SessionInv
<1>6. ~SendFails
  BY DEF FairLine, SendFails, Fault
<1>7. QED
  BY <1>2, <1>3, <1>4, <1>5, <1>6 DEF Next, Work

(* What acknowledged and stored bytes have to do with each other. *)
LEMMA StoredFirst ==
    ASSUME SessionInv
    PROVE  /\ ackedTo \in Nat /\ Len(sink) \in Nat /\ ackedTo <= Len(sink)
           /\ rxPc # "done" => Len(sink) <= ackedTo + BlockSize(txMode)
<1>1. Background /\ Situation
  BY DEF SessionInv
<1>2. /\ ackedTo \in Nat /\ sink \in Seq(Byte) /\ Len(sink) \in Nat
      /\ BlockSize(txMode) \in Nat \ {0}
  <2>1. txMode \in Modes /\ ackedTo \in Nat /\ sink \in Seq(Byte)
    BY <1>1 DEF Background, TxInv, TxTypeOK, RxInv, RxTypeOK
  <2>2. QED
    BY <2>1, SizeType
<1>3. CASE Negotiating
  <2>1. ackedTo = 0 /\ Len(sink) = 0
    BY <1>1, <1>3 DEF Background, TxInv, NothingSent, Negotiating
  <2>2. QED
    BY <1>2, <2>1
<1>4. CASE Expected \/ Stored
  BY <1>2, <1>4 DEF Expected, Stored
<1>5. CASE Ending
  BY <1>2, <1>5 DEF Ending
<1>6. CASE Alone
  BY <1>2, <1>6 DEF Alone
<1>7. CASE Over
  BY <1>2, <1>7 DEF Over
<1>8. QED
  BY <1>1, <1>3, <1>4, <1>5, <1>6, <1>7 DEF Situation, Filling, Flying, Answered

(* A receiver that has returned is over with the transfer. *)
LEMMA ReturnedMeansOver == ASSUME Situation, rxPc = "done" PROVE Over
  BY DEF Situation, Negotiating, Filling, Flying, Answered, Ending, Alone

LEMMA SessionHolds == ASSUME FairLine PROVE Spec => []SessionInv
<1>1. Init => SessionInv
  BY SessionStart
<1>2. SessionInv /\ [Next]_vars => SessionInv'
  BY SessionNext
<1>3. QED
  BY <1>1, <1>2, PTL DEF Spec

(* Whatever is lost or noticed as changed, and however often packets are   *)
(* repeated, the sink of xmodem_rx holds the data of xmodem_tx's source in *)
(* order, nothing twice and nothing left out.                              *)
THEOREM SinkInOrder == ASSUME FairLine PROVE Spec => []SinkIsPrefix
<1>1. SessionInv => SinkIsPrefix
  BY DEF SessionInv
<1>2. QED
  BY <1>1, SessionHolds, PTL

(* The two ends stay within one packet of each other, with bytes lost,     *)
(* checks failed, packets repeated and lines purged, on a line where a     *)
(* read times out only when nothing more can arrive: xmodem_tx goes on to  *)
(* the next packet only when xmodem_rx has stored this one.                *)
THEOREM OnePacketApart == ASSUME FairLine PROVE Spec => []StopAndWait
<1>1. SessionInv => StopAndWait
  BY StoredFirst DEF StopAndWait
<1>2. QED
  BY <1>1, SessionHolds, PTL

(* When xmodem_tx returns MODEM_NO_ERRORS, xmodem_rx has returned it too   *)
(* and all of the source is in the sink.                                   *)
THEOREM TxSuccessDelivers == ASSUME FairLine PROVE Spec => []TxSuccessMeansDelivered
<1>1. SessionInv => TxSuccessMeansDelivered
  BY DEF SessionInv
<1>2. QED
  BY <1>1, SessionHolds, PTL

-----------------------------------------------------------------------------
(***************************************************************************)
(* The refinement.  A step of xmodem_tx or xmodem_rx is a step of          *)
(* FileTransfer when it stores, acknowledges or returns, else a stutter.   *)
(***************************************************************************)
LEMMA MinOfTwo == ASSUME NEW a \in Nat, NEW b \in Nat, a <= b PROVE Min({a, b}) = a
<1>1. a \in {a, b} /\ \A y \in {a, b} : a =< y
  OBVIOUS
<1>2. \A x \in {a, b} : (\A y \in {a, b} : x =< y) => x = a
  OBVIOUS
<1>3. QED
  BY <1>1, <1>2 DEF Min

(* What is acknowledged is stored, so it is what is confirmed. *)
LEMMA Confirmed == SessionInv => Min({ackedTo, Len(sink)}) = ackedTo
  BY StoredFirst, MinOfTwo

LEMMA ConfirmedNext == SessionInv' => Min({ackedTo, Len(sink)})' = ackedTo'
<1>1. (SessionInv => Min({ackedTo, Len(sink)}) = ackedTo)'
  BY Confirmed, PTL
<1>2. QED
  BY <1>1

(* Only an acknowledgement moves the transmitter on, and it is not called  *)
(* again after it returned.                                                *)
LEMMA TxRuns ==
    ASSUME TxNext
    PROVE  /\ txPc # "done" /\ source' = source
           /\ ~TxAck => ackedTo' = ackedTo
           /\ TxAck => txPc' # "done"
<1>1. TxAck => txPc = "resp" /\ txPc' # "done" /\ source' = source
  BY DEF TxAck, TxResponse
<1>2. CASE TxStart \/ TxReady \/ TxSend \/ TxSendFails \/ TxFlush
  BY <1>1, <1>2 DEF TxStart, TxReady, TxSend, TxSendFails, TxFill, TxFlush
<1>3. CASE TxNak \/ TxCancelled \/ TxSendEot \/ TxEotFails \/ TxFinish
  BY <1>1, <1>3 DEF TxNak, TxResponse, TxCancelled, TxSendEot, TxEotFails, TxFinish
<1>4. CASE TxChannelError \/ TxTimeout \/ TxHwError
  BY <1>1, <1>4 DEF TxChannelError, TxTimeout, TxHwError, TxReadFails, TxReading
<1>5. QED
  BY <1>1, <1>2, <1>3, <1>4 DEF TxNext, TxProgress

(* An ACK read as a response answers the packet under way, which is stored *)
(* and which the receiver still follows.                                   *)
LEMMA AckConfirms ==
    ASSUME SessionInv, SessionInv', TxAck, UNCHANGED rxVars
    PROVE  Transfer!Confirm
<1>1. /\ txPc = "resp" /\ bwd # << >> /\ Head(bwd) = ACK /\ txPc' # "done"
      /\ source' = source /\ ackedTo' = ackedTo + BlockSize(txMode)
  BY DEF TxAck, TxResponse, TxReads
<1>2. rxPc # "done"
  <2>1. ASSUME Over PROVE FALSE
    <3>1. \A i \in 1 .. Len(bwd) : bwd[i] # ACK
      BY <1>1, <2>1 DEF Over
    <3>2. bwd \in Seq(Byte) /\ Len(bwd) \in Nat /\ Len(bwd) # 0 /\ Head(bwd) = bwd[1]
      BY <1>1, Numbers, EmptySeq DEF SessionInv
    <3>3. QED
      BY <1>1, <3>1, <3>2
  <2>2. QED
    BY <2>1, ReturnedMeansOver DEF SessionInv
<1>3. /\ ackedTo \in Nat /\ Len(sink) \in Nat /\ Len(sink) <= ackedTo + BlockSize(txMode)
      /\ BlockSize(txMode) \in Nat \ {0}
  BY <1>2, StoredFirst, SizeType DEF SessionInv, Background, TxInv, TxTypeOK
<1>4. ackedTo' <= Len(sink)' /\ sink' = sink
  <2>1. (SessionInv => ackedTo <= Len(sink))'
    BY StoredFirst, PTL
  <2>2. QED
    BY <2>1 DEF rxVars
<1>5. Len(sink) = ackedTo' /\ ackedTo < Len(sink)
  BY <1>1, <1>3, <1>4
<1>6. Min({ackedTo, Len(sink)}) = ackedTo /\ Min({ackedTo, Len(sink)})' = ackedTo'
  BY Confirmed, ConfirmedNext
<1>7. QED
  BY <1>1, <1>4, <1>5, <1>6 DEF Transfer!Confirm, Result, rxVars

(* Any other step of the transmitter is its end or changes nothing.        *)
LEMMA TxImplements ==
    ASSUME SessionInv, SessionInv', TxStepTaken
    PROVE  Transfer!Next \/ UNCHANGED Transfer!transfer
<1>1. /\ TxNext /\ UNCHANGED rxVars /\ txPc # "done" /\ source' = source
      /\ ~TxAck => ackedTo' = ackedTo
  BY TxRuns DEF TxStepTaken
<1>2. Min({ackedTo, Len(sink)}) = ackedTo /\ Min({ackedTo, Len(sink)})' = ackedTo'
  BY Confirmed, ConfirmedNext
<1>3. CASE TxAck
  BY <1>1, <1>3, AckConfirms DEF Transfer!Next
<1>4. CASE ~TxAck /\ txPc' = "done"
  <2>1. ASSUME txStatus' = "MODEM_NO_ERRORS"
        PROVE  rxPc = "done" /\ rxStatus = "MODEM_NO_ERRORS" /\ Len(source) < ackedTo
    BY <1>1, <1>4, <2>1
       DEF SessionInv, TxSuccessMeansDelivered, TxSucceeded, RxSucceeded, Background, TxInv,
           AllAcked, rxVars
  <2>2. Transfer!SenderEnds
    BY <1>1, <1>2, <1>4, <2>1 DEF Transfer!SenderEnds, Result, rxVars
  <2>3. QED
    BY <2>2 DEF Transfer!Next
<1>5. CASE ~TxAck /\ txPc' # "done"
  BY <1>1, <1>2, <1>5 DEF Transfer!transfer, Result, rxVars
<1>6. QED
  BY <1>3, <1>4, <1>5

(* A good packet is the next block, and the one before it is acknowledged. *)
LEMMA GoodGrows ==
    ASSUME FairLine, SessionInv, SessionInv', GoodPacket, UNCHANGED txVars,
           NEW k \in 1 .. DataSize, sink' = Block(source, 0, Len(sink) + k)
    PROVE  Transfer!Grow
<1>1. Expected /\ PacketUnderWay /\ DataSize = BlockSize(txMode)
  BY GoodIsNext DEF SessionInv
<1>2. ackedTo = Len(sink) /\ Len(sink) <= Len(source)
  <2>1. Len(source) - ackedTo >= 0
    BY <1>1 DEF PacketUnderWay, Left
  <2>2. ackedTo \in Nat /\ Len(source) \in Nat
    BY TxAssumption DEF SessionInv, Background, TxInv, TxTypeOK
  <2>3. QED
    BY <1>1, <2>1, <2>2 DEF Expected
<1>3. Len(sink) + k \in Len(sink) + 1 .. Len(sink) + KBlockLen
  <2>1. BlockSize(txMode) \in Nat /\ BlockSize(txMode) <= KBlockLen /\ KBlockLen \in Nat
    BY LengthAssumption DEF BlockSize
  <2>2. Len(sink) \in Nat
    BY StoredFirst
  <2>3. QED
    BY <1>1, <2>1, <2>2
<1>4. Block(source, 0, Len(sink) + k) = Transfer!Padded(Len(sink) + k)
  <2>1. \A i \in 1 .. Len(sink) + k : 0 + i = i
    BY StoredFirst
  <2>2. QED
    BY <2>1 DEF Block, Transfer!Padded
<1>5. Min({ackedTo, Len(sink)}) = ackedTo
  BY Confirmed
<1>6. QED
  BY <1>2, <1>3, <1>4, <1>5 DEF Transfer!Grow

(* The receiver stores, returns, or changes nothing.                       *)
LEMMA RxImplements ==
    ASSUME FairLine, SessionInv, SessionInv', RxStepTaken
    PROVE  Transfer!Next \/ UNCHANGED Transfer!transfer
<1>1. /\ UNCHANGED txVars /\ rxPc # "done" /\ ackedTo' = ackedTo
      /\ ~RxStore /\ ~RxSinkFull => sink' = sink
  BY RxRuns DEF RxStepTaken, txVars
<1>2. Min({ackedTo, Len(sink)}) = ackedTo /\ Min({ackedTo, Len(sink)})' = ackedTo'
  BY Confirmed, ConfirmedNext
<1>3. Background /\ Situation /\ SinkIsPrefix
  BY DEF SessionInv
<1>4. CASE RxStore
  <2>1. /\ GoodPacket /\ rxPc = "rest" /\ sink' = sink \o RestData /\ ReadAgain(0, <<ACK>>, NAK)
    BY <1>4 DEF RxStore, GoodPacket, TakeRest, NextCode, FirstAttempt
  <2>2. rxPc' = "wait"
    BY <2>1, RxAssumption DEF ReadAgain, TooMany
  <2>3. sink' = Block(source, 0, Len(sink) + DataSize) /\ DataSize \in 1 .. DataSize
    <3>1. DataSize \in Nat \ {0} /\ sink' = Block(source, 0, Len(sink) + DataSize)
      BY <1>3, <2>1, GoodIsNext, SizeType DEF Background, TxInv, TxTypeOK
    <3>2. QED
      BY <3>1
  <2>4. Transfer!Grow
    BY <1>1, <2>1, <2>3, GoodGrows
  <2>5. Transfer!Deliver
    BY <1>1, <1>2, <2>2, <2>4 DEF Transfer!Deliver, Result, txVars
  <2>6. QED
    BY <2>5 DEF Transfer!Next
<1>5. CASE RxSinkFull
  <2>1. /\ GoodPacket /\ SinkRoom < DataSize
        /\ sink' = sink \o SubSeq(RestData, 1, SinkRoom)
        /\ rxPc' = "done" /\ rxStatus' = "CHANNEL_ERROR"
    BY <1>5 DEF RxSinkFull, RxReturn
  <2>2. SinkRoom \in 0 .. DataSize /\ DataSize \in Nat
    <3>1. DataSize \in Nat /\ SinkRoom \in Nat
      BY <1>3, <2>1, GoodPacketInv DEF Background
    <3>2. QED
      BY <2>1, <3>1
  <2>3. sink' = Block(source, 0, Len(sink) + SinkRoom)
    BY <1>3, <2>1, <2>2, GoodIsNext
  <2>4. CASE SinkRoom = 0
    <3>1. sink' = sink
      BY <1>3, <2>3, <2>4, StoredFirst DEF SinkIsPrefix
    <3>2. Transfer!ReceiverEnds
      BY <1>1, <1>2, <2>1, <3>1 DEF Transfer!ReceiverEnds, Result, txVars
    <3>3. QED
      BY <3>2 DEF Transfer!Next
  <2>5. CASE SinkRoom # 0
    <3>1. SinkRoom \in 1 .. DataSize
      BY <2>2, <2>5
    <3>2. Transfer!Grow
      BY <1>1, <2>1, <2>3, <3>1, GoodGrows
    <3>3. Transfer!ReceiverEnds
      BY <1>1, <1>2, <2>1, <3>2 DEF Transfer!ReceiverEnds, Result, txVars
    <3>4. QED
      BY <3>3 DEF Transfer!Next
  <2>6. QED
    BY <2>4, <2>5
<1>6. CASE ~RxStore /\ ~RxSinkFull /\ rxPc' = "done"
  <2>1. Transfer!ReceiverEnds
    BY <1>1, <1>2, <1>6 DEF Transfer!ReceiverEnds, Result, txVars
  <2>2. QED
    BY <2>1 DEF Transfer!Next
<1>7. CASE ~RxStore /\ ~RxSinkFull /\ rxPc' # "done"
  BY <1>1, <1>2, <1>7 DEF Transfer!transfer, Result, txVars
<1>8. QED
  BY <1>4, <1>5, <1>6, <1>7

(* xmodem_tx and xmodem_rx with their packets, numbers, retries and faults *)
(* implement FileTransfer: block after block, each after the one before it *)
(* is acknowledged, and each function comes to one result.                 *)
THEOREM SessionImplements == ASSUME FairLine PROVE Spec => ImplementsTransfer
<1>1. Init => Transfer!Init
  <2>1. ASSUME Init PROVE Transfer!Init
    <3>1. ackedTo = 0 /\ sink = << >> /\ Len(sink) = 0 /\ source \in Sources
          /\ txPc = "idle" /\ rxPc = "idle"
      BY <2>1 DEF Init, TxInit, RxInit
    <3>2. Min({ackedTo, Len(sink)}) = 0
      BY <3>1, MinOfTwo
    <3>3. QED
      BY <3>1, <3>2 DEF Transfer!Init, Result
  <2>2. QED
    BY <2>1
<1>2. ASSUME SessionInv, SessionInv', [Next]_vars
      PROVE  Transfer!Next \/ UNCHANGED Transfer!transfer
  <2>1. CASE TxStepTaken
    BY <1>2, <2>1, TxImplements
  <2>2. CASE RxStepTaken
    BY <1>2, <2>2, RxImplements
  <2>3. CASE ByteHit \/ UNCHANGED vars
    <3>1. UNCHANGED <<txVars, rxVars>>
      BY <2>3 DEF ByteHit, vars
    <3>2. Min({ackedTo, Len(sink)})' = Min({ackedTo, Len(sink)})
      BY <3>1 DEF txVars, rxVars
    <3>3. QED
      BY <3>1, <3>2 DEF Transfer!transfer, Result, txVars, rxVars
  <2>4. QED
    BY <1>2, <2>1, <2>2, <2>3, StepKinds
<1>3. QED
  BY <1>1, <1>2, SessionHolds, PTL DEF Spec, ImplementsTransfer, Transfer!Spec
=============================================================================
