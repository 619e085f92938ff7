---------------------------- MODULE Modem_proofs ----------------------------
(***************************************************************************)
(* Lemmas about the layout of a packet and the blocks cut out of a source, *)
(* for every length of block and every check code.                         *)
(***************************************************************************)
EXTENDS Modem, SequenceTheorems, TLAPS

LEMMA SizeType == ASSUME NEW mode \in Modes
                  PROVE  BlockSize(mode) \in Nat \ {0}
  BY LengthAssumption DEF BlockSize, Modes

(* A block cut out of a source is a payload. *)
LEMMA BlockType == ASSUME NEW src \in Seq(Alphabet), NEW pos \in Nat, NEW mode \in Modes
                   PROVE  /\ Block(src, pos, BlockSize(mode)) \in Payloads
                          /\ Block(src, pos, BlockSize(mode)) \in
                                 [1 .. BlockSize(mode) -> Alphabet]
<1> DEFINE n == BlockSize(mode)
<1>1. n \in Nat /\ n \in {BlockLen, KBlockLen}
  BY LengthAssumption DEF BlockSize
<1>2. \A i \in 1 .. n : pos + i <= Len(src) => src[pos + i] \in Alphabet
  BY <1>1
<1>3. \A i \in 1 .. n : (IF pos + i <= Len(src) THEN src[pos + i] ELSE CPMEOF) \in Alphabet
  BY <1>2, DataAssumption
<1>4. Block(src, pos, n) \in [1 .. n -> Alphabet]
  BY <1>3 DEF Block
<1>5. QED
  BY <1>1, <1>4 DEF Payloads

LEMMA ConcatParts ==
    ASSUME NEW s \in Seq(Byte), NEW t \in Seq(Byte)
    PROVE  /\ s \o t \in Seq(Byte) /\ Len(s \o t) = Len(s) + Len(t)
           /\ \A i \in 1 .. Len(s) : (s \o t)[i] = s[i]
           /\ \A i \in 1 .. Len(t) : (s \o t)[Len(s) + i] = t[i]
  OBVIOUS

(* A packet is a sequence of bytes.  After its header, which ends with the *)
(* number and its complement, it has the payload and then the check bytes. *)
LEMMA PacketParts ==
    ASSUME NEW mode \in Modes, NEW blk \in 0 .. NumBlockNos - 1, NEW data \in Payloads
    PROVE  LET pkt   == Packet(mode, blk, data)
               check == CheckBytes(mode, data)
           IN  /\ pkt \in Seq(Byte) /\ data \in Seq(Byte) /\ check \in Seq(Byte)
               /\ Len(check) = CheckSize(mode)
               /\ Len(pkt) = DATA + Len(data) + CheckSize(mode)
               /\ pkt[1] = StartChar(mode) /\ pkt[2] = blk /\ pkt[3] = Complement(blk)
               /\ \A i \in 1 .. Len(data) : pkt[DATA + i] = data[i]
               /\ \A i \in 1 .. Len(check) : pkt[DATA + Len(data) + i] = check[i]
<1> DEFINE head  == <<StartChar(mode), blk, Complement(blk)>>
           check == CheckBytes(mode, data)
           pkt   == Packet(mode, blk, data)
<1>1. /\ head \in Seq(Byte) /\ Len(head) = 3
      /\ head[1] = StartChar(mode) /\ head[2] = blk /\ head[3] = Complement(blk)
  BY LengthAssumption DEF StartChar, Complement, Byte, STX, SOH
<1>2. data \in Seq(Byte) /\ Len(data) \in Nat
  BY DataAssumption, LengthAssumption DEF Payloads
<1>3. check \in Seq(Byte) /\ Len(check) = CheckSize(mode)
  <2>1. Chksum(data) \in Byte /\ Crc(data) \in Byte \X Byte
    BY DataAssumption
  <2>2. PICK hi \in Byte, lo \in Byte : Crc(data) = <<hi, lo>>
    BY <2>1
  <2>3. QED
    BY <2>1, <2>2 DEF CheckBytes, CheckSize
<1> HIDE DEF head, check
<1> DEFINE front == head \o data
<1>4. /\ front \in Seq(Byte) /\ Len(front) = 3 + Len(data)
      /\ \A i \in 1 .. 3 : front[i] = head[i]
      /\ \A i \in 1 .. Len(data) : front[3 + i] = data[i]
  BY <1>1, <1>2, ConcatParts
<1>5. pkt = front \o check
  BY DEF Packet, head, check
<1> HIDE DEF pkt, front
<1>6. /\ pkt \in Seq(Byte) /\ Len(pkt) = Len(front) + Len(check)
      /\ \A i \in 1 .. Len(front) : pkt[i] = front[i]
      /\ \A i \in 1 .. Len(check) : pkt[Len(front) + i] = check[i]
  BY <1>3, <1>4, <1>5, ConcatParts
<1>7. pkt[1] = head[1] /\ pkt[2] = head[2] /\ pkt[3] = head[3]
  BY <1>2, <1>4, <1>6
<1>8. ASSUME NEW i \in 1 .. Len(data) PROVE pkt[3 + i] = data[i]
  <2>1. 3 + i \in 1 .. Len(front)
    BY <1>2, <1>4
  <2>2. QED
    BY <1>4, <1>6, <2>1
<1>9. QED
  BY <1>1, <1>2, <1>3, <1>4, <1>6, <1>7, <1>8 DEF DATA, pkt, check

(* A block of any length is a sequence of bytes. *)
LEMMA BlockSeq == ASSUME NEW src \in Seq(Alphabet), NEW pos \in Nat, NEW n \in Nat
                  PROVE  /\ Block(src, pos, n) \in Seq(Byte)
                         /\ Len(Block(src, pos, n)) = n
<1>1. \A i \in 1 .. n : pos + i <= Len(src) => src[pos + i] \in Alphabet
  OBVIOUS
<1>2. \A i \in 1 .. n : (IF pos + i <= Len(src) THEN src[pos + i] ELSE CPMEOF) \in Byte
  BY <1>1, DataAssumption
<1>3. Block(src, pos, n) \in [1 .. n -> Byte]
  BY <1>2 DEF Block
<1>4. QED
  BY <1>3

(* Blocks that follow each other in the source make a longer block. *)
LEMMA BlockJoin == ASSUME NEW src \in Seq(Alphabet), NEW pos \in Nat, NEW m \in Nat, NEW n \in Nat
                   PROVE  Block(src, pos, m) \o Block(src, pos + m, n) = Block(src, pos, m + n)
<1> DEFINE a == Block(src, pos, m)
           b == Block(src, pos + m, n)
           c == Block(src, pos, m + n)
<1>1. /\ a \in Seq(Byte) /\ b \in Seq(Byte) /\ c \in Seq(Byte)
      /\ Len(a) = m /\ Len(b) = n /\ Len(c) = m + n
  BY BlockSeq
<1>2. a \o b \in Seq(Byte) /\ Len(a \o b) = m + n
  BY <1>1, ConcatProperties
<1>3. ASSUME NEW i \in 1 .. m + n PROVE (a \o b)[i] = c[i]
  <2>1. CASE i <= m
    BY <1>1, <2>1, ConcatProperties DEF Block
  <2>2. CASE i > m
    <3>1. i - m \in 1 .. n /\ (a \o b)[i] = b[i - m]
      BY <1>1, <2>2, ConcatProperties
    <3>2. pos + m + (i - m) = pos + i
      OBVIOUS
    <3>3. QED
      BY <3>1, <3>2 DEF Block
  <2>3. i <= m \/ i > m
    OBVIOUS
  <2>4. QED
    BY <2>1, <2>2, <2>3, Zenon
<1>4. QED
  BY <1>1, <1>2, <1>3, SeqEqual

(* The first bytes of a block are the shorter block. *)
LEMMA BlockPart == ASSUME NEW src \in Seq(Alphabet), NEW pos \in Nat, NEW n \in Nat, NEW k \in 0 .. n
                   PROVE  SubSeq(Block(src, pos, n), 1, k) = Block(src, pos, k)
<1> DEFINE a == Block(src, pos, n)
           b == Block(src, pos, k)
<1>1. /\ a \in Seq(Byte) /\ b \in Seq(Byte) /\ Len(a) = n /\ Len(b) = k
  BY BlockSeq
<1>2. SubSeq(a, 1, k) \in Seq(Byte) /\ Len(SubSeq(a, 1, k)) = k
  BY <1>1, SubSeqProperties
<1>3. ASSUME NEW i \in 1 .. k PROVE SubSeq(a, 1, k)[i] = b[i]
  BY <1>1 DEF Block
<1>4. QED
  BY <1>1, <1>2, <1>3, SeqEqual
=============================================================================
