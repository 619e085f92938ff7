----------------------------- MODULE CheckCodes -----------------------------
(***************************************************************************)
(* generate_chksum and generate_crc at the two ends of a packet: the       *)
(* transmitter runs them over the payload it sends, the receiver over what *)
(* arrives.  Transmit is one turn of their loops at both ends.             *)
(*                                                                         *)
(* A register is the set of the positions of its bits that are 1, an octet *)
(* is a subset of 0 .. 7.  The variable crc of generate_crc is an unsigned *)
(* int, of 16 bits on DOS and of 32 on Windows and HDMI2USB; its result is *)
(* an unsigned short.  Each end is built for a width of its own.           *)
(***************************************************************************)
EXTENDS Integers, FiniteSets

CONSTANTS
    Widths,         \* widths of unsigned int among the two ends
    Octets,         \* octets that occur in payloads
    Damages,        \* bits of an octet that the line may invert together
    MaxLen          \* bound on the length of a payload

ASSUME CodeAssumption ==
    /\ \A w \in Widths : w \in Nat /\ w >= 16
    /\ Octets \subseteq SUBSET (0 .. 7) /\ Damages \subseteq SUBSET (0 .. 7)
    /\ MaxLen \in Nat

VARIABLES
    txWidth, rxWidth,   \* bits of an unsigned int at either end
    mode,           \* "sum" for XMODEM, "crc" for the other modes
    phase,          \* "data", "low" (CRC half sent) and "end"
    len,            \* octets sent
    txSum, rxSum,   \* chksum
    txCrc, rxCrc,   \* crc
    rxCheck,        \* the checksum that arrived
    hits            \* history: positions of the octets damaged on the way

vars == <<txWidth, rxWidth, mode, phase, len, txSum, rxSum, txCrc, rxCrc, rxCheck, hits>>

Xor(a, b) == (a \ b) \cup (b \ a)

Poly == {0, 5, 12}      \* 0x1021

(* A shift to the left in a register of w bits. *)
Shl(reg, w) == {i \in 1 .. w - 1 : i - 1 \in reg}

(* Faulty variants of definitions below, for the mutation checks. *)
TurnUntested(reg, w) == Shl(reg, w)
TurnTopBit(reg, w) == IF w - 1 \in reg THEN Xor(Shl(reg, w), Poly) ELSE Shl(reg, w)

(* One turn of the loop over the bits of an octet. *)
Turn(reg, w) == IF 15 \in reg THEN Xor(Shl(reg, w), Poly) ELSE Shl(reg, w)

TwoTurns(reg, w) == Turn(Turn(reg, w), w)
FourTurns(reg, w) == TwoTurns(TwoTurns(reg, w), w)
EightTurns(reg, w) == FourTurns(FourTurns(reg, w), w)

(* One turn of the loop over the octets: o enters at bits 8 to 15. *)
Raised(o) == {i \in 8 .. 15 : i - 8 \in o}
Feed(reg, o, w) == EightTurns(Xor(reg, Raised(o)), w)

(* What generate_crc returns, an unsigned short, and its two octets.       *)
Code(reg) == reg \cap 0 .. 15
High(reg) == {i \in 0 .. 7 : i + 8 \in reg}
Low(reg)  == reg \cap 0 .. 7

(* An octet as a number, and back. *)
Bit(o, i) == IF i \in o THEN 1 ELSE 0
Nibble(o, i) == Bit(o, i) + 2 * Bit(o, i + 1) + 4 * Bit(o, i + 2) + 8 * Bit(o, i + 3)
Value(o) == Nibble(o, 0) + 16 * Nibble(o, 4)
OctetOf(n) == CHOOSE o \in SUBSET (0 .. 7) : Value(o) = n

(* Faulty variants of AddTo, for the mutation checks. *)
SumUnwrapped(sum, o) == sum + Value(o)
SumInSevenBits(sum, o) == (sum + Value(o)) % 128

AddTo(sum, o) == (sum + Value(o)) % 256

Init ==
    /\ txWidth \in Widths /\ rxWidth \in Widths
    /\ mode \in {"sum", "crc"} /\ phase = "data"
    /\ len = 0 /\ txSum = 0 /\ rxSum = 0 /\ rxCheck = 0
    /\ txCrc = {} /\ rxCrc = {} /\ hits = {}

Hit(damage) ==
    /\ len' = len + 1
    /\ hits' = IF damage = {} THEN hits ELSE hits \cup {len'}
    /\ UNCHANGED <<txWidth, rxWidth, mode>>

(* An octet of the payload, and what arrives of it. *)
Transmit(o, damage) ==
    /\ phase = "data" /\ len < MaxLen
    /\ txSum' = AddTo(txSum, o) /\ rxSum' = AddTo(rxSum, Xor(o, damage))
    /\ txCrc' = Feed(txCrc, o, txWidth) /\ rxCrc' = Feed(rxCrc, Xor(o, damage), rxWidth)
    /\ Hit(damage)
    /\ UNCHANGED <<phase, rxCheck>>

SendSum(damage) ==
    /\ mode = "sum" /\ phase = "data"
    /\ rxCheck' = Value(Xor(OctetOf(txSum), damage))
    /\ phase' = "end"
    /\ Hit(damage)
    /\ UNCHANGED <<txSum, rxSum, txCrc, rxCrc>>

(* The CRC, high octet first; the receiver's loop goes on over it. *)
SendHigh(damage) ==
    /\ mode = "crc" /\ phase = "data"
    /\ rxCrc' = Feed(rxCrc, Xor(High(Code(txCrc)), damage), rxWidth)
    /\ phase' = "low"
    /\ Hit(damage)
    /\ UNCHANGED <<txSum, rxSum, txCrc, rxCheck>>

SendLow(damage) ==
    /\ phase = "low"
    /\ rxCrc' = Feed(rxCrc, Xor(Low(Code(txCrc)), damage), rxWidth)
    /\ phase' = "end"
    /\ Hit(damage)
    /\ UNCHANGED <<txSum, rxSum, txCrc, rxCheck>>

Next == \E damage \in Damages :
    \/ \E o \in Octets : Transmit(o, damage)
    \/ SendSum(damage) \/ SendHigh(damage) \/ SendLow(damage)

Spec == Init /\ [][Next]_vars

(* The receiver's test of the packet. *)
Accepted == IF mode = "sum" THEN rxSum = rxCheck ELSE Code(rxCrc) = {}

-----------------------------------------------------------------------------
TypeOK ==
    /\ mode \in {"sum", "crc"} /\ phase \in {"data", "low", "end"}
    /\ len \in Nat /\ hits \subseteq 1 .. len
    /\ {txSum, rxSum, rxCheck} \subseteq 0 .. 255
    /\ {txWidth, rxWidth} \subseteq Widths
    /\ txCrc \subseteq 0 .. txWidth - 1 /\ rxCrc \subseteq 0 .. rxWidth - 1

(* A packet that arrives as it was sent passes the receiver's CRC test,    *)
(* whatever the widths of int at the two ends: what a wide end has shifted *)
(* beyond bit 15 decides nothing, neither in the loop, which tests bit 15  *)
(* and not the top bit, nor in the receiver's test for 0, which comes      *)
(* after the conversion to unsigned short (generate_crc).                  *)
IntactAccepted == mode = "crc" /\ phase = "end" /\ hits = {} => Accepted

Adjacent(positions) == \A i, j \in positions : j <= i + 1

(* Damage within two adjacent octets, the octets of the CRC included, is   *)
(* noticed by the CRC, whatever the payload is and whichever bits it hits. *)
BurstDetected ==
    mode = "crc" /\ phase = "end" /\ hits # {} /\ Adjacent(hits) => ~Accepted

(* With at most one damaged octet, the checksum included, the checksum     *)
(* test tells whether there is one.                                        *)
ChecksumTest ==
    mode = "sum" /\ phase = "end" /\ Cardinality(hits) <= 1 => (Accepted <=> hits = {})
=============================================================================
