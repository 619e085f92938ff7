------------------------------- MODULE Modem -------------------------------
(***************************************************************************)
(* What the XMODEM transmitter and receiver share (modem.h and the helpers *)
(* of xmodem.c): control codes, transfer modes, status codes, the layout   *)
(* of a packet and the mapping of serial status codes.                     *)
(*                                                                         *)
(* Lengths are parameters: BlockLen is 128 and KBlockLen 1024 in the code, *)
(* NumBlockNos is 256 (block numbers are unsigned char).  The checksum and *)
(* the CRC are operators of which only the range matters here.             *)
(***************************************************************************)
EXTENDS Integers, Sequences

CONSTANTS
    BlockLen,       \* payload of a packet that starts with SOH
    KBlockLen,      \* payload of a packet that starts with STX
    NumBlockNos,    \* number of values of the block number byte
    Alphabet,       \* bytes that occur in the data to send
    Chksum(_),      \* generate_chksum of a payload
    Crc(_)          \* generate_crc of a payload, as <<high byte, low byte>>

Byte == 0 .. 255

NUL     == 0
SOH     == 1
STX     == 2
EOT     == 4
ACK     == 6
NAK     == 21
CAN     == 24
CPMEOF  == 26
ASCII_C == 67

Modes == {"XMODEM", "XMODEM_CRC", "XMODEM_1K"}

ModemErrors == {"MODEM_NO_ERRORS", "BAD_CRC_CHKSUM", "SENT_CAN", "PACKET_MISMATCH",
                "CHANNEL_ERROR", "UNDEFINED_ERROR", "MODEM_HW_ERROR", "MODEM_TIMEOUT"}

SerialToModemError ==
    [SERIAL_NO_ERRORS |-> "MODEM_NO_ERRORS",
     SERIAL_TIMEOUT   |-> "MODEM_TIMEOUT",
     SERIAL_HW_ERROR  |-> "MODEM_HW_ERROR"]

Payloads == [1 .. BlockLen -> Alphabet] \cup [1 .. KBlockLen -> Alphabet]

ASSUME LengthAssumption ==
    /\ BlockLen \in Nat \ {0}
    /\ KBlockLen \in Nat
    /\ BlockLen <= KBlockLen
    /\ NumBlockNos \in 2 .. 256

ASSUME DataAssumption ==
    /\ Alphabet \subseteq Byte
    /\ CPMEOF \in Alphabet
    /\ \A d \in Payloads : Chksum(d) \in Byte /\ Crc(d) \in Byte \X Byte

(* Layout of a packet: enum offset_names, in bytes from its start. *)
DATA == 3
BlockSize(mode) == IF mode = "XMODEM_1K" THEN KBlockLen ELSE BlockLen
CheckSize(mode) == IF mode = "XMODEM" THEN 1 ELSE 2
StartChar(mode) == IF mode = "XMODEM_1K" THEN STX ELSE SOH
Complement(blk) == NumBlockNos - 1 - blk

CheckBytes(mode, data) == IF mode = "XMODEM" THEN <<Chksum(data)>> ELSE Crc(data)

Packet(mode, blk, data) ==
    <<StartChar(mode), blk, Complement(blk)>> \o data \o CheckBytes(mode, data)

(* The len bytes of src after the first pos, padded as pad_buffer does. *)
Block(src, pos, len) ==
    [i \in 1 .. len |-> IF pos + i <= Len(src) THEN src[pos + i] ELSE CPMEOF]
=============================================================================
