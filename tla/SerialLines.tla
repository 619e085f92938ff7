---------------------------- MODULE SerialLines ----------------------------
(***************************************************************************)
(* The two directions of the serial connection.  A line holds what the     *)
(* port of the sender took over and the program of the reader has not read *)
(* yet: bytes on the wire and bytes in the receive buffer are not told     *)
(* apart, and their order is kept.                                         *)
(***************************************************************************)
EXTENDS Modem

CONSTANT LineLimit      \* the peers of TxSpec and RxSpec stop sending here

ASSUME LineAssumption == LineLimit \in Nat

VARIABLES
    fwd,    \* from the transmitter to the receiver, oldest byte first
    bwd     \* from the receiver to the transmitter

lines == <<fwd, bwd>>

LinesInit == fwd = << >> /\ bwd = << >>

LinesTypeOK == fwd \in Seq(Byte) /\ bwd \in Seq(Byte)

(* What can be left of a line when n of its first bytes are taken off it. *)
Without(line, n) == SubSeq(line, n + 1, Len(line))

(* serial_flush discards the bytes that have arrived.  Those still on the  *)
(* wire survive it, and so do all of them if the flush fails: the callers  *)
(* ignore its result.                                                      *)
Flushed(line) == {Without(line, n) : n \in 0 .. Len(line)}
=============================================================================
