---------------------------- MODULE FileTransfer ----------------------------
(***************************************************************************)
(* What a transfer promises its two callers, without packets, lines and    *)
(* retries.  The data reaches the sink block by block and in order, the    *)
(* next block only after the last one is confirmed, and each end comes to  *)
(* a result once.  Only one thing may go wrong: a call may fail.           *)
(***************************************************************************)
EXTENDS Integers, Sequences

CONSTANTS
    Sources,        \* the data a transfer may be asked to send
    Pad,            \* fills the last block
    MaxBlock        \* largest block

VARIABLES
    source,         \* what the caller of the transmitter sends
    got,            \* what the caller of the receiver has got
    confirmed,      \* how much of it the transmitter knows to be there
    txResult, rxResult      \* "none", then "ok" or "failed"

transfer == <<source, got, confirmed, txResult, rxResult>>

(* The first len bytes of the data and of the padding that follows it. *)
Padded(len) == [i \in 1 .. len |-> IF i <= Len(source) THEN source[i] ELSE Pad]

Init ==
    /\ source \in Sources
    /\ got = << >> /\ confirmed = 0
    /\ txResult = "none" /\ rxResult = "none"

(* The sink gets more of the data: all that it got before is confirmed,    *)
(* and the end of the data is not reached yet.                             *)
Grow ==
    /\ confirmed = Len(got) /\ Len(got) <= Len(source)
    /\ \E len \in Len(got) + 1 .. Len(got) + MaxBlock : got' = Padded(len)

Deliver == rxResult = "none" /\ Grow /\ UNCHANGED <<source, confirmed, txResult, rxResult>>

Confirm ==
    /\ txResult = "none" /\ confirmed < Len(got)
    /\ confirmed' = Len(got)
    /\ UNCHANGED <<source, got, txResult, rxResult>>

(* The receiver's end; the last block may be stored in part only. *)
ReceiverEnds ==
    /\ rxResult = "none"
    /\ \/ rxResult' \in {"ok", "failed"} /\ UNCHANGED got
       \/ rxResult' = "failed" /\ Grow
    /\ UNCHANGED <<source, confirmed, txResult>>

(* The transmitter reports success last, and only if all has arrived. *)
SenderEnds ==
    /\ txResult = "none"
    /\ \/ txResult' = "failed"
       \/ txResult' = "ok" /\ rxResult = "ok" /\ Len(source) < confirmed
    /\ UNCHANGED <<source, got, confirmed, rxResult>>

Next == Deliver \/ Confirm \/ ReceiverEnds \/ SenderEnds

Spec == Init /\ [][Next]_transfer
=============================================================================
