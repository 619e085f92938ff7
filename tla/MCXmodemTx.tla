----------------------------- MODULE MCXmodemTx -----------------------------
(* Instance of XmodemTx for TLC. *)
EXTENDS XmodemTx, SequencesExt

MCAlphabet == {CPMEOF} \cup 101 .. 110

(* generate_chksum; for the CRC two bytes that tell the payloads apart. *)
MCChksum(d) == FoldSeq(LAMBDA x, y : x + y, 0, d) % 256
MCCrc(d) == <<(7 * MCChksum(d) + 13) % 256, (MCChksum(d) + 3 * Head(d)) % 256>>

MCSources == {[i \in 1 .. n |-> 100 + i] : n \in 0 .. 10}
=============================================================================
