-------------------------- MODULE MCXmodemSession --------------------------
(* Instances of XmodemSession for TLC. *)
EXTENDS XmodemSession

MCAlphabet == {CPMEOF} \cup 101 .. 112

(* generate_chksum; for the CRC two bytes that tell the payloads apart. *)
MCChksum(d) == FoldSeq(LAMBDA x, y : x + y, 0, d) % 256
MCCrc(d) == <<(7 * MCChksum(d) + 13) % 256, (MCChksum(d) + 3 * Head(d)) % 256>>

Data(n) == [i \in 1 .. n |-> 100 + i]

(* The check codes of the instance notice a changed byte. *)
ASSUME ChangesDetected == "change" \in FaultKinds => DetectsChanges(1)

(* An instance with Prompt, spared headers and replies and a single fault  *)
(* is one of those that the theorems are about.                            *)
ASSUME InstanceIsFair ==
    Prompt /\ Spared = {"header", "replies"} /\ MaxFaults = 1 => FairLine

(* The pairs of modes that can work together, and single ones. *)
SameModes == {<<m, m>> : m \in Modes}
CompatiblePairs == SameModes \cup {<<"XMODEM", "XMODEM_CRC">>, <<"XMODEM_CRC", "XMODEM_1K">>}
BothXmodem == {<<"XMODEM", "XMODEM">>}
BothCrc    == {<<"XMODEM_CRC", "XMODEM_CRC">>}

(* One byte short of the end of a block, at the end, and many packets. *)
MCSources == {Data(n) : n \in {0, 3, 4, 7, 11}}

(* No data, data that ends with a block, and four short packets. *)
ShortSources == {Data(n) : n \in {0, 4, 7}}
=============================================================================
