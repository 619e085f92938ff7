----------------------------- MODULE MCXmodemRx -----------------------------
(* Instance of XmodemRx for TLC. *)
EXTENDS XmodemRx, SequencesExt

MCAlphabet == {CPMEOF, 101, 102}

(* generate_chksum; for the CRC two bytes that tell the payloads apart. *)
MCChksum(d) == FoldSeq(LAMBDA x, y : x + y, 0, d) % 256
MCCrc(d) == <<(7 * MCChksum(d) + 13) % 256, (MCChksum(d) + 3 * Head(d)) % 256>>

(* Good packets of each kind, one with a bad check, one with a bad block   *)
(* number, a truncated one, single control bytes and junk.                 *)
Data == <<101>>
KData == <<101, 102>>
MCPeerMsgs ==
    {Packet("XMODEM", b, Data) : b \in {1, 2}}
    \cup {Packet("XMODEM_CRC", b, Data) : b \in {1, 2}}
    \cup {Packet("XMODEM_1K", b, KData) : b \in {1, 2}}
    \cup {ReplaceAt(Packet("XMODEM_CRC", 1, Data), 4, 102),
          ReplaceAt(Packet("XMODEM", 1, Data), 2, 7),
          <<SOH, 1>>, <<EOT>>, <<7>>}
=============================================================================
