---------------------------- MODULE MCCheckCodes ----------------------------
(* An instance of CheckCodes for TLC. *)
EXTENDS CheckCodes

(* NUL, 0xFF, the letter C, and 0x11, whose feedback overlaps itself. *)
MCOctets == {{}, 0 .. 7, {0, 1, 6}, {0, 4}}

(* Nothing, the lowest or highest bit, both, all bits. *)
MCDamages == {{}, {0}, {7}, {0, 7}, 0 .. 7}
=============================================================================
