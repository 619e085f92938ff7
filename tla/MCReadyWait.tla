---------------------------- MODULE MCReadyWait ----------------------------
(* Instances of ReadyWait for TLC. *)
EXTENDS ReadyWait

AllPlatforms == {"ansi", "windows", "hdmi2usb"}
MCUintSize == 2^24

ASSUME InstanceFits == NoOverflow
=============================================================================
