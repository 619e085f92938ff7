---------------------------- MODULE MCSerialPort ----------------------------
(* An instance of SerialPort for TLC. *)
EXTENDS SerialPort

AllPlatforms == {"windows", "dos", "hdmi2usb", "test"}
=============================================================================
