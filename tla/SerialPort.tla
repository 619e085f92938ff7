----------------------------- MODULE SerialPort -----------------------------
(***************************************************************************)
(* The life of serial port handles: serial_init, serial_snd, serial_rcv,   *)
(* serial_flush and serial_close over the primitives of Windows, DOS,      *)
(* HDMI2USB and the test port.  Calls to the operating system fail         *)
(* whenever they can.  A program has one variable for each port number,    *)
(* NULL at first, and calls serial_init with it whatever it holds, as the  *)
(* unit tests do after a serial_close that failed; on DOS it uses one port *)
(* at a time (serial.h:31-33).                                             *)
(* Data, baud rates and the time-outs that a read sets in the driver and   *)
(* takes back are left out.                                                *)
(***************************************************************************)
EXTENDS Integers

CONSTANTS
    Platforms,      \* among "windows", "dos", "hdmi2usb" and "test"
    PortNos         \* the port numbers a program asks for

ASSUME PortAssumption ==
    /\ Platforms \subseteq {"windows", "dos", "hdmi2usb", "test"}
    /\ PortNos \subseteq Nat

VARIABLES
    platform,
    alive,          \* the program has not crashed
    handle,         \* the program's variables: NULL, or the port's handle
    acquired,       \* UARTs that the system holds for the program
    ready,          \* UARTs that are initialised
    last            \* the last call and its result

vars == <<platform, alive, handle, acquired, ready, last>>

(* The handle of port p is written p: a file handle, an I/O address, the   *)
(* base of the UART or a pointer into port_model.                          *)
NULL == -1
INVALID == -2       \* INVALID_HANDLE_VALUE of Windows

handle_valid(h) ==
    CASE platform = "windows"  -> h # INVALID
      [] platform = "dos"      -> h \in 1 .. 4
      [] platform = "hdmi2usb" -> h = 0
      [] platform = "test"     -> h \in 0 .. 2

(* What open_handle can return.  Windows opens a port for one handle only. *)
open_handle(p) ==
    CASE platform = "windows"  -> {INVALID} \cup ({p} \ acquired)
      [] platform = "dos"      -> IF p \in 1 .. 4 THEN {p} ELSE {NULL}
      [] platform = "hdmi2usb" -> IF p = 0 THEN {p} ELSE {NULL}
      [] platform = "test"     -> {p}

(* The UART behind a handle.  On DOS init_port looks for the numbers 1 to  *)
(* 4 in an I/O address, and falls back to COM1 for every port.             *)
Uart(p) == IF platform = "dos" THEN 1 ELSE p

(* The third port of the test has no lines, the primitives of HDMI2USB do  *)
(* not fail.                                                               *)
InitCanSucceed(p) == platform = "test" => p < 2
InitCanFail(p) == platform \in {"windows", "dos"} \/ (platform = "test" /\ p = 2)
WriteCanFail == platform # "hdmi2usb"
ReadCanFail == platform \in {"windows", "test"}    \* DOS: takes it for a timeout
FlushCanFail == platform \in {"windows", "test"}
CloseCanFail == platform # "hdmi2usb"

(* On Windows the system knows which handles are open; the other platforms *)
(* use the hardware whatever state the port is in.                         *)
IoCanSucceed(h) == handle_valid(h) /\ (platform = "windows" => h \in acquired)

(* Faulty variants of definitions below, for the mutation checks. *)
HandleKept(p) == p
HandleInvalid(p) == INVALID
HandleDropped(p) == NULL

(* What the program's variable holds afterwards. *)
HandleAfterBadInit(p) == NULL
HandleAfterClose(p) == NULL
HandleAfterBadClose(p) == handle[p]

Result(call, p, status) == last' = [call |-> call, port |-> p, status |-> status]

Init ==
    /\ platform \in Platforms
    /\ alive = TRUE
    /\ handle = [p \in PortNos |-> NULL]
    /\ acquired = {} /\ ready = {}
    /\ last = [call |-> "none", port |-> NULL, status |-> "SERIAL_NO_ERRORS"]

-----------------------------------------------------------------------------
MayInit(p) ==
    alive /\ (platform = "dos" => \A q \in PortNos \ {p} : handle[q] = NULL)

(* On Windows also when the program has the port open itself. *)
InitNoHandle(p) ==
    /\ MayInit(p)
    /\ \E h \in open_handle(p) : ~handle_valid(h)
    /\ handle' = [handle EXCEPT ![p] = HandleAfterBadInit(p)]
    /\ Result("init", p, "SERIAL_HW_ERROR")
    /\ UNCHANGED <<platform, alive, acquired, ready>>

InitDone(p) ==
    /\ MayInit(p)
    /\ p \in open_handle(p) /\ handle_valid(p) /\ InitCanSucceed(p)
    /\ handle' = [handle EXCEPT ![p] = p]
    /\ acquired' = acquired \cup {Uart(p)} /\ ready' = ready \cup {Uart(p)}
    /\ Result("init", p, "SERIAL_NO_ERRORS")
    /\ UNCHANGED <<platform, alive>>

(* The handle is forgotten but not closed.  Only on Windows open_handle    *)
(* has acquired something by then; on DOS a second comopen of COM1 may     *)
(* fail, with the first still in effect.                                   *)
InitPortFails(p) ==
    /\ MayInit(p)
    /\ p \in open_handle(p) /\ handle_valid(p) /\ InitCanFail(p)
    /\ handle' = [handle EXCEPT ![p] = HandleAfterBadInit(p)]
    /\ acquired' = acquired \cup (IF platform = "windows" THEN {p} ELSE {})
    /\ Result("init", p, "SERIAL_HW_ERROR")
    /\ UNCHANGED <<platform, alive, ready>>

(* When GetCommState fails, init_port passes the handle to serial_close,   *)
(* which takes it for the address of one: the program crashes, and the     *)
(* system takes back what it held.                                         *)
InitCrashes(p) ==
    /\ MayInit(p) /\ platform = "windows" /\ p \in open_handle(p)
    /\ alive' = FALSE
    /\ handle' = [q \in PortNos |-> NULL]
    /\ acquired' = {} /\ ready' = {}
    /\ UNCHANGED <<platform, last>>

(* The rest leave the port as it is. *)
Send(p) ==
    /\ alive
    /\ \/ IoCanSucceed(handle[p]) /\ Result("io", p, "SERIAL_NO_ERRORS")
       \/ (~IoCanSucceed(handle[p]) \/ WriteCanFail) /\ Result("io", p, "SERIAL_HW_ERROR")
    /\ UNCHANGED <<platform, alive, handle, acquired, ready>>

Receive(p) ==
    /\ alive
    /\ \/ IoCanSucceed(handle[p]) /\ Result("io", p, "SERIAL_NO_ERRORS")
       \/ IoCanSucceed(handle[p]) /\ Result("io", p, "SERIAL_TIMEOUT")
       \/ (~IoCanSucceed(handle[p]) \/ ReadCanFail) /\ Result("io", p, "SERIAL_HW_ERROR")
    /\ UNCHANGED <<platform, alive, handle, acquired, ready>>

Flush(p) ==
    /\ alive
    /\ \/ IoCanSucceed(handle[p]) /\ Result("io", p, "SERIAL_NO_ERRORS")
       \/ (~IoCanSucceed(handle[p]) \/ FlushCanFail) /\ Result("io", p, "SERIAL_HW_ERROR")
    /\ UNCHANGED <<platform, alive, handle, acquired, ready>>

CloseDone(p) ==
    /\ alive /\ IoCanSucceed(handle[p])
    /\ handle' = [handle EXCEPT ![p] = HandleAfterClose(p)]
    /\ acquired' = acquired \ {Uart(p)} /\ ready' = ready \ {Uart(p)}
    /\ Result("close", p, "SERIAL_NO_ERRORS")
    /\ UNCHANGED <<platform, alive>>

(* An invalid handle, or a failure of the flush or of close_handle, which  *)
(* leave the port open.                                                    *)
CloseFails(p) ==
    /\ alive /\ (~IoCanSucceed(handle[p]) \/ CloseCanFail)
    /\ handle' = [handle EXCEPT ![p] = HandleAfterBadClose(p)]
    /\ Result("close", p, "SERIAL_HW_ERROR")
    /\ UNCHANGED <<platform, alive, acquired, ready>>

Next == \E p \in PortNos :
    \/ InitNoHandle(p) \/ InitDone(p) \/ InitPortFails(p) \/ InitCrashes(p)
    \/ Send(p) \/ Receive(p) \/ Flush(p) \/ CloseDone(p) \/ CloseFails(p)

Spec == Init /\ [][Next]_vars

-----------------------------------------------------------------------------
(* UARTs that the system holds and no variable of the program can close. *)
lost == {u \in acquired : \A p \in PortNos : handle[p] = NULL \/ Uart(p) # u}

TypeOK ==
    /\ platform \in Platforms /\ alive \in BOOLEAN
    /\ handle \in [PortNos -> PortNos \cup {NULL}]
    /\ ready \subseteq acquired

(* A handle that the program holds is valid, and is the only one for a     *)
(* UART that is acquired and initialised: through failures of serial_init  *)
(* and serial_close, tries to open a port again and uses of other ports.   *)
HandleOwnsUart ==
    \A p \in PortNos : handle[p] # NULL =>
        /\ handle_valid(handle[p]) /\ Uart(p) \in acquired \cap ready
        /\ \A q \in PortNos : handle[q] # NULL /\ Uart(q) = Uart(p) => q = p

(* A UART is lost only by a serial_init for its own port that fails: on    *)
(* Windows in init_port, or because the program has the port open already; *)
(* on DOS only for the second reason.  A serial_close that fails loses     *)
(* nothing by itself.                                                      *)
OnlyFailedInitLoses ==
    [][\A u \in lost' \ lost :
          /\ last'.call = "init" /\ last'.status = "SERIAL_HW_ERROR"
          /\ u = Uart(last'.port)
          /\ platform = "windows" \/ (platform = "dos" /\ handle[last'.port] # NULL)]_vars

(* serial_snd, serial_rcv, serial_flush and serial_close succeed only on a *)
(* port that is initialised and not closed since: on DOS the primitives    *)
(* use COM1 whatever handle they are given, and only the test of it keeps  *)
(* the variable of a closed port away from them.                           *)
SuccessNeedsOpenPort ==
    [][last' # last /\ last'.call \in {"io", "close"} /\ last'.status = "SERIAL_NO_ERRORS"
        => Uart(last'.port) \in ready]_vars
=============================================================================
