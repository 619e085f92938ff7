------------------------- MODULE SerialPort_proofs -------------------------
(***************************************************************************)
(* Proofs about SerialPort: what the program's variables hold is open and  *)
(* its own, and how a UART can come to be held by no variable.             *)
(***************************************************************************)
EXTENDS SerialPort, TLAPS

Usable(p) == handle_valid(p) /\ InitCanSucceed(p)

(* A held handle is the one of its port, which can be initialised, and its *)
(* UART is.                                                                *)
HeldInitialised ==
    \A p \in PortNos : handle[p] # NULL =>
        handle[p] = p /\ Usable(p) /\ Uart(p) \in acquired \cap ready

(* DOS shares COM1 among all port numbers, so one at a time may be held. *)
HeldAlone ==
    \A p, q \in PortNos :
        handle[p] # NULL /\ handle[q] # NULL /\ Uart(p) = Uart(q) => p = q

PortInv == TypeOK /\ HeldInitialised /\ HeldAlone /\ acquired \subseteq Nat

LEMMA UartNat ==
    ASSUME NEW p \in PortNos
    PROVE  Uart(p) \in Nat /\ (platform # "dos" => Uart(p) = p)
BY PortAssumption DEF Uart

LEMMA InitInv == Init => PortInv
BY DEF Init, PortInv, TypeOK, HeldInitialised, HeldAlone

(* Steps that leave the ports as they are. *)
LEMMA SameInv ==
    ASSUME PortInv, UNCHANGED <<platform, alive, handle, acquired, ready>>
    PROVE  PortInv'
<1>1. \A q \in PortNos : Uart(q)' = Uart(q) /\ Usable(q)' = Usable(q)
  BY DEF Uart, Usable, handle_valid, InitCanSucceed
<1> QED
  BY <1>1 DEF PortInv, TypeOK, HeldInitialised, HeldAlone

(* A variable that becomes NULL holds nothing any more, the others hold    *)
(* what they held.                                                         *)
LEMMA DropInv ==
    ASSUME PortInv, NEW p \in PortNos, handle' = [handle EXCEPT ![p] = NULL],
           UNCHANGED <<platform, alive, ready>>,
           acquired \subseteq acquired', acquired' \subseteq Nat
    PROVE  PortInv'
<1>1. \A q \in PortNos : handle'[q] # NULL => handle'[q] = handle[q] /\ handle[q] # NULL
  BY DEF PortInv, TypeOK
<1>2. \A q \in PortNos : Uart(q)' = Uart(q) /\ Usable(q)' = Usable(q)
  BY DEF Uart, Usable, handle_valid, InitCanSucceed
<1>3. TypeOK'
  BY DEF PortInv, TypeOK
<1>4. HeldInitialised'
  BY <1>1, <1>2 DEF PortInv, HeldInitialised
<1>5. HeldAlone'
  BY <1>1, <1>2 DEF PortInv, HeldAlone
<1> QED
  BY <1>3, <1>4, <1>5 DEF PortInv

LEMMA InitNoHandleInv ==
    ASSUME PortInv, NEW p \in PortNos, InitNoHandle(p) PROVE PortInv'
BY DropInv DEF InitNoHandle, HandleAfterBadInit, PortInv

(* A port that is opened joins those that are held. *)
LEMMA InitDoneInv ==
    ASSUME PortInv, NEW p \in PortNos, InitDone(p) PROVE PortInv'
<1>1. /\ handle \in [PortNos -> PortNos \cup {NULL}]
      /\ handle' = [handle EXCEPT ![p] = p]
      /\ acquired' = acquired \cup {Uart(p)} /\ ready' = ready \cup {Uart(p)}
      /\ UNCHANGED <<platform, alive>>
      /\ Usable(p)
  BY DEF InitDone, PortInv, TypeOK, Usable
<1>2. handle'[p] = p /\ \A q \in PortNos : q # p => handle'[q] = handle[q]
  BY <1>1
<1>3. \A q \in PortNos : Uart(q)' = Uart(q) /\ Usable(q)' = Usable(q)
  BY <1>1 DEF Uart, Usable, handle_valid, InitCanSucceed
<1>4. \A q \in PortNos : q # p /\ handle[q] # NULL => Uart(q) # Uart(p)
  <2>1. CASE platform = "dos"
    BY <2>1 DEF InitDone, MayInit
  <2>2. CASE platform # "dos"
    BY <2>2, UartNat
  <2> QED
    BY <2>1, <2>2
<1>5. TypeOK'
  BY <1>1 DEF PortInv, TypeOK
<1>6. HeldInitialised'
  BY <1>1, <1>2, <1>3 DEF PortInv, HeldInitialised
<1>7. HeldAlone'
  BY <1>2, <1>3, <1>4 DEF PortInv, HeldAlone
<1>8. acquired' \subseteq Nat
  BY <1>1, UartNat DEF PortInv
<1> QED
  BY <1>5, <1>6, <1>7, <1>8 DEF PortInv

LEMMA InitPortFailsInv ==
    ASSUME PortInv, NEW p \in PortNos, InitPortFails(p) PROVE PortInv'
<1>1. acquired \subseteq acquired' /\ acquired' \subseteq Nat
  BY PortAssumption DEF InitPortFails, PortInv
<1> QED
  BY <1>1, DropInv DEF InitPortFails, HandleAfterBadInit

LEMMA InitCrashesInv ==
    ASSUME PortInv, NEW p \in PortNos, InitCrashes(p) PROVE PortInv'
BY DEF InitCrashes, PortInv, TypeOK, HeldInitialised, HeldAlone

(* A call that can succeed has a handle, and its UART is initialised. *)
LEMMA SuccessHasUart ==
    ASSUME PortInv, NEW p \in PortNos, IoCanSucceed(handle[p])
    PROVE  handle[p] # NULL /\ Uart(p) \in ready
<1>1. handle[p] # NULL
  <2>1. NULL \notin acquired /\ NULL \notin 0 .. 4
    BY DEF PortInv, NULL
  <2>2. platform \in {"windows", "dos", "hdmi2usb", "test"}
    BY PortAssumption DEF PortInv, TypeOK
  <2>3. CASE platform = "windows"
    BY <2>1, <2>3 DEF IoCanSucceed
  <2>4. CASE platform = "dos"
    BY <2>1, <2>4 DEF IoCanSucceed, handle_valid
  <2>5. CASE platform = "hdmi2usb"
    BY <2>1, <2>5 DEF IoCanSucceed, handle_valid
  <2>6. CASE platform = "test"
    BY <2>1, <2>6 DEF IoCanSucceed, handle_valid
  <2> QED
    BY <2>2, <2>3, <2>4, <2>5, <2>6
<1> QED
  BY <1>1 DEF PortInv, HeldInitialised

LEMMA CloseDoneInv ==
    ASSUME PortInv, NEW p \in PortNos, CloseDone(p) PROVE PortInv'
<1>1. /\ handle \in [PortNos -> PortNos \cup {NULL}]
      /\ handle' = [handle EXCEPT ![p] = NULL]
      /\ acquired' = acquired \ {Uart(p)} /\ ready' = ready \ {Uart(p)}
      /\ UNCHANGED <<platform, alive>>
  BY DEF CloseDone, PortInv, TypeOK, HandleAfterClose
<1>2. handle'[p] = NULL /\ \A q \in PortNos : q # p => handle'[q] = handle[q]
  BY <1>1
<1>3. \A q \in PortNos : Uart(q)' = Uart(q) /\ Usable(q)' = Usable(q)
  BY <1>1 DEF Uart, Usable, handle_valid, InitCanSucceed
<1>4. \A q \in PortNos : handle'[q] # NULL => handle[q] # NULL /\ Uart(q) # Uart(p)
  <2>1. handle[p] # NULL
    BY SuccessHasUart DEF CloseDone
  <2> QED
    BY <1>2, <2>1 DEF PortInv, HeldAlone
<1>5. TypeOK'
  BY <1>1 DEF PortInv, TypeOK
<1>6. HeldInitialised'
  <2> SUFFICES ASSUME NEW q \in PortNos, handle'[q] # NULL
               PROVE  /\ handle'[q] = q /\ Usable(q)'
                      /\ Uart(q)' \in acquired' \cap ready'
    BY DEF HeldInitialised
  <2>1. q # p /\ handle[q] # NULL /\ Uart(q) # Uart(p)
    BY <1>2, <1>4
  <2> QED
    BY <1>1, <1>2, <1>3, <2>1 DEF PortInv, HeldInitialised
<1>7. HeldAlone'
  BY <1>3, <1>4 DEF PortInv, HeldAlone
<1> QED
  BY <1>1, <1>5, <1>6, <1>7 DEF PortInv

LEMMA CloseFailsInv ==
    ASSUME PortInv, NEW p \in PortNos, CloseFails(p) PROVE PortInv'
<1>1. handle' = handle
  BY DEF CloseFails, HandleAfterBadClose, PortInv, TypeOK
<1> QED
  BY <1>1, SameInv DEF CloseFails

LEMMA NextInv == ASSUME PortInv, [Next]_vars PROVE PortInv'
<1>1. CASE UNCHANGED vars
  BY <1>1, SameInv DEF vars
<1>2. CASE Next
  <2> PICK p \in PortNos :
        \/ InitNoHandle(p) \/ InitDone(p) \/ InitPortFails(p) \/ InitCrashes(p)
        \/ Send(p) \/ Receive(p) \/ Flush(p) \/ CloseDone(p) \/ CloseFails(p)
    BY <1>2 DEF Next
  <2>1. CASE Send(p) \/ Receive(p) \/ Flush(p)
    BY <2>1, SameInv DEF Send, Receive, Flush
  <2> QED
    BY <2>1, InitNoHandleInv, InitDoneInv, InitPortFailsInv, InitCrashesInv,
       CloseDoneInv, CloseFailsInv
<1> QED
  BY <1>1, <1>2

LEMMA InvHolds == Spec => []PortInv
<1>1. Init => PortInv
  BY InitInv
<1>2. PortInv /\ [Next]_vars => PortInv'
  BY NextInv
<1> QED
  BY <1>1, <1>2, PTL DEF Spec

(* The variables of SerialPort keep their types, and what is initialised   *)
(* is acquired.                                                            *)
THEOREM PortTyped == Spec => []TypeOK
BY InvHolds, PTL DEF PortInv

(* A handle of the program stands for an open UART that no other handle    *)
(* stands for, whatever fails in serial_init and serial_close.             *)
THEOREM HandlesOwn == Spec => []HandleOwnsUart
<1>1. PortInv => HandleOwnsUart
  BY DEF PortInv, HeldInitialised, HeldAlone, Usable, HandleOwnsUart
<1> QED
  BY <1>1, InvHolds, PTL

-----------------------------------------------------------------------------
(* Steps that keep the handles and the UARTs of the system lose nothing. *)
LEMMA SameLost ==
    ASSUME UNCHANGED <<platform, handle, acquired>>
    PROVE  lost' = lost
BY DEF lost, Uart

(* A serial_init that fails can only lose the UART of its port. *)
LEMMA InitFailsLoses ==
    ASSUME PortInv, NEW p \in PortNos, InitNoHandle(p) \/ InitPortFails(p),
           NEW u \in lost' \ lost
    PROVE  /\ u = Uart(p)
           /\ platform = "windows" \/ (platform = "dos" /\ handle[p] # NULL)
<1>1. /\ handle' = [handle EXCEPT ![p] = NULL] /\ platform' = platform
      /\ platform # "windows" => acquired' = acquired
      /\ acquired' \subseteq acquired \cup {p}
  BY DEF InitNoHandle, InitPortFails, HandleAfterBadInit
<1>2. \A q \in PortNos : Uart(q)' = Uart(q) /\ (q # p => handle'[q] = handle[q])
  BY <1>1 DEF Uart, PortInv, TypeOK
<1>3. u \in acquired' /\ \A q \in PortNos : handle'[q] = NULL \/ Uart(q) # u
  BY <1>2 DEF lost
<1>4. CASE u \in acquired
  <2>1. PICK q \in PortNos : handle[q] # NULL /\ Uart(q) = u
    BY <1>4 DEF lost
  <2>2. q = p
    BY <1>2, <1>3, <2>1
  <2>3. platform \notin {"hdmi2usb", "test"}
    <3>1. handle_valid(p) /\ InitCanSucceed(p)
      BY <2>1, <2>2 DEF PortInv, HeldInitialised, Usable
    <3>2. CASE platform = "hdmi2usb"
      BY <3>1, <3>2 DEF handle_valid, InitNoHandle, InitPortFails, InitCanFail, open_handle
    <3>3. CASE platform = "test"
      <4>1. p # 2
        BY <3>1, <3>3 DEF InitCanSucceed
      <4> QED
        BY <3>1, <3>3, <4>1 DEF handle_valid, InitNoHandle, InitPortFails, InitCanFail,
           open_handle
    <3> QED
      BY <3>2, <3>3
  <2> QED
    BY <2>1, <2>2, <2>3, PortAssumption DEF PortInv, TypeOK
<1>5. CASE u \notin acquired
  BY <1>1, <1>3, <1>5, UartNat
<1> QED
  BY <1>4, <1>5

(* A UART that no variable can close any more was lost by a serial_init    *)
(* that failed for its port: on Windows, or on DOS with the port open.  A  *)
(* serial_close that fails loses nothing by itself.                        *)
THEOREM LossExplained == Spec => OnlyFailedInitLoses
<1> DEFINE Good == \A u \in lost' \ lost :
      /\ last'.call = "init" /\ last'.status = "SERIAL_HW_ERROR"
      /\ u = Uart(last'.port)
      /\ platform = "windows" \/ (platform = "dos" /\ handle[last'.port] # NULL)
<1>1. ASSUME PortInv, [Next]_vars PROVE Good
  <2>1. CASE UNCHANGED vars
    BY <2>1, SameLost DEF vars
  <2>2. CASE Next
    <3> PICK p \in PortNos :
          \/ InitNoHandle(p) \/ InitDone(p) \/ InitPortFails(p) \/ InitCrashes(p)
          \/ Send(p) \/ Receive(p) \/ Flush(p) \/ CloseDone(p) \/ CloseFails(p)
      BY <2>2 DEF Next
    <3>1. CASE InitNoHandle(p) \/ InitPortFails(p)
      <4>1. last' = [call |-> "init", port |-> p, status |-> "SERIAL_HW_ERROR"]
        BY <3>1 DEF InitNoHandle, InitPortFails, Result
      <4> QED
        BY <1>1, <3>1, <4>1, InitFailsLoses
    <3>2. CASE InitDone(p)
      <4>1. /\ handle' = [handle EXCEPT ![p] = p] /\ platform' = platform
            /\ acquired' = acquired \cup {Uart(p)} /\ p # NULL
        BY <3>2, PortAssumption DEF InitDone, NULL
      <4>2. \A q \in PortNos : Uart(q)' = Uart(q) /\ (handle'[q] = NULL => handle[q] = NULL)
        BY <1>1, <4>1 DEF Uart, PortInv, TypeOK
      <4>3. handle'[p] # NULL
        BY <1>1, <4>1 DEF PortInv, TypeOK
      <4> QED
        BY <4>1, <4>2, <4>3 DEF lost
    <3>3. CASE InitCrashes(p)
      BY <3>3 DEF InitCrashes, lost
    <3>4. CASE Send(p) \/ Receive(p) \/ Flush(p)
      BY <3>4, SameLost DEF Send, Receive, Flush
    <3>5. CASE CloseDone(p)
      <4>1. /\ handle' = [handle EXCEPT ![p] = NULL] /\ platform' = platform
            /\ acquired' = acquired \ {Uart(p)}
        BY <3>5 DEF CloseDone, HandleAfterClose
      <4>2. \A q \in PortNos : Uart(q)' = Uart(q) /\ (q # p => handle'[q] = handle[q])
        BY <1>1, <4>1 DEF Uart, PortInv, TypeOK
      <4> QED
        BY <4>1, <4>2 DEF lost
    <3>6. CASE CloseFails(p)
      <4>1. handle' = handle
        BY <1>1, <3>6 DEF CloseFails, HandleAfterBadClose, PortInv, TypeOK
      <4> QED
        BY <3>6, <4>1, SameLost DEF CloseFails
    <3> QED
      BY <3>1, <3>2, <3>3, <3>4, <3>5, <3>6
  <2> QED
    BY <1>1, <2>1, <2>2
<1>2. []PortInv /\ [][Next]_vars => [][Good]_vars
  BY <1>1, PTL
<1> QED
  BY <1>2, InvHolds, PTL DEF Spec, OnlyFailedInitLoses

(* No call of the serial port API succeeds on a port that is not open.     *)
THEOREM SuccessOpen == Spec => SuccessNeedsOpenPort
<1> DEFINE Good ==
      last' # last /\ last'.call \in {"io", "close"} /\ last'.status = "SERIAL_NO_ERRORS"
      => Uart(last'.port) \in ready
<1>1. ASSUME PortInv, [Next]_vars PROVE Good
  <2>1. CASE UNCHANGED vars
    BY <2>1 DEF vars
  <2>2. CASE Next
    <3> PICK p \in PortNos :
          \/ InitNoHandle(p) \/ InitDone(p) \/ InitPortFails(p) \/ InitCrashes(p)
          \/ Send(p) \/ Receive(p) \/ Flush(p) \/ CloseDone(p) \/ CloseFails(p)
      BY <2>2 DEF Next
    <3>1. CASE InitNoHandle(p) \/ InitDone(p) \/ InitPortFails(p) \/ InitCrashes(p)
      BY <3>1 DEF InitNoHandle, InitDone, InitPortFails, InitCrashes, Result
    <3>2. CASE CloseFails(p)
      BY <3>2 DEF CloseFails, Result
    <3>3. CASE Send(p) \/ Receive(p) \/ Flush(p) \/ CloseDone(p)
      <4>1. CASE ~IoCanSucceed(handle[p])
        BY <3>3, <4>1 DEF Send, Receive, Flush, CloseDone, Result
      <4>2. CASE IoCanSucceed(handle[p])
        <5>1. Uart(p) \in ready
          BY <1>1, <4>2, SuccessHasUart
        <5>2. last'.port = p
          BY <3>3 DEF Send, Receive, Flush, CloseDone, Result
        <5> QED
          BY <5>1, <5>2
      <4> QED
        BY <4>1, <4>2
    <3> QED
      BY <3>1, <3>2, <3>3
  <2> QED
    BY <1>1, <2>1, <2>2
<1>2. []PortInv /\ [][Next]_vars => [][Good]_vars
  BY <1>1, PTL
<1> QED
  BY <1>2, InvHolds, PTL DEF Spec, SuccessNeedsOpenPort
=============================================================================
