# libmodem in TLA+

libmodem is a C library that transfers data by XMODEM over a serial port.  This
directory models it, checks the models with TLC and proves theorems about them
with TLAPS.

## 1. Inventory of the system

| Component | Code | State | Operations | Interacts with |
|---|---|---|---|---|
| Transmitter | `src/xmodem.c` `xmodem_tx`, `wait_for_rx_ready`, `pad_buffer` | packet buffer, block number, `last_sent_size`, `eof_detected`, mode | wait for the receiver, fetch and send a packet, interpret the response, end of transfer | source callback, serial API |
| Receiver | `src/xmodem.c` `xmodem_rx`, `purge` | expected number, error count, mode, packet size, `tx_code` | negotiate, read and test a packet, deliver, retry, give up, purge | sink callback, serial API |
| Check codes | `generate_chksum`, `generate_crc` | none | pure functions | both ends |
| Serial API | `src/serial.c`, `serial.h` | the handle | init, send, receive, flush, close | primitives |
| Primitives | `src/{windows,dos,hdmi2usb,hdmi2usb-or1k}/serprim.c`, `serprim.h` | driver time-outs, hardware timer | open, init, read, write, elapsed time, flush, close | operating system or UART |
| Test port | `test/serprim.c`, `test/shared.h`, `test/unittest.c` | two arrays with positions and failure switches | the same primitives, the callbacks | unit tests |
| Stubs | `xmodem_rx1`, `wait_for_tx_response`, `get_checksum_offset`, `sfl_rx` | | unfinished or only declared | nothing |

Two programs, each one thread, talk over a connection that loses, damages and
delays bytes; nothing else is shared.  What is hard:

* **Ordering.** The responses are single bytes without a number.  A response can
  cross a time-out, be swallowed by the flush that follows a packet, or be taken
  for the answer to a later packet.
* **Framing.** The start of a packet is found by one byte.  After a lost byte
  everything shifts, and block numbers 1, 2 and 4 have the values of SOH, STX and
  EOT.
* **Retries.** A NAK takes back the position of the callback, the end of the data
  and sometimes the change of block size.  The error count is shared between the
  negotiation and every packet.
* **Failures.** Callbacks and ports fail in the middle of a transfer; some results
  are ignored.
* **Time.** Waits of 60, 10 and 1 seconds at the two ends, measured by each
  platform in its own way.

Properties that make each component correct: for the transmitter, the packet under way
is the next data, success covers all the data, a retry repeats the packet; for the
receiver, its reads stay in the caller's buffer, it bears as many failures in a row as
it is meant to, it always tells the peer how it ended, and it returns; for the two
together, the sink holds the source in order, success means delivery, neither is more
than one packet ahead, both return, and a disturbed transfer recovers; for the check
codes, what arrives intact passes and what is damaged in a burst does not, whatever
the width of the integers; for the serial API, a handle stands for an open port of its
own, no port is lost without notice and no call succeeds on a closed one; for the wait
in real time, its minute.

## 2. Modules

| Module | Models |
|---|---|
| `Modem` | constants of `modem.h`, layout of a packet, `serial_to_modem_error` |
| `Modem_proofs` | lemmas about packets and blocks |
| `SerialLines` | the two directions of the connection, and `serial_flush` |
| `XmodemTx` | `xmodem_tx` with any peer |
| `XmodemTx_proofs` | theorems about `XmodemTx` |
| `XmodemRx` | `xmodem_rx` with any peer and a port that fails and recovers |
| `XmodemRx_proofs` | theorems about `XmodemRx` |
| `FileTransfer` | abstract specification: what a transfer promises its two callers |
| `XmodemSession` | both functions on one connection, with faults; implements `FileTransfer` |
| `XmodemSession_proofs` | theorems about `XmodemSession`, the refinement among them |
| `CheckCodes` | `generate_chksum` and `generate_crc` at the two ends of a packet |
| `CheckCodes_proofs` | theorems about `CheckCodes` |
| `ReadyWait` | `wait_for_rx_ready` in time, with the elapsed times of the platforms |
| `ReadyWait_proofs` | theorems about `ReadyWait` |
| `SerialPort` | the functions of `serial.c` and the handles of the platforms |
| `SerialPort_proofs` | theorems about `SerialPort` |
| `MC...` | instances for TLC |

`XmodemTx` and `XmodemRx` extend `SerialLines`, which extends `Modem`;
`XmodemSession` extends both and instantiates `FileTransfer`.  `CheckCodes`,
`ReadyWait` and `SerialPort` stand alone: they open up what the protocol modules
abstract (a check code, a wait of 60 seconds, a port that works).

**Correspondence.**  A function is cut where it blocks or leaves: at its reads,
callbacks, sends and flushes.  `txPc` and `rxPc` name the places, and each piece
between two of them is one action.  The variables have the names of the C variables
they stand for (`blkNo` is `tx_buffer[BLOCK_NO]`, `expBlk` is `expected_block_no`,
`rxCode` is the receiver's `tx_code`); `ackedTo`, `callMode`, `failures`, `quiet` and
`faults` are history or bookkeeping.  The complement of a block number is always
computed with it in the code and is no variable.  `ReadAgain` is the top of the
receiver's inner loop: it is part of every action that leads there, with its error
count, its giving up and its fallback.

**Data.**  Blocks of 128 and 1024 bytes are blocks of `BlockLen` and `KBlockLen`;
256 block numbers are `NumBlockNos`.  The check codes are operators.  In the
instances the checksum is the code's, and the CRC is two bytes that differ for
the payloads and single-byte errors that occur.

**Check codes.**  In `CheckCodes` a register is the set of the positions of its bits
that are 1.  `Turn` is one turn of the loop over bits and `Feed` one turn of the loop
over octets; `Transmit` is a turn of the latter at both ends, with damage in between.
The registers run alongside each other although the code computes each CRC over a
buffer: nothing else happens in the loops.  Each end has a width of its own (`txWidth`,
`rxWidth`), and `Code` is the conversion of the result to `unsigned short`.  What a wide
end has shifted beyond bit 15 stays in its register.  (The two octets of the CRC shift
it out of 32 bits again if the packet is intact; a wider receiver depends on the
conversion.)  The damage of an octet is the set of the bits that are inverted.

**Refinement.**  `FileTransfer` knows the data, what the sink got, how much of it is
confirmed and two results.  A block may be stored only when the last one is confirmed
and the end of the data is not reached, and the transmitter succeeds only after the
receiver did.  The mapping takes `got` from `sink`, the results from the places and
status codes, and `confirmed` from the smaller of what is acknowledged and what is
stored: a receiver that gives up may leave an ACK of its last packet behind.  Steps of
lines, time-outs, retries and the negotiation map to stutters.

**Wait.**  In `ReadyWait` time goes on during a read and, for up to `MaxGap` ticks,
between two of them (`ReadStarts`).  A read ends by the expected code, by junk, by its
limit or by a failure; its elapsed time is that of `time()`, of `GetTickCount` or of the
HDMI2USB down counter.  Only the example in `serprim.h` and the test port use `time()`;
no platform that is shipped does.  `total` is the sum without wrap-around, `missed` the
seconds of `time()` that began between two reads and are in no read's elapsed time.  The
`\bug` at `serprim.h:147-150` says that reads shorter than a second report 0.  That is
so, but the reads that a second begins in report 1: over reads that follow each other at
once the differences of `time()` add up to the whole, and what is lost is `missed`.

**Handles.**  In `SerialPort` the handle of port `p` is written `p`.  `acquired` is
what the system holds for the program, `ready` what is initialised, `lost` what no
variable of the program can close any more.  A program has one variable for each port
number and may make any call with it at any time, whatever it holds: `serial_init` too,
as the unit tests do after a `serial_close` that failed (`unittest.c:58`, `:90-100`).
Only on DOS it uses one port number at a time (`serial.h:31-33`).  Calls to the system
fail whenever they can.

**The callbacks** are those of the unit tests and of the examples in `modem.h`: a
reader and a writer of a buffer.  They can also fail (`TxChannelError`,
`RxSinkError`).  The `eof` argument of the sink callback is always 0 when it is
called (`xmodem.c:360`: packets are delivered only while EOT has not been seen),
although `modem.h:257` announces a 1; it is not modelled.

**The lines** are sequences; what is on the wire and what is in a receive buffer
are not told apart, so a flush may leave any suffix (`Flushed`).  This covers the
ports whose flush fails or does nothing, since `xmodem_tx` ignores the result.  A
`serial_snd` of the transmitter that fails, which it ignores too, sends any part of a
packet, or no EOT (`TxSendFails`, `TxEotFails`); one of the receiver loses its one byte.

**Faulty variants** (`...Kept`, `...Ignored`, and so on) stand before a few
definitions.  No action uses them; they are what a plausible mistake would look
like, and each property is seen to fail with one of them.

## 3. Runs

| Run | Shows | Bounds |
|---|---|---|
| `tx` | `PacketCarriesNextData`, `SuccessCoversSource`, `PacketChangesOnAckOnly` | sources of 0 to 10 bytes, blocks of 2 and 4, three block numbers: up to six packets, numbers wrap twice, data ends inside, before and at a block of either size |
| `rx` | `ReadsFitBuffer`, `GivesUpAtLimit`, `ReturnTellsPeer`, `RxReturns` | blocks of 1 and 2, four reads per packet, a sink of 3 bytes, one failure of the sink; the peer's messages are good packets of each mode, a bad check, a bad number, a truncated packet, EOT, junk |
| `session_recovery` | `Completes`, `RxSuccessMeansComplete` | the code's limits (11 errors, fallback after 2), five pairs of modes, up to six packets, one payload or check byte lost or changed |
| `session_faults` | `SinkIsPrefix`, `TxSuccessMeansDelivered`, `StopAndWait`, `BothReturn`, `ImplementsTransfer` | blocks of 2 and 4, up to four packets, two reads per packet, one fault of any kind, a send that fails included |
| `check_codes` | `IntactAccepted`, `BurstDetected`, `ChecksumTest` | payloads of up to three of four octets, five patterns of damage (none included) on each octet, 16 or 32 bits at either end |
| `ready_wait` | `AnsiMinuteKept`, `LimitIsRest` | all ways to measure time, a wait of 20 seconds in place of 60, a clock that runs to 24 (two turns of the HDMI2USB timer; one tick on Windows is enough to pass the limit), junk at any of 48 points of time, gaps of up to half a second between reads |
| `serial_port` | `HandleOwnsUart`, `OnlyFailedInitLoses`, `SuccessNeedsOpenPort` | four platforms, four port numbers of which each platform takes some and refuses some; complete, the state space has no other bound |

The instance of `ready_wait` counts `UintSize` up to 2^24 because TLC's integers have
32 bits; `LimitIsRest` needs no more than that the sums stay below half of it
(`NoOverflow`, which TLC evaluates on the instance).  Each model also has one type
invariant.  The bounds keep what matters: every outcome of a read, a retry of the
first, a middle and the last packet, more packets than there are block numbers, and
limits that are reached.

Two faults can hit payload and checksum so that they agree, and no protocol with an
8-bit checksum can notice; so `session_faults` has one fault.  Its noise is not a
number of another packet, because the check bytes do not cover the header and a
repeated packet with such a header is delivered twice (see below).  Noise to the
transmitter is never ACK: nothing protects a response.  Its blocks have two bytes,
because with one the checksum of the instance could take the value of SOH and stand
for the start of a packet.

The faults of `session_recovery` spare headers, EOT and replies (`Spared`), because
the code does not recover from their loss: see `false_eot`, `lost_ack` and the list
after them.  It has one fault because an XMODEM_CRC receiver bears two errors per
packet and the negotiation may already have cost one; `late_downgrade` shows what
three do.

### Time and fairness

With `Prompt = FALSE` a read may time out at any moment.  Safety and `BothReturn` are
checked this way, the refinement too, so they depend on no assumption about delays.
With `Prompt = TRUE` a read times out only when nothing can arrive any more, and six
time-outs of the receiver (10 seconds each) fit into one wait of the transmitter (60
seconds); the flush after a packet is over before the answer arrives.  This is what
the constants in the code intend, and `Completes` needs it.

Fairness is weak and per program: a function that can take a step takes one, and a
read ends by a byte or by a time-out.  For the receiver with any peer, the line also
falls silent for a second some time during `purge()` (without that, purging a
babbling line has no end in the code either).  `RxReturns` assumes that the port works
from some time on; nothing forces a fault.  In `MCXmodemRx` and the session runs
the programs stop when they have returned, and so do a packet, a wait and a program
that has crashed in the other models, so deadlock is not checked; that nothing is stuck
before is what the liveness properties of the transfer say.

### Where code and documentation disagree

Each of these runs ends in a counterexample.

| Run | Disagreement |
|---|---|
| `sink_error` | a negative result of the sink callback is acknowledged as success |
| `late_downgrade` | XMODEM_CRC is downgraded in the middle of the data |
| `lost_ack` | the previous packet, sent again, aborts the transfer |
| `false_eot` | after the loss of the SOH of block 4 its number ends the transfer with success |
| `windows_wait` | the elapsed time on Windows is in milliseconds, so one junk byte cuts the minute of `wait_for_rx_ready` short |

The models also follow the code in these points, for which there is no run.

In the transfer functions: XMODEM_1K is never downgraded (`xmodem.c:256`, against
`modem.h:273`); an XMODEM_CRC receiver takes no 1K packets (`xmodem.c:213`, against
`modem.h:271`); a port failure inside a packet is reported as UNDEFINED_ERROR
(`xmodem.c:376`, against `modem.h:82`); any response but ACK and NAK is a
cancellation, a repeated code of the negotiation too (`xmodem.c:122`, against
`modem.h:78`); a failed flush does not abort a transfer (`xmodem.c:101`, against
`serprim.h:185-187`); the receiver bears 11 failures in a row and gives up at the 12th
(`xmodem.c:245-246`; the comments speak of 11 errors, `:250`, and 10 retries,
`:370-371`), and each junk byte is one of them, so that one lost start character uses
up all retries of its packet; `purge()` never ends on a port that stays dead, so no
status code follows (`xmodem.c:451`, against the comment at 315; `RxReturns` therefore
assumes a port that works in the end); and the tests of number and complement are
joined by `&&`, so a packet with another number passes when its complement is the
expected one, or the reverse (`xmodem.c:321`, against `modem.h:79`).

In the wait: the seconds that begin between two reads are not counted
(`xmodem.c:467`), and junk stretches the minute by as many; on HDMI2USB timeouts from 11
seconds on exceed the timer and those from 43 on `int`, so that the first read of the
minute may end at any time (`hdmi2usb/serprim.c:59`, against `:23-24`), and the elapsed
time is negative, or beyond a period after a roll-over (`hdmi2usb/serprim.c:83-89`,
against `serprim.h:143-144`).

In the ports: `init_port` on DOS looks for 1 to 4 in an I/O address and always opens
COM1 (`dos/serprim.c:57`, against `serial.h:65`); `handle_valid(NULL)` is true on
Windows (`windows/serprim.c:26`, against `serial.h:34-36`), so `serial_close` does not
leave an invalid handle there, and that nothing succeeds with it rests on the system,
which the model takes to refuse it (`IoCanSucceed`); `serial_close` is said to leave a
handle which "returns nonzero from handle_valid()" (`serial.h:141-142`), the opposite
of what the other platforms do and `serial.h:34-36` asks for; on Windows a failed
`GetCommState` leads to `serial_close` with a handle in place of its address, and the
other failures of `init_port` leave the port open; a timeout of 0 means none to
`ReadFile`, where `serial.h:117-118` says that it returns immediately; DOS has no
`read_data_get_elapsed_time`.

## 4. Proofs

`XmodemTx_proofs` proves about `TxSpec`, for all lengths, sources and peers:
`TxTyped`, `TxPacketsInOrder`, `TxSuccessComplete` and `TxRepeatsPacket`.  The
assumptions are the named ones of `Modem`, `SerialLines` and `XmodemTx`: positive
block lengths with the long one not shorter, at least two block numbers, sources of
bytes and check codes that are bytes.  The lemmas about packets and blocks are in
`Modem_proofs`.

None of the properties is inductive.  `TxInv` adds, for each place in the function,
how the history variable `ackedTo` relates to the callback's position: at the top of
the loop the position lags by `last_sent_size`; with a packet under way the two are
equal and `eof_detected` holds exactly when less than a block is left, and a 1K
block is never short; from EOT on, more than the source and at most one short block
more is acknowledged.  For retransmission it says that the buffer still holds the
packet that the next turn would build when `last_sent_size` is 0.  `TypeNext` and
`InvNext` go through the actions; `SendInv`, `AckInv`, `NakInv` and `ReadyInv` treat
the steps that change the data, `SameData` the rest.  `TxInv` was checked with TLC on
the instance of `tx` before.

`XmodemRx_proofs` proves about `RxSpec`, for all limits, sinks and peers: `RxTyped`,
`RxReadsFit`, `RxTellsPeer` and `RxGivesUpAtLimit`.  The strengthening `RxInv` is the
type invariant and `ModeKept`: the mode is the caller's, or XMODEM after a fallback
from XMODEM_CRC. `ReadAgainType` says once what the top of the inner loop makes of its
variables; the lemmas for the actions that end there cite it.  For `RxGivesUpAtLimit`
the count of the read under way is shown to be the number of failures since the last
good packet; an action either counts one more (`FailureCounted`), starts afresh
(`FreshCounted`) or leaves both alone (`CountUnchanged`).

`CheckCodes_proofs` proves `CrcAcceptsIntact` and `CrcDetectsBursts` for every
payload, length, pattern of damage and any two widths from 16 bits on.  The argument
is that a turn of the loop commutes with the exclusive or: the difference of the two
registers depends on the damage only.  So the lower 16 bits of the two ends agree
until the first damaged octet, two damaged octets in a row leave a difference that is
not 0, and a turn on intact octets never makes a difference vanish.  `ZeroMeansEqual`
turns the receiver's test for 0 into a comparison of CRCs.  `ChecksumTells` is about
the other code: octets and the numbers 0 to 255 correspond (`ValueInjective`,
`ValueOfOctet`), adding the same octet keeps two sums different and adding different
octets to equal sums makes them so (`AddSame`, `AddOther`), so one damaged octet is
the difference at the end, as `SumInv` says. `CodesTyped` is the type invariant.

`ReadyWait_proofs` proves `AnsiWaitsMinute`, for waits and gaps of any length: where
time is measured by `time()` the sum of the elapsed times is the second that `time()`
shows less those that began between two reads, whatever rounding each read suffers
(`AnsiInv`).  `WaitTyped` and `RestOfMinute` are about all platforms.  Their invariant
`RestInv` says that `elapsed_time` is the remainder of `total`, that the timeout of a
read was computed from it, and that `total`, of either sign, is at most 1000 times the
ticks of the clock: a read cannot be taken for more (`MeasuredBound`; the case that
matters is the HDMI2USB timer, which counts down, starts again and is divided by
rounding to zero).  `RestOfMinute` needs `NoOverflow`: the sum stays in the range of
an `int`.  With `int`s of 32 bits and a clock in milliseconds that holds for half an
hour, and the hypothesis is coarse: it takes every tick for a whole second of
milliseconds.

`SerialPort_proofs` proves all four properties of `SerialPort` for any set of port
numbers.  `PortInv` adds that a held handle is the one of its own port, which can be
initialised, and, for DOS, where all ports share COM1, that only one is held.
`LossExplained` goes through the actions that take a handle from a variable: a close
that succeeds gives the UART back, so only a `serial_init` that fails is left.

### The transfer

`XmodemSession_proofs` proves `SinkInOrder`, `OnePacketApart` and `TxSuccessDelivers`,
and `SessionImplements`: the two functions on one connection
implement `FileTransfer`.  They hold for every length of block, source, sink and limit
and any number of faults, under one hypothesis on the constants, `FairLine`:

* `Prompt`: reads time out only when nothing can arrive, as described above.  Responses
  that cross a time-out are therefore not covered by the theorems.
* No `serial_snd` of the transmitter fails unnoticed (`"send"`).
* No fault hits the start character, the number and its complement, nor EOT (`"header"`
  in `Spared`).  Nothing in the code protects these bytes: the check covers the payload
  only, the test of the number lets wrong ones pass, and `false_eot` shows what a lost
  SOH can do.  So a false EOT cannot arise here, and no theorem says that it does
  not.
* Replies may be lost but not changed into others.  A NAK that becomes an ACK skips a
  packet in any program of this protocol.
* Bytes are changed only as far as the check code notices (`DetectsChanges`).  For one
  changed byte this is what `CrcDetectsBursts` and `ChecksumTells` prove about the two
  codes; the model takes it as a property of the operators `Chksum` and `Crc`, and TLC
  evaluates it for those of the instances.  Any number of bytes may be lost without it:
  a packet that is too short is never tested.
* The caller's modes can work together (`Matching`: equal, or one with its fallback), and
  for two ends in XMODEM_CRC there are fewer faults than the receiver needs to fall back
  (with the 2 of the code: one).
  Without that bound an XMODEM_CRC receiver takes packets with a CRC for ones with a
  checksum: run `late_downgrade`.

Faults of the source callback and of the transmitter's port are included, and so is a
sink that is too small and refuses its data.  TLC evaluates `FairLine` for the instance
of `session_recovery` (`InstanceIsFair`), so its hypotheses can be met together, with
faults of both kinds.

The inductive invariant `SessionInv` is a list of situations, told apart by what is on
the lines.  *Negotiating*: nothing sent yet but the receiver's start codes.
*Filling*: the transmitter fetches data, the lines are empty.  *Flying*: a packet is
on the line or partly read; what is missing or damaged is within the number of faults,
and the packet's header is what the transmitter wrote.  *Answered*: the packet is
consumed, and an ACK is on the line only if the receiver has stored it.  *Ending*: all
is acknowledged and stored, EOT to come or under way.  *Alone*: the transmitter has
given up.  *Over*: the receiver has returned.  While packets go back and forth the
receiver either waits for the one under way or has it already (`Expected`, `Stored`):
this, and not the properties themselves, is what a step preserves.  `Errors` bounds
the receiver's error count by the faults; without it a fallback in the middle of the
data could not be excluded.  `TxInv` and `RxInv`, proved for the two ends with any
peer, are conjuncts, so the proofs about the ends serve here again.

`SessionNext` has one lemma per action.  `RestIsPayload` is where the check codes
enter: a rest of a packet whose check passes is the payload that was sent, because the
bytes that differ are at most `MaxFaults`, and `DetectsChanges` would tell.

For the refinement, what is confirmed is the smaller of what is acknowledged and what
is stored; `Confirmed` shows that under `FairLine` it is always the former.  Only four
kinds of step are no stutters: the receiver stores a block, an ACK moves the
transmitter on, and each function returns.

### What is model-checked only

* Liveness (`RxReturns`, `BothReturn`, `Completes`): fairness is out of the prover's
  reach.
* The transfer with `Prompt = FALSE`, with time-outs at any moment, damaged headers and
  replies and sends that fail: run `session_faults`.  There the answers of several
  packets cross on the line, and the situations above do not cover it.
* That `DetectsChanges` holds for particular operators `Chksum` and `Crc`: they would be
  recursive functions over the payload, an induction over data.  `CheckCodes` has the
  loops as steps for this reason.

## 5. Not modelled, and what is left

* The stubs and `sfl_rx`: nothing calls or implements them.  minunit is third party;
  build files configure only.
* The tables of baud rates, the fields of the DCB and the time-outs that a read saves
  and restores in the driver: no property of the transfer depends on them.
* The arrays of the test port: the tests run one end after the other, so nothing is
  concurrent there; as a platform of handles the test port is in `SerialPort`.
* The duration of bytes: the rest of a packet has 1 second in total, which 1028 bytes
  exceed at 9600 baud and below.  No document names a lowest baud rate.
* The next theorem would be about the transfer with `Prompt = FALSE`, at least that the
  sink holds the data in order; the next model would give `XmodemSession` the platforms'
  waits.
