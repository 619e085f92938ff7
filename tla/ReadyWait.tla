----------------------------- MODULE ReadyWait -----------------------------
(***************************************************************************)
(* The minute of wait_for_rx_ready: it reads byte after byte, adds up the  *)
(* time that each read_data_get_elapsed_time reports, and gives the next   *)
(* read what is left of the minute.  The platforms measure in their own    *)
(* way: by time() (the example in serprim.h, and the test port), by        *)
(* milliseconds on Windows, and by a timer that counts down and starts     *)
(* again every 11 seconds on HDMI2USB.  (DOS has no such function.)        *)
(*                                                                         *)
(* Time is <<sec, tick>>; sec goes on when the result of time() does.  It  *)
(* passes between two reads as well as during them, and no read counts it. *)
(***************************************************************************)
EXTENDS Integers

CONSTANTS
    Platforms,      \* among "ansi", "windows" and "hdmi2usb"
    Wait,           \* seconds to wait for the receiver: 60
    TicksPerSec,    \* resolution of time
    UintSize,       \* number of values of an unsigned int
    MaxSec,         \* bound on the clock
    MaxGap          \* bound on the ticks between two reads

ASSUME WaitAssumption ==
    /\ Platforms \subseteq {"ansi", "windows", "hdmi2usb"}
    /\ TicksPerSec \in Nat \ {0}
    /\ Wait \in Nat \ {0}
    /\ UintSize \in Nat /\ UintSize > 2 * (Wait + 1)
    /\ MaxSec \in Nat /\ MaxGap \in Nat

VARIABLES
    platform,
    status,         \* "between" reads or "reading", then the result
    sec, tick,      \* the time of the last event
    firstTick,      \* the wait began at <<0, firstTick>>
    elapsed,        \* elapsed_time
    limit,          \* the timeout of the last read
    total,          \* history: the sum without wrap-around
    missed          \* history: seconds of time() that began between reads

vars == <<platform, status, sec, tick, firstTick, elapsed, limit, total, missed>>

RollOver == 11      \* seconds in the timer of HDMI2USB

Ticks == 0 .. TicksPerSec - 1

(* The value of an unsigned int as an int, and the guard in serial_rcv. *)
ToInt(u) == IF 2 * u < UintSize THEN u ELSE u - UintSize
Clamp(timeout) == IF timeout < 0 THEN 0 ELSE timeout

(* Faulty variants of definitions below, for the mutation checks. *)
LastOnly(e, spent) == spent % UintSize
AddSigned(e, spent) == e + spent
LimitUnsigned(e) == (Wait - e) % UintSize

AddElapsed(e, spent) == (e + spent) % UintSize
LimitAfter(e) == Clamp(ToInt((Wait - e) % UintSize))

Init ==
    /\ platform \in Platforms
    /\ status = "between"
    /\ firstTick \in Ticks /\ sec = 0 /\ tick = firstTick
    /\ elapsed = 0 /\ total = 0 /\ missed = 0
    /\ limit = LimitAfter(0)

-----------------------------------------------------------------------------
(* What a read from now to <<s, t>> reports as elapsed. *)
TickOf(s, t) == s * TicksPerSec + t

(* The counter of HDMI2USB goes down; a division in C rounds to zero. *)
TimerValue(s, t) == RollOver * TicksPerSec - (TickOf(s, t) % (RollOver * TicksPerSec))
Seconds(n) == IF n < 0 THEN 0 - ((0 - n) \div TicksPerSec) ELSE n \div TicksPerSec

TimeSeconds(s, t) == s - sec
Milliseconds(s, t) == ((TickOf(s, t) - TickOf(sec, tick)) * 1000) \div TicksPerSec
TimerSeconds(s, t) ==
    LET start == TimerValue(sec, tick)
        end   == TimerValue(s, t)
        roll  == IF start < end THEN RollOver * TicksPerSec ELSE 0
    IN  Seconds(end + roll - start)

Measured(s, t) ==
    CASE platform = "ansi" -> TimeSeconds(s, t)
      [] platform = "windows" -> Milliseconds(s, t)
      [] platform = "hdmi2usb" -> TimerSeconds(s, t)

(* Reads without a limit: Windows takes a timeout of 0 for none; HDMI2USB  *)
(* multiplies by the clock frequency, beyond the range of its timer from   *)
(* 11 seconds on and, as the frequency goes, beyond that of an int.        *)
NoTimeout == platform = "windows" /\ limit = 0
BeyondTimer == platform = "hdmi2usb" /\ limit >= RollOver
Unlimited == NoTimeout \/ BeyondTimer

NotBefore(s, t) == s > sec \/ (s = sec /\ t >= tick)
InTime(s, t) == s < sec + limit \/ (s = sec + limit /\ t <= tick)

(* The next read begins, with what is left by the times added up so far. *)
ReadStarts(s, t) ==
    /\ status = "between" /\ status' = "reading"
    /\ NotBefore(s, t) /\ TickOf(s, t) - TickOf(sec, tick) <= MaxGap
    /\ sec' = s /\ tick' = t /\ missed' = missed + (s - sec)
    /\ limit' = LimitAfter(elapsed)
    /\ UNCHANGED <<platform, firstTick, elapsed, total>>

(* A read ends at <<s, t>> and what it reports is added up. *)
ReadEnds(s, t) ==
    /\ status = "reading"
    /\ sec' = s /\ tick' = t
    /\ elapsed' = AddElapsed(elapsed, Measured(s, t))
    /\ total' = total + Measured(s, t)
    /\ UNCHANGED <<platform, firstTick, limit, missed>>

Within(s, t) == NotBefore(s, t) /\ (Unlimited \/ InTime(s, t))

(* The code the transmitter waits for ends the loop, *)
Ready(s, t) ==
    ReadEnds(s, t) /\ Within(s, t) /\ status' = "MODEM_NO_ERRORS"

(* any other byte leads to the next read, *)
Junk(s, t) ==
    ReadEnds(s, t) /\ Within(s, t) /\ status' = "between"

(* and a failure of the port, which HDMI2USB does not report, gives up.    *)
PortFails(s, t) ==
    /\ platform # "hdmi2usb" /\ ReadEnds(s, t) /\ Within(s, t)
    /\ status' = "MODEM_HW_ERROR"

(* A read ends at its limit; what an unlimited read of HDMI2USB does is    *)
(* undefined, and one on Windows does not end by itself.                   *)
Timeout(s, t) ==
    /\ ReadEnds(s, t)
    /\ IF Unlimited THEN BeyondTimer /\ NotBefore(s, t)
                    ELSE s = sec + limit /\ t = tick
    /\ status' = "MODEM_TIMEOUT"

Next == \E s \in 0 .. MaxSec, t \in Ticks :
    ReadStarts(s, t) \/ Ready(s, t) \/ Junk(s, t) \/ Timeout(s, t) \/ PortFails(s, t)

Spec == Init /\ [][Next]_vars

-----------------------------------------------------------------------------
TypeOK ==
    /\ platform \in Platforms
    /\ status \in {"between", "reading",
                   "MODEM_NO_ERRORS", "MODEM_TIMEOUT", "MODEM_HW_ERROR"}
    /\ sec \in 0 .. MaxSec /\ tick \in Ticks /\ firstTick \in Ticks
    /\ elapsed \in 0 .. UintSize - 1
    /\ limit \in Nat /\ total \in Int /\ missed \in Nat

(* n seconds have passed since the wait began. *)
Passed(n) == sec > n \/ (sec = n /\ tick >= firstTick)

(* "Wait for NAK or 'C', timeout after 1 minute" (xmodem.c:461), give or   *)
(* take less than a second: junk does not make wait_for_rx_ready give up   *)
(* before.                                                                 *)
NotTooEarly == status = "MODEM_TIMEOUT" => Passed(Wait - 1)

(* Where read_data_get_elapsed_time is the example of serprim.h, rounding  *)
(* to whole seconds loses nothing over several reads: wait_for_rx_ready    *)
(* gives up neither early nor later than by the seconds that began between *)
(* two reads, which are all that it loses.                                 *)
AnsiMinuteKept == platform = "ansi" => NotTooEarly /\ ~Passed(Wait + 1 + missed)

(* The sum of the elapsed times stays in the range of an int, however many *)
(* milliseconds a read of one tick is taken for; with an int of 32 bits it *)
(* takes weeks to leave it.                                                *)
NoOverflow == UintSize > 2 * (Wait + 1000 * (MaxSec + 1) * TicksPerSec)

(* The timeout of a read is what is left of the minute, or 0, also where   *)
(* more than 60 seconds or negative times were added to the unsigned       *)
(* elapsed_time: the wrap-around of the subtraction is undone.             *)
LimitIsRest == status = "reading" => limit = Clamp(Wait - total)
=============================================================================
