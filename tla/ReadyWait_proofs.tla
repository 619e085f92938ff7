------------------------- MODULE ReadyWait_proofs -------------------------
(***************************************************************************)
(* Proofs about ReadyWait: with time() the elapsed times of the reads add  *)
(* up to the seconds since the wait began, less those that began between   *)
(* two reads; and on every platform the timeout of a read is what is left  *)
(* of the minute by the times added up.                                    *)
(***************************************************************************)
EXTENDS ReadyWait, TLAPS

AnsiInv ==
    /\ sec \in Nat /\ tick \in Ticks /\ firstTick \in Ticks
    /\ missed \in 0 .. sec /\ sec - missed <= Wait
    /\ elapsed = sec - missed
    /\ status = "reading" => limit = Wait - elapsed
    /\ status = "MODEM_TIMEOUT" => elapsed = Wait

WaitInv == platform = "ansi" => AnsiInv

LEMMA SmallMod ==
    ASSUME NEW n \in Nat, NEW m \in Nat, n < m
    PROVE  n % m = n
OBVIOUS

LEMMA LimitExact ==
    ASSUME NEW e \in 0 .. Wait
    PROVE  LimitAfter(e) = Wait - e
<1>1. (Wait - e) % UintSize = Wait - e
  BY SmallMod, WaitAssumption
<1>2. 2 * (Wait - e) < UintSize
  BY WaitAssumption
<1> QED
  BY <1>1, <1>2, WaitAssumption DEF LimitAfter, ToInt, Clamp

LEMMA InitWaitInv == Init => WaitInv
BY WaitAssumption DEF Init, WaitInv, AnsiInv

(* A read that ends within its limit leaves the sum exact. *)
LEMMA ReadInv ==
    ASSUME AnsiInv, platform = "ansi", NEW s \in 0 .. MaxSec, NEW t \in Ticks,
           ReadEnds(s, t), NotBefore(s, t), s <= sec + limit
    PROVE  /\ sec' \in Nat /\ tick' \in Ticks /\ firstTick' \in Ticks
           /\ missed' \in 0 .. sec' /\ sec' - missed' <= Wait
           /\ elapsed' = sec' - missed'
           /\ s = sec + limit => elapsed' = Wait
<1>1. /\ sec \in Nat /\ missed \in 0 .. sec /\ limit = Wait - elapsed
      /\ elapsed = sec - missed /\ s \in Nat /\ sec <= s /\ Wait \in Nat
  BY WaitAssumption DEF AnsiInv, ReadEnds, NotBefore
<1>2. sec' = s /\ missed' = missed /\ tick' = t /\ firstTick' = firstTick
  BY DEF ReadEnds
<1>3. elapsed' = (s - missed) % UintSize
  <2>1. Measured(s, t) = s - sec
    BY DEF Measured, TimeSeconds
  <2>2. elapsed + (s - sec) = s - missed
    BY <1>1
  <2> QED
    BY <2>1, <2>2 DEF ReadEnds, AddElapsed
<1>4. s - missed \in 0 .. Wait /\ (s = sec + limit => s - missed = Wait)
  BY <1>1
<1>5. elapsed' = s - missed
  BY <1>3, <1>4, SmallMod, WaitAssumption
<1> QED
  BY <1>1, <1>2, <1>4, <1>5 DEF AnsiInv

(* A gap adds to the clock what it adds to the seconds missed. *)
LEMMA GapInv ==
    ASSUME AnsiInv, NEW s \in 0 .. MaxSec, NEW t \in Ticks, ReadStarts(s, t)
    PROVE  AnsiInv'
<1>1. /\ sec \in Nat /\ missed \in 0 .. sec /\ elapsed = sec - missed
      /\ s \in Nat /\ sec <= s /\ sec - missed <= Wait
  BY WaitAssumption DEF AnsiInv, ReadStarts, NotBefore
<1>2. sec' = s /\ missed' = missed + (s - sec) /\ elapsed' = elapsed
  BY DEF ReadStarts
<1>3. /\ sec' \in Nat /\ missed' \in 0 .. sec'
      /\ sec' - missed' = sec - missed
  BY <1>1, <1>2
<1>4. limit' = Wait - elapsed'
  BY <1>1, <1>2, LimitExact DEF ReadStarts
<1> QED
  BY <1>1, <1>2, <1>3, <1>4 DEF ReadStarts, AnsiInv

LEMMA NextWaitInv == WaitInv /\ [Next]_vars => WaitInv'
<1> SUFFICES ASSUME WaitInv, [Next]_vars, platform' = "ansi" PROVE AnsiInv'
  BY DEF WaitInv
<1>1. platform = "ansi" /\ AnsiInv
  BY DEF WaitInv, vars, Next, ReadStarts, Ready, Junk, Timeout, PortFails, ReadEnds
<1>2. CASE UNCHANGED vars
  BY <1>1, <1>2 DEF vars, AnsiInv
<1>3. ~Unlimited
  BY <1>1 DEF Unlimited, NoTimeout, BeyondTimer
<1>4. ASSUME NEW s \in 0 .. MaxSec, NEW t \in Ticks, ReadEnds(s, t), Within(s, t)
      PROVE  NotBefore(s, t) /\ s <= sec + limit
  <2>1. limit \in Int /\ sec \in Nat /\ s \in Nat
    BY <1>1, <1>4, WaitAssumption DEF AnsiInv, ReadEnds
  <2> QED
    BY <1>3, <1>4, <2>1 DEF Within, InTime
<1>5. ASSUME NEW s \in 0 .. MaxSec, NEW t \in Ticks, ReadStarts(s, t) PROVE AnsiInv'
  BY <1>1, <1>5, GapInv
<1>6. ASSUME NEW s \in 0 .. MaxSec, NEW t \in Ticks,
             Ready(s, t) \/ Junk(s, t) \/ PortFails(s, t)
      PROVE  AnsiInv'
  <2>1. ReadEnds(s, t) /\ NotBefore(s, t) /\ s <= sec + limit
    BY <1>4, <1>6 DEF Ready, Junk, PortFails
  <2>2. status' \notin {"reading", "MODEM_TIMEOUT"}
    BY <1>6 DEF Ready, Junk, PortFails
  <2> QED
    BY <1>1, <2>1, <2>2, ReadInv DEF AnsiInv
<1>7. ASSUME NEW s \in 0 .. MaxSec, NEW t \in Ticks, Timeout(s, t) PROVE AnsiInv'
  <2>1. ReadEnds(s, t) /\ s = sec + limit /\ t = tick /\ status' = "MODEM_TIMEOUT"
    BY <1>3, <1>7 DEF Timeout
  <2>2. limit \in Nat /\ sec \in Nat /\ tick \in Int
    BY <1>1, <2>1, WaitAssumption DEF AnsiInv, ReadEnds, Ticks
  <2>3. NotBefore(s, t) /\ s <= sec + limit
    BY <2>1, <2>2 DEF NotBefore
  <2> QED
    BY <1>1, <2>1, <2>3, ReadInv DEF AnsiInv
<1> QED
  BY <1>2, <1>5, <1>6, <1>7 DEF Next

(* With the example of serprim.h wait_for_rx_ready does not give up early  *)
(* and, whatever arrives and when, late by no more than the seconds that   *)
(* began between two reads: rounding within the reads loses nothing.       *)
THEOREM AnsiWaitsMinute == Spec => []AnsiMinuteKept
<1>1. WaitInv => AnsiMinuteKept
  <2> SUFFICES ASSUME AnsiInv, platform = "ansi" PROVE NotTooEarly /\ ~Passed(Wait + 1 + missed)
    BY DEF WaitInv, AnsiMinuteKept
  <2>1. /\ sec \in Nat /\ missed \in 0 .. sec /\ sec - missed <= Wait /\ Wait \in Nat
        /\ status = "MODEM_TIMEOUT" => sec - missed = Wait
    BY WaitAssumption DEF AnsiInv
  <2> QED
    BY <2>1 DEF NotTooEarly, Passed
<1> QED
  BY <1>1, InitWaitInv, NextWaitInv, PTL DEF Spec
-----------------------------------------------------------------------------
(***************************************************************************)
(* The sum of the elapsed times on all platforms.  It may be too large or  *)
(* too small, and elapsed_time is only its remainder; but the timeout is   *)
(* computed from that as if nothing had wrapped around.                    *)
(***************************************************************************)
LEMMA Division ==
    ASSUME NEW a \in Int, NEW m \in Nat \ {0}
    PROVE  /\ a % m \in 0 .. m - 1 /\ a \div m \in Int
           /\ a = m * (a \div m) + (a % m)
OBVIOUS

LEMMA SameRest ==
    ASSUME NEW m \in Nat \ {0}, NEW p \in Int, NEW q \in Int,
           NEW r \in 0 .. m - 1, NEW s \in 0 .. m - 1, m * p + r = m * q + s
    PROVE  r = s
OBVIOUS

(* What is added to a remainder may be added before it is taken. *)
LEMMA RestOfSum ==
    ASSUME NEW a \in Int, NEW b \in Int, NEW m \in Nat \ {0}
    PROVE  ((a % m) + b) % m = (a + b) % m
<1>1. \A x \in Int : \E r \in 0 .. m - 1, q \in Int : x = m * q + r /\ x % m = r
  BY Division
<1>2. PICK r \in 0 .. m - 1, q \in Int : a = m * q + r /\ a % m = r
  BY <1>1
<1>3. r + b \in Int /\ a + b \in Int
  OBVIOUS
<1>4. PICK s \in 0 .. m - 1, p \in Int : r + b = m * p + s /\ (r + b) % m = s
  BY <1>1, <1>3
<1>5. PICK t \in 0 .. m - 1, k \in Int : a + b = m * k + t /\ (a + b) % m = t
  BY <1>1, <1>3
<1>6. m * (q + p) + s = m * k + t
  BY <1>2, <1>4, <1>5
<1>7. s = t
  BY <1>6, SameRest
<1> QED
  BY <1>2, <1>4, <1>5, <1>7

LEMMA RestOfDifference ==
    ASSUME NEW a \in Int, NEW b \in Int, NEW m \in Nat \ {0}
    PROVE  (a - (b % m)) % m = (a - b) % m
<1>1. \A x \in Int : \E r \in 0 .. m - 1, q \in Int : x = m * q + r /\ x % m = r
  BY Division
<1>2. PICK r \in 0 .. m - 1, q \in Int : b = m * q + r /\ b % m = r
  BY <1>1
<1>3. a - r \in Int /\ a - b \in Int
  OBVIOUS
<1>4. PICK s \in 0 .. m - 1, p \in Int : a - r = m * p + s /\ (a - r) % m = s
  BY <1>1, <1>3
<1>5. PICK t \in 0 .. m - 1, k \in Int : a - b = m * k + t /\ (a - b) % m = t
  BY <1>1, <1>3
<1>6. m * (p - q) + s = m * k + t
  BY <1>2, <1>4, <1>5
<1>7. s = t
  BY <1>6, SameRest
<1> QED
  BY <1>2, <1>4, <1>5, <1>7

(* The value as an int of the difference as an unsigned int. *)
LEMMA LimitOfSum ==
    ASSUME NEW n \in Int, -UintSize <= 2 * (Wait - n), 2 * (Wait - n) < UintSize
    PROVE  LimitAfter(n % UintSize) = Clamp(Wait - n)
<1>1. Wait \in Int /\ UintSize \in Nat \ {0}
  BY WaitAssumption
<1>2. (Wait - (n % UintSize)) % UintSize = (Wait - n) % UintSize
  BY <1>1, RestOfDifference
<1> DEFINE rest == Wait - n
<1>3. rest \in Int /\ -UintSize <= 2 * rest /\ 2 * rest < UintSize
  BY <1>1
<1> HIDE DEF rest
<1>4. rest >= 0 => rest % UintSize = rest
  BY <1>1, <1>3
<1>5. rest < 0 => rest % UintSize = rest + UintSize
  BY <1>1, <1>3
<1>6. ToInt(rest % UintSize) = rest
  BY <1>1, <1>3, <1>4, <1>5 DEF ToInt
<1> QED
  BY <1>2, <1>6 DEF LimitAfter, rest

(* The time of the clock, and what a read takes of it. *)
Now == TickOf(sec, tick)

LEMMA TickType ==
    ASSUME NEW s \in 0 .. MaxSec, NEW t \in Ticks
    PROVE  TickOf(s, t) \in 0 .. (MaxSec + 1) * TicksPerSec
<1>1. TicksPerSec \in Nat \ {0} /\ MaxSec \in Nat /\ t \in 0 .. TicksPerSec - 1
  BY WaitAssumption DEF Ticks
<1>2. s * TicksPerSec \in 0 .. MaxSec * TicksPerSec
  BY <1>1
<1>3. (MaxSec + 1) * TicksPerSec = MaxSec * TicksPerSec + TicksPerSec
  BY <1>1
<1> QED
  BY <1>1, <1>2, <1>3 DEF TickOf

LEMMA Later ==
    ASSUME NEW s \in 0 .. MaxSec, NEW t \in Ticks, sec \in 0 .. MaxSec, tick \in Ticks,
           NotBefore(s, t)
    PROVE  /\ TickOf(s, t) - Now \in Nat
           /\ s - sec \in 0 .. TickOf(s, t) - Now
<1>1. TicksPerSec \in Nat \ {0} /\ MaxSec \in Nat /\ Ticks = 0 .. TicksPerSec - 1
  BY WaitAssumption DEF Ticks
<1>2. s * TicksPerSec - sec * TicksPerSec = (s - sec) * TicksPerSec /\ s - sec \in Nat
  BY <1>1 DEF NotBefore
<1>3. s # sec => (s - sec) * TicksPerSec >= TicksPerSec + (s - sec) - 1
  <2>1. \A d \in Nat \ {0} : d * TicksPerSec >= TicksPerSec + d - 1
    BY <1>1
  <2> QED
    BY <1>2, <2>1
<1>4. TickOf(s, t) - Now = (s - sec) * TicksPerSec + t - tick
  BY <1>1, <1>2 DEF TickOf, Now
<1>5. (s - sec) * TicksPerSec \in Int /\ t \in Int /\ tick \in Int
  BY <1>1, <1>2
<1>6. CASE s # sec
  BY <1>1, <1>2, <1>3, <1>4, <1>5, <1>6
<1>7. CASE s = sec
  <2>1. t >= tick /\ (s - sec) * TicksPerSec = 0
    BY <1>1, <1>7 DEF NotBefore
  <2> QED
    BY <1>4, <1>5, <1>7, <2>1
<1> QED
  BY <1>6, <1>7

(* The timer counts down by the time that passes, or starts again. *)
LEMMA TimerFalls ==
    ASSUME NEW a \in Nat, NEW b \in Nat, a <= b, NEW m \in Nat \ {0}
    PROVE  \E r, s \in 0 .. m - 1 :
               /\ a % m = r /\ b % m = s
               /\ r <= s => s - r <= b - a
               /\ s < r => b - a >= 1
<1> DEFINE Divides(x) == \E r \in 0 .. m - 1, q \in Int : x = m * q + r /\ x % m = r
<1>0. Divides(a) /\ Divides(b)
  <2>1. \A x \in Int : Divides(x)
    BY Division
  <2>2. a \in Int /\ b \in Int
    OBVIOUS
  <2> HIDE DEF Divides
  <2> QED
    BY <2>1, <2>2
<1>1. PICK r \in 0 .. m - 1, q \in Int : a = m * q + r /\ a % m = r
  BY <1>0
<1>2. PICK s \in 0 .. m - 1, p \in Int : b = m * p + s /\ b % m = s
  BY <1>0
<1>3. m * (p - q) = (b - a) - (s - r)
  BY <1>1, <1>2
<1>4. ASSUME r <= s PROVE s - r <= b - a
  <2>1. p - q >= 0
    <3>1. ASSUME p - q <= -1 PROVE FALSE
      <4>1. m * (p - q) <= -m
        BY <3>1
      <4> QED
        BY <1>1, <1>2, <1>3, <1>4, <4>1
    <3> QED
      BY <3>1
  <2>2. m * (p - q) >= 0
    BY <2>1
  <2> QED
    BY <1>1, <1>2, <1>3, <2>2
<1>5. a = b => r = s
  BY <1>1, <1>2
<1>6. s < r => b - a >= 1
  BY <1>1, <1>2, <1>5
<1> QED
  BY <1>1, <1>2, <1>4, <1>6

LEMMA SecondsBound ==
    ASSUME NEW n \in Int, NEW k \in Nat, -k <= n, n <= TicksPerSec * k
    PROVE  Seconds(n) \in -k .. k
<1>1. TicksPerSec \in Nat \ {0}
  BY WaitAssumption
<1>2. \A x \in Nat : x <= TicksPerSec * k => x \div TicksPerSec \in 0 .. k
  BY <1>1
<1>3. CASE n < 0
  <2>1. 0 - n \in Nat /\ 0 - n <= TicksPerSec * k
    <3>1. k <= TicksPerSec * k
      BY <1>1
    <3>2. 0 - n \in Nat /\ 0 - n <= k /\ TicksPerSec * k \in Nat
      BY <1>1, <1>3
    <3> QED
      BY <3>1, <3>2
  <2>2. (0 - n) \div TicksPerSec \in 0 .. k
    BY <1>2, <2>1
  <2> QED
    BY <1>3, <2>2 DEF Seconds
<1>4. CASE n >= 0
  <2>1. n \div TicksPerSec \in 0 .. k
    BY <1>2, <1>4
  <2> QED
    BY <1>4, <2>1 DEF Seconds
<1> QED
  BY <1>3, <1>4

(* However a platform measures, a read of some ticks is not taken for more *)
(* than 1000 units per tick.                                               *)
LEMMA MeasuredBound ==
    ASSUME platform \in {"ansi", "windows", "hdmi2usb"}, sec \in 0 .. MaxSec, tick \in Ticks,
           NEW s \in 0 .. MaxSec, NEW t \in Ticks, NotBefore(s, t)
    PROVE  Measured(s, t) \in -1000 * (TickOf(s, t) - Now) .. 1000 * (TickOf(s, t) - Now)
<1> DEFINE d == TickOf(s, t) - Now
<1>1. d \in Nat /\ s - sec \in 0 .. d /\ TickOf(s, t) \in Nat /\ Now \in Nat
  BY Later, TickType, WaitAssumption DEF Now
<1>2. TicksPerSec \in Nat \ {0}
  BY WaitAssumption
<1>3. CASE platform = "ansi"
  <2>1. Measured(s, t) = TimeSeconds(s, t)
    BY <1>3 DEF Measured
  <2> QED
    BY <1>1, <2>1 DEF TimeSeconds
<1>4. CASE platform = "windows"
  <2>1. Measured(s, t) = (d * 1000) \div TicksPerSec
    <3>1. Measured(s, t) = Milliseconds(s, t)
      BY <1>4 DEF Measured
    <3> QED
      BY <3>1 DEF Milliseconds, Now
  <2> HIDE DEF d
  <2>2. \A x \in Nat : x \div TicksPerSec \in 0 .. x
    BY <1>2
  <2>3. d * 1000 \in Nat /\ d * 1000 = 1000 * d
    BY <1>1
  <2>4. Measured(s, t) \in -1000 * d .. 1000 * d
    BY <1>1, <2>1, <2>2, <2>3
  <2> QED
    BY <2>4 DEF d
<1>5. CASE platform = "hdmi2usb"
  <2> DEFINE m == RollOver * TicksPerSec
  <2>1. m \in Nat \ {0} /\ m = 11 * TicksPerSec
    BY <1>2 DEF RollOver
  <2>2. Now <= TickOf(s, t)
    BY <1>1
  <2> HIDE DEF m
  <2>3. PICK a, b \in 0 .. m - 1 :
            /\ Now % m = a /\ TickOf(s, t) % m = b
            /\ a <= b => b - a <= TickOf(s, t) - Now
            /\ b < a => TickOf(s, t) - Now >= 1
    BY <1>1, <2>1, <2>2, TimerFalls
  <2> DEFINE n == (m - b) + (IF m - a < m - b THEN m ELSE 0) - (m - a)
  <2>4. Measured(s, t) = Seconds(n)
    <3>1. Measured(s, t) = TimerSeconds(s, t)
      BY <1>5 DEF Measured
    <3>2. TimerValue(sec, tick) = m - a /\ TimerValue(s, t) = m - b
      BY <2>3 DEF TimerValue, Now, m
    <3> QED
      BY <3>1, <3>2 DEF TimerSeconds, m
  <2> HIDE DEF d
  <2>5. (a <= b => b - a <= d) /\ (b < a => d >= 1)
    BY <2>3 DEF d
  <2>6. CASE b < a
    <3> DEFINE k == 22 * d
    <3>1. n \in 0 .. 22 * TicksPerSec /\ d >= 1
      BY <1>2, <2>1, <2>5, <2>6
    <3>2. 22 * TicksPerSec <= TicksPerSec * k /\ k \in Nat
      BY <1>1, <1>2, <3>1
    <3>3. TicksPerSec * k \in Nat
      BY <1>2, <3>2
    <3> HIDE DEF k, n
    <3>4. n \in Int /\ -k <= n /\ n <= TicksPerSec * k
      BY <1>2, <3>1, <3>2, <3>3
    <3>5. Measured(s, t) \in -k .. k
      BY <2>4, <3>2, <3>4, SecondsBound
    <3> QED
      BY <1>1, <3>5 DEF d, k
  <2>7. CASE ~(b < a)
    <3>1. n \in Int /\ -d <= n /\ n <= 0
      BY <1>1, <2>1, <2>5, <2>7
    <3> HIDE DEF n
    <3>2. TicksPerSec * d \in Nat
      BY <1>1, <1>2
    <3>3. Measured(s, t) \in -d .. d
      BY <1>1, <2>4, <3>1, <3>2, SecondsBound
    <3> QED
      BY <1>1, <3>3 DEF d
  <2> QED
    BY <2>6, <2>7
<1> QED
  BY <1>3, <1>4, <1>5

-----------------------------------------------------------------------------
(* elapsed_time is the remainder of the sum, and the sum is in proportion  *)
(* to the clock; the timeout was computed from elapsed_time.               *)
RestInv ==
    /\ platform \in Platforms
    /\ status \in {"between", "reading",
                   "MODEM_NO_ERRORS", "MODEM_TIMEOUT", "MODEM_HW_ERROR"}
    /\ sec \in 0 .. MaxSec /\ tick \in Ticks /\ firstTick \in Ticks
    /\ limit \in Nat /\ total \in Int /\ missed \in Nat
    /\ elapsed = total % UintSize
    /\ status = "reading" => limit = LimitAfter(elapsed)
    /\ total \in -1000 * Now .. 1000 * Now

LEMMA LimitType ==
    ASSUME NEW e \in Int
    PROVE  LimitAfter(e) \in Nat
<1>1. UintSize \in Nat \ {0} /\ Wait - e \in Int
  BY WaitAssumption
<1>2. \A x \in Int : x % UintSize \in 0 .. UintSize - 1
  BY <1>1, Division
<1>3. PICK r \in 0 .. UintSize - 1 : (Wait - e) % UintSize = r
  BY <1>1, <1>2
<1> QED
  BY <1>1, <1>3 DEF LimitAfter, Clamp, ToInt

LEMMA InitRestInv == Init => RestInv
<1> SUFFICES ASSUME Init PROVE RestInv
  OBVIOUS
<1>1. TicksPerSec \in Nat \ {0} /\ MaxSec \in Nat /\ UintSize \in Nat \ {0}
  BY WaitAssumption
<1>2. LimitAfter(0) \in Nat
  BY LimitType
<1>3. 0 % UintSize = 0
  BY <1>1
<1>4. Now \in Nat
  BY <1>1 DEF Init, Now, TickOf, Ticks
<1>5. total = 0 /\ 0 \in -1000 * Now .. 1000 * Now
  BY <1>4 DEF Init
<1> QED
  BY <1>1, <1>2, <1>3, <1>5 DEF Init, RestInv

(* Every read adds what it measures to the sum and to its remainder. *)
LEMMA ReadAdds ==
    ASSUME RestInv, NEW s \in 0 .. MaxSec, NEW t \in Ticks, NotBefore(s, t), ReadEnds(s, t)
    PROVE  /\ platform' \in Platforms
           /\ sec' \in 0 .. MaxSec /\ tick' \in Ticks /\ firstTick' \in Ticks
           /\ total' \in Int
           /\ elapsed' = total' % UintSize
           /\ total' \in -1000 * Now' .. 1000 * Now'
           /\ limit' \in Nat /\ missed' \in Nat
<1>1. UintSize \in Nat \ {0} /\ platform \in {"ansi", "windows", "hdmi2usb"}
  BY WaitAssumption DEF RestInv
<1>2. PICK x \in Int : /\ Measured(s, t) = x
                       /\ x \in -1000 * (TickOf(s, t) - Now) .. 1000 * (TickOf(s, t) - Now)
  <2>1. Measured(s, t) \in -1000 * (TickOf(s, t) - Now) .. 1000 * (TickOf(s, t) - Now)
    BY <1>1, MeasuredBound DEF RestInv
  <2>2. TickOf(s, t) - Now \in Nat
    BY Later DEF RestInv
  <2> QED
    BY <2>1, <2>2
<1>3. total' = total + x /\ elapsed' = ((total % UintSize) + x) % UintSize
  BY <1>2 DEF ReadEnds, AddElapsed, RestInv
<1>4. \A a, b \in Int : ((a % UintSize) + b) % UintSize = (a + b) % UintSize
  BY <1>1, RestOfSum
<1>5. elapsed' = total' % UintSize
  <2>1. total \in Int
    BY DEF RestInv
  <2>2. ((total % UintSize) + x) % UintSize = (total + x) % UintSize
    BY <1>2, <1>4, <2>1, Zenon
  <2> QED
    BY <1>3, <2>2
<1>6. Now' = TickOf(s, t)
  BY DEF ReadEnds, Now, TickOf
<1>7. TickOf(s, t) \in Int /\ Now \in Int
  BY TickType, WaitAssumption DEF Now, RestInv
<1>8. total + x \in -1000 * TickOf(s, t) .. 1000 * TickOf(s, t)
  BY <1>2, <1>7 DEF RestInv
<1> QED
  BY <1>2, <1>3, <1>5, <1>6, <1>8 DEF ReadEnds, RestInv

LEMMA TimeoutLater ==
    ASSUME RestInv, NEW s \in 0 .. MaxSec, NEW t \in Ticks, Timeout(s, t)
    PROVE  NotBefore(s, t)
<1>1. CASE Unlimited
  BY <1>1 DEF Timeout
<1>2. CASE ~Unlimited
  <2>1. s = sec + limit /\ t = tick /\ limit \in Nat /\ sec \in Nat /\ tick \in Int
    BY <1>2, WaitAssumption DEF Timeout, RestInv, Ticks
  <2> QED
    BY <2>1 DEF NotBefore
<1> QED
  BY <1>1, <1>2

(* Time that passes between reads leaves the sum in proportion. *)
LEMMA GapRest ==
    ASSUME RestInv, NEW s \in 0 .. MaxSec, NEW t \in Ticks, ReadStarts(s, t)
    PROVE  RestInv'
<1>1. /\ UintSize \in Nat \ {0} /\ MaxSec \in Nat
      /\ NotBefore(s, t) /\ sec' = s /\ tick' = t /\ missed' = missed + (s - sec)
      /\ elapsed' = elapsed /\ total' = total /\ limit' = LimitAfter(elapsed)
      /\ sec \in 0 .. MaxSec /\ tick \in Ticks
  BY WaitAssumption DEF ReadStarts, RestInv
<1>2. TickOf(s, t) - Now \in Nat /\ s - sec \in Nat
  BY <1>1, Later
<1>3. Now' = TickOf(s, t)
  BY <1>1 DEF Now, TickOf
<1>4. TickOf(s, t) \in Int /\ Now \in Int
  BY <1>1, TickType DEF Now
<1>5. total' \in -1000 * Now' .. 1000 * Now'
  BY <1>1, <1>2, <1>3, <1>4 DEF RestInv
<1>6. missed' \in Nat
  BY <1>1, <1>2 DEF RestInv
<1>7. elapsed \in Int
  BY <1>1 DEF RestInv
<1>8. limit' \in Nat
  BY <1>1, <1>7, LimitType
<1> QED
  BY <1>1, <1>5, <1>6, <1>8 DEF ReadStarts, RestInv

LEMMA NextRestInv == RestInv /\ [Next]_vars => RestInv'
<1> SUFFICES ASSUME RestInv, [Next]_vars PROVE RestInv'
  OBVIOUS
<1>1. CASE UNCHANGED vars
  BY <1>1 DEF vars, RestInv, Now, TickOf
<1>2. ASSUME NEW s \in 0 .. MaxSec, NEW t \in Ticks, ReadStarts(s, t) PROVE RestInv'
  BY <1>2, GapRest
<1>3. ASSUME NEW s \in 0 .. MaxSec, NEW t \in Ticks,
             Ready(s, t) \/ Junk(s, t) \/ PortFails(s, t) \/ Timeout(s, t)
      PROVE  RestInv'
  <2>1. ReadEnds(s, t) /\ NotBefore(s, t)
    BY <1>3, TimeoutLater DEF Ready, Junk, PortFails, Timeout, Within
  <2>2. status' \in {"between", "MODEM_NO_ERRORS", "MODEM_TIMEOUT", "MODEM_HW_ERROR"}
    BY <1>3 DEF Ready, Junk, PortFails, Timeout
  <2> QED
    BY <2>1, <2>2, ReadAdds DEF RestInv
<1> QED
  BY <1>1, <1>2, <1>3 DEF Next

(* The state of wait_for_rx_ready has its types, on every platform: the    *)
(* timeout that it hands to a read is never negative.                      *)
THEOREM WaitTyped == Spec => []TypeOK
<1>1. RestInv => TypeOK
  <2> SUFFICES ASSUME RestInv PROVE TypeOK
    OBVIOUS
  <2>1. UintSize \in Nat \ {0}
    BY WaitAssumption
  <2>2. elapsed \in 0 .. UintSize - 1
    BY <2>1, Division DEF RestInv
  <2> QED
    BY <2>2 DEF RestInv, TypeOK
<1> QED
  BY <1>1, InitRestInv, NextRestInv, PTL DEF Spec

(* With a sum in the range of an int, the unsigned subtraction and its     *)
(* conversion give the difference itself.                                  *)
LEMMA RestFits ==
    ASSUME NoOverflow
    PROVE  RestInv => LimitIsRest
<1> SUFFICES ASSUME RestInv, status = "reading" PROVE limit = Clamp(Wait - total)
  BY DEF LimitIsRest
<1>1. TicksPerSec \in Nat \ {0} /\ MaxSec \in Nat /\ UintSize \in Nat /\ Wait \in Nat
  BY WaitAssumption
<1> DEFINE last == (MaxSec + 1) * TicksPerSec
<1>2. last \in Nat /\ Now \in 0 .. last
  BY <1>1, TickType DEF Now, RestInv
<1>3. 1000 * (MaxSec + 1) * TicksPerSec = 1000 * last
  BY <1>1
<1>4. UintSize > 2 * (Wait + 1000 * last)
  BY <1>3 DEF NoOverflow
<1> HIDE DEF last
<1>5. total \in -1000 * last .. 1000 * last
  BY <1>2 DEF RestInv
<1>6. -UintSize <= 2 * (Wait - total) /\ 2 * (Wait - total) < UintSize
  BY <1>1, <1>2, <1>4, <1>5
<1>7. LimitAfter(total % UintSize) = Clamp(Wait - total)
  BY <1>5, <1>6, <1>2, LimitOfSum
<1> QED
  BY <1>7 DEF RestInv

(* On every platform the next read of wait_for_rx_ready gets what is left  *)
(* of the minute by the times added up so far, or 0 when they exceed it;   *)
(* so too where elapsed_time has wrapped around below zero.                *)
THEOREM RestOfMinute ==
    ASSUME NoOverflow
    PROVE  Spec => []LimitIsRest
BY RestFits, InitRestInv, NextRestInv, PTL DEF Spec
=============================================================================
