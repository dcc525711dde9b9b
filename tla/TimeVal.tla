------------------------------- MODULE TimeVal -------------------------------
(***************************************************************************)
(* The timeval helpers of src/ha_debug.c (tv_adjust, tv_add, tv_sub,      *)
(* int2tv, tv_ceil, tv_floor, tv_cmp) and the timer dump built on them    *)
(* (ha_timer_dump -> ha_timeval_dump), which prints how long a pending     *)
(* timer has to run as weeks/days/hours/minutes/seconds.                   *)
(*                                                                         *)
(* A timeval is a record [sec, usec].  The dump's text is kept as the      *)
(* format chosen and the fields printed: the reader's value of the text is *)
(* what the properties compare.  Around the helpers, the event loop's      *)
(* clock advances and a timer is armed, dumped and fired.                  *)
(***************************************************************************)
EXTENDS Integers

CONSTANTS
  StartClock,  \* values of the relative clock at start: timevals
  DelaySecs,   \* timer lengths in seconds (thread_add_timer's argument)
  Steps,       \* clock advances between two event-loop passes: timevals
  MaxTicks     \* bound on the clock advances

USEC == 1000000
MINUTE_IN_SECONDS == 60
HOUR_IN_SECONDS   == 60 * MINUTE_IN_SECONDS
DAY_IN_SECONDS    == 24 * HOUR_IN_SECONDS
WEEK_IN_SECONDS   == 7 * DAY_IN_SECONDS

VARIABLES
  now,     \* recent_relative_time ()
  sands,   \* the armed timer's expiry (thread->u.sands), or NoTimer
  last,    \* the last dump: [out, sands, at], or NoDump
  ticks    \* clock advances so far

vars == <<now, sands, last, ticks>>

NoTimer == [sec |-> -1, usec |-> -1]
NoDump  == [out |-> "none"]

-----------------------------------------------------------------------------
(* The helpers.                                                            *)

\* Variant: the first loop stops at usec > 1000000 (an off-by-one).
TvAdjustOffByOne(a) ==
  CASE a.usec > USEC -> [sec |-> a.sec + 1, usec |-> a.usec - USEC]
    [] a.usec < 0    -> [sec |-> a.sec - 1, usec |-> a.usec + USEC]
    [] OTHER         -> a

\* tv_adjust: carry whole seconds out of usec, then borrow until usec is
\* not negative.
RECURSIVE TvAdjust(_)
TvAdjust(a) ==
  CASE a.usec >= USEC -> TvAdjust([sec |-> a.sec + 1, usec |-> a.usec - USEC])
    [] a.usec < 0     -> TvAdjust([sec |-> a.sec - 1, usec |-> a.usec + USEC])
    [] OTHER          -> a

TvCeil(a)  == LET b == TvAdjust(a) IN IF b.usec # 0 THEN b.sec + 1 ELSE b.sec
TvFloor(a) == TvAdjust(a).sec
Int2tv(n)  == [sec |-> n, usec |-> 0]
TvAdd(a, b) == TvAdjust([sec |-> a.sec + b.sec, usec |-> a.usec + b.usec])
TvSub(a, b) == TvAdjust([sec |-> a.sec - b.sec, usec |-> a.usec - b.usec])
TvCmp(a, b) == IF a.sec = b.sec THEN a.usec - b.usec ELSE a.sec - b.sec

\* ha_timeval_dump on a timeval with usec >= 0.  The unit fields are
\* unsigned long; each is taken only when the seconds left exceed a week
\* or a day, or reach an hour or a minute.
TimevalDump(t) ==
  LET ms0 == t.usec \div 1000
      s0  == IF ms0 >= 1000 THEN t.sec + ms0 \div 1000 ELSE t.sec
      ms  == IF ms0 >= 1000 THEN ms0 % 1000 ELSE ms0
      w   == IF s0 > WEEK_IN_SECONDS THEN s0 \div WEEK_IN_SECONDS ELSE 0
      s1  == s0 - w * WEEK_IN_SECONDS
      d   == IF s1 > DAY_IN_SECONDS THEN s1 \div DAY_IN_SECONDS ELSE 0
      s2  == s1 - d * DAY_IN_SECONDS
      h   == IF s2 >= HOUR_IN_SECONDS THEN s2 \div HOUR_IN_SECONDS ELSE 0
      s3  == s2 - h * HOUR_IN_SECONDS
      m   == IF s3 >= MINUTE_IN_SECONDS THEN s3 \div MINUTE_IN_SECONDS ELSE 0
      s4  == s3 - m * MINUTE_IN_SECONDS
  IN  [fmt |-> CASE w > 99 -> "wd"  [] w # 0 -> "wdh" [] d # 0 -> "dhm"
                 [] h # 0  -> "hms" [] m # 0 -> "ms"  [] OTHER -> "s.ms",
       w |-> w, d |-> d, h |-> h, m |-> m, s |-> s4, ms |-> ms]

\* Variant: the operands of tv_sub swapped (now - sands).
TimerDumpSwapped(t, nw) == TimevalDump(TvSub(nw, t))

\* ha_timer_dump: the time left, sands - now, through ha_timeval_dump.
TimerDump(t, nw) == TimevalDump(TvSub(t, nw))

-----------------------------------------------------------------------------
(* The event loop around them.                                             *)

Init ==
  /\ now \in StartClock
  /\ sands = NoTimer /\ last = NoDump /\ ticks = 0

\* thread_add_timer (master, f, arg, n): expiry at now + int2tv (n).
Arm ==
  /\ sands = NoTimer
  /\ \E n \in DelaySecs : sands' = TvAdd(now, Int2tv(n))
  /\ UNCHANGED <<now, last, ticks>>

\* The relative clock advances between two passes of the loop.
Tick ==
  /\ ticks < MaxTicks
  /\ \E st \in Steps : now' = TvAdd(now, st)
  /\ ticks' = ticks + 1
  /\ UNCHANGED <<sands, last>>

\* A debug command dumps the armed timer.
Dump ==
  /\ sands # NoTimer
  /\ last' = [out |-> TimerDump(sands, now), sands |-> sands, at |-> now]
  /\ UNCHANGED <<now, sands, ticks>>

\* thread_fetch runs a timer whose expiry is not after now.
Fire ==
  /\ sands # NoTimer /\ TvCmp(now, sands) >= 0
  /\ sands' = NoTimer
  /\ UNCHANGED <<now, last, ticks>>

Next == Arm \/ Tick \/ Dump \/ Fire

Spec == Init /\ [][Next]_vars

-----------------------------------------------------------------------------
(* Properties.                                                             *)

\* The reference: a duration of s seconds and u microseconds, normalised
\* by floor division.
Norm(s, u) == [sec |-> s + u \div USEC, usec |-> u % USEC]

\* The time left as the reader of a dump takes it: seconds, and the unit
\* of the last field printed.
ReadSec(o) ==
  CASE o.fmt = "wd"  -> o.w * WEEK_IN_SECONDS + o.d * DAY_IN_SECONDS
    [] o.fmt = "wdh" -> o.w * WEEK_IN_SECONDS + o.d * DAY_IN_SECONDS + o.h * HOUR_IN_SECONDS
    [] o.fmt = "dhm" -> o.d * DAY_IN_SECONDS + o.h * HOUR_IN_SECONDS + o.m * MINUTE_IN_SECONDS
    [] o.fmt = "hms" -> o.h * HOUR_IN_SECONDS + o.m * MINUTE_IN_SECONDS + o.s
    [] o.fmt = "ms"  -> o.m * MINUTE_IN_SECONDS + o.s

Unit(o) ==
  CASE o.fmt = "wd" -> DAY_IN_SECONDS [] o.fmt = "wdh" -> HOUR_IN_SECONDS
    [] o.fmt = "dhm" -> MINUTE_IN_SECONDS [] OTHER -> 1

\* "%ld.%03lds" read in milliseconds: the sign printed applies to both parts.
ReadMs(o) == IF o.s < 0 THEN o.s * 1000 - o.ms ELSE o.s * 1000 + o.ms

\* The text denotes the duration d, truncated to the last unit it shows.
Denotes(o, d) ==
  IF o.fmt = "s.ms" THEN ReadMs(o) = d.sec * 1000 + d.usec \div 1000
  ELSE ReadSec(o) <= d.sec /\ d.sec < ReadSec(o) + Unit(o)

\* tv_add keeps the clock and the timer normalised through every carry of
\* the clock's steps, tv_sub returns the normalised difference, and
\* tv_floor, tv_ceil and tv_cmp agree with the reference order on them.
ArithmeticAgrees ==
  /\ now.usec \in 0..(USEC - 1)
  /\ sands # NoTimer =>
       LET d == Norm(sands.sec - now.sec, sands.usec - now.usec)
       IN  /\ sands.usec \in 0..(USEC - 1)
           /\ TvSub(sands, now) = d
           /\ TvFloor(d) = d.sec
           /\ TvCeil(d) = IF d.usec = 0 THEN d.sec ELSE d.sec + 1
           /\ (TvCmp(sands, now) < 0) = (d.sec < 0)

\* ha_timer_dump of a timer that has not expired yet prints the time left,
\* truncated to the unit of its last field: across the week, day, hour and
\* minute boundaries that ha_timeval_dump tests with > and >=.
DumpDenotes ==
  (last # NoDump /\ TvCmp(last.sands, last.at) >= 0) =>
    Denotes(last.out, Norm(last.sands.sec - last.at.sec, last.sands.usec - last.at.usec))
====
