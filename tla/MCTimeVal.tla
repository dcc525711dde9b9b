------------------------------ MODULE MCTimeVal ------------------------------
EXTENDS TimeVal

\* A clock on a whole second, one a step short of the next second, and one
\* just before it.
MCStartClock == {[sec |-> 7, usec |-> 0], [sec |-> 7, usec |-> 600000],
                 [sec |-> 7, usec |-> 999999]}

\* Timer lengths on each side of the minute, hour, day and week boundaries,
\* and one past 99 weeks.
MCDelaySecs == {0, 59, 60, 3599, 86400, 86401, 604800, 604801, 100 * 604800 + 90061}

\* Clock advances that carry into tv_sec and ones that do not.
MCSteps == {[sec |-> 0, usec |-> 400000], [sec |-> 0, usec |-> 999999], [sec |-> 1, usec |-> 0]}
====
