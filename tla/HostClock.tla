------------------------------ MODULE HostClock ------------------------------
(***************************************************************************)
(* Host times and Mac times of Unix/timer_unix.cpp, in the build that uses *)
(* struct timeval.  A Mac time is an int32: positive milliseconds, or      *)
(* negative microseconds.  INT_MIN, which has no negative, is left out.    *)
(***************************************************************************)
EXTENDS Integers

CONSTANTS
  Milli,   \* 1000: milliseconds per second, microseconds per millisecond
  INT_MAX  \* 0x7fffffff

ASSUME ClockAssumption == Milli \in Nat \ {0} /\ INT_MAX \in Nat \ {0}

Million == Milli * Milli

HostTimes == [tv_sec : Nat, tv_usec : 0 .. Million - 1]
MacTimes == -INT_MAX .. INT_MAX

\* The value of an integer x in 32 bits.
Int32(x) == ((x + INT_MAX + 1) % (2 * (INT_MAX + 1))) - (INT_MAX + 1)

timer_add_time(a, b) ==
  LET sec == a.tv_sec + b.tv_sec
      usec == a.tv_usec + b.tv_usec
  IN IF usec >= Million
     THEN [tv_sec |-> sec + 1, tv_usec |-> usec - Million]
     ELSE [tv_sec |-> sec, tv_usec |-> usec]

timer_sub_time(a, b) ==
  LET sec == a.tv_sec - b.tv_sec
      usec == a.tv_usec - b.tv_usec
  IN IF usec < 0
     THEN [tv_sec |-> sec - 1, tv_usec |-> usec + Million]
     ELSE [tv_sec |-> sec, tv_usec |-> usec]

\* Less than, equal to or greater than 0, as a is to b.
timer_cmp_time(a, b) ==
  IF a.tv_sec = b.tv_sec THEN a.tv_usec - b.tv_usec ELSE a.tv_sec - b.tv_sec

timer_mac2host_time(mactime) ==
  IF mactime > 0
  THEN [tv_sec |-> mactime \div Milli, tv_usec |-> (mactime % Milli) * Milli]
  ELSE [tv_sec |-> (-mactime) \div Million, tv_usec |-> (-mactime) % Million]

\* A mutated form: a time that has passed is not told from one to come.
timer_host2mac_time_Passed(t) ==
  LET usec == t.tv_sec * Million + t.tv_usec
  IN IF usec > INT_MAX THEN Int32(usec \div Milli) ELSE -usec

\* "A negative input value for hosttime results in a zero return value.  As long
\* as the microseconds value fits in 32 bit, it must not be converted to
\* milliseconds!"
timer_host2mac_time(t) ==
  LET usec == t.tv_sec * Million + t.tv_usec
  IN IF t.tv_sec < 0 THEN 0
     ELSE IF usec > INT_MAX THEN Int32(usec \div Milli) ELSE -usec

-----------------------------------------------------------------------------
\* What a host time and a Mac time stand for, in microseconds.
Usecs(t) == t.tv_sec * Million + t.tv_usec
Duration(mactime) == IF mactime > 0 THEN mactime * Milli ELSE 0 - mactime

\* The host time of so many microseconds.
HostTime(usec) == [tv_sec |-> usec \div Million, tv_usec |-> usec % Million]
=============================================================================
