--------------------------- MODULE MCTimeManager ----------------------------
(* TLC's instances of TimeManager.                                           *)
EXTENDS TimeManager

CONSTANTS t1, t2, t3

\* Delays of a microsecond and of a millisecond.
MicroMilli == {-1, 1}
=============================================================================
