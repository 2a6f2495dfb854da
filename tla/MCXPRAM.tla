------------------------------- MODULE MCXPRAM -------------------------------
(* TLC's instances of XPRAM.                                               *)
EXTENDS XPRAM
Zeros == [i \in Cells |-> 0]
=============================================================================
