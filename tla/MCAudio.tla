------------------------------ MODULE MCAudio -------------------------------
(* TLC's instances of Audio.                                               *)
EXTENDS Audio
=============================================================================
