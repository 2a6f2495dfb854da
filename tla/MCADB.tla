-------------------------------- MODULE MCADB --------------------------------
(* TLC's instances of ADB.                                                 *)
EXTENDS ADB
CONSTANTS a, b
=============================================================================
