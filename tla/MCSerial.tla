------------------------------ MODULE MCSerial ------------------------------
(* TLC's instances of Serial.                                              *)
EXTENDS Serial
=============================================================================
