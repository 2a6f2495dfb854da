------------------------------- MODULE MCVideo -------------------------------
(* TLC's instances of Video.                                               *)
EXTENDS Video
CONSTANTS p, q
=============================================================================
