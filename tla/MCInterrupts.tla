---------------------------- MODULE MCInterrupts ----------------------------
(* Model-checking instance of Interrupts: the .cfg files choose the build    *)
(* (locked or plain updates of spcflags) and the bounds.                     *)
EXTENDS Interrupts
=============================================================================
