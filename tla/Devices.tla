------------------------------- MODULE Devices -------------------------------
(***************************************************************************)
(* The two drivers whose interrupts find hardware that comes and goes,     *)
(* Ether (packets) and Disks (media), in one emulator: the steps of either *)
(* happen between those of the other.  They share no state.                *)
(***************************************************************************)
EXTENDS Ether, Disks

DevicesInit == Init /\ DisksInit

DevicesNext ==
  \/ Next /\ UNCHANGED disksVars
  \/ DisksNext /\ UNCHANGED vars

DevicesSpec == DevicesInit /\ [][DevicesNext]_<<vars, disksVars>>

\* The type of every variable, of both modules.
TypesOK == TypeOK /\ DisksTypeOK
=============================================================================
