------------------------------ MODULE MCDevices -----------------------------
(***************************************************************************)
(* TLC's instances of Devices.  Since the drivers share no state, one of   *)
(* them is at rest: the network if there are drives, the disk drivers if   *)
(* there are none.                                                         *)
(***************************************************************************)
EXTENDS Devices

CONSTANTS p, q, runt, hfs, audio

Drive(driver, medium) == [driver |-> driver, medium |-> medium]
MCSetups ==
  { <<>>,
    <<Drive("sony", "floppy")>>,
    <<Drive("sony", "file"), Drive("disk", "file")>>,
    <<Drive("cdrom", "cdrom")>>,
    <<Drive("cdrom", "file"), Drive("cdrom", "file")>> }

MCNext ==
  \/ drives = <<>> /\ Next /\ UNCHANGED disksVars
  \/ drives # <<>> /\ DisksNext /\ UNCHANGED vars

\* Nothing that has to happen is possible in the driver that is at rest.
MCSpec ==
  DevicesInit /\ [][MCNext]_<<vars, disksVars>> /\ Fairness /\ DisksFairness
=============================================================================
