-------------------------------- MODULE Disks -------------------------------
(***************************************************************************)
(* The three disk drivers: sony.cpp (floppies), disk.cpp and cdrom.cpp,    *)
(* with what Unix/sys_unix.cpp does to the host's drives.  They share      *)
(* their structure: MacOS opens a driver, calls its periodic action once,  *)
(* and a 1 Hz interrupt looks for disks from then on.  Actors: the CPU     *)
(* thread, at task level and in the interrupt; the thread of the window's  *)
(* events, which mounts the first floppy when Ctrl-F1 is pressed; the user,*)
(* who changes disks.  What is read, written or played is left out.        *)
(***************************************************************************)
EXTENDS Naturals, Sequences, FiniteSets

CONSTANTS
  Setups,     \* the drives that prefs may name, as sequences of records
  Discs,      \* what the user has to put into a drive
  HFS,        \* those with an HFS partition
  MaxRestarts \* bound: restarts of MacOS

Drivers == {"sony", "disk", "cdrom"}

\* A drive has a driver and is a device with a removable medium or an image.
DriveInfo == [driver : Drivers, medium : {"floppy", "cdrom", "file"}]

\* CD-ROM drives are named as such in prefs, and floppy drives are not.
ASSUME DrivesAssumption ==
  /\ Setups \subseteq Seq(DriveInfo)
  /\ \A s \in Setups : \A i \in DOMAIN s :
       /\ s[i].medium = "cdrom" => s[i].driver = "cdrom"
       /\ s[i].medium = "floppy" => s[i].driver # "cdrom"
  /\ HFS \subseteq Discs /\ "none" \notin Discs
  /\ MaxRestarts \in Nat

VARIABLES
  drives,          \* the drives, in the order of their drivers
  media,           \* the disc in each, or "none"
  door,            \* the doors that are locked
  num,             \* drive numbers
  status,          \* "none", or of which life of MacOS the status record is
  dsDiskInPlace,   \* its contents, if it is of this life: 0, 1, 2 or 8
  to_be_mounted, mount_non_hfs,
  toc,             \* the disc of which the TOC and partition map were read
  acc_run_called,  \* the drivers whose interrupt routine is active
  opened,          \* the drivers MacOS has opened
  drive_queue,     \* the drives in MacOS's drive queue
  events,          \* the drives for which there is a disk event
  volume,          \* the disc that MacOS has mounted, or "none"
  cpu,             \* what the CPU thread does, at task level and in the interrupt
  key,             \* where MountVolume() is on the events' thread
  restarts,
  \* history: an event was posted since the disk was placed; the flag is that of
  \* a disk since ejected; the user may eject it; the disk was gone before the
  \* door was locked; MacOS has asked for no events for non-HFS disks
  posted, hasty, allowed, slipped, quiet

hostVars == <<drives, media, door>>
driverVars == <<num, status, dsDiskInPlace, to_be_mounted, mount_non_hfs, toc, acc_run_called>>
sysVars == <<opened, drive_queue, events, volume>>
pastVars == <<posted, hasty, allowed, slipped, quiet>>
disksVars == <<hostVars, driverVars, sysVars, cpu, key, restarts, pastVars>>

Ids == DOMAIN drives
Driver(d) == drives[d].driver
IsFile(d) == drives[d].medium = "file"
IsCDROM(d) == drives[d].medium = "cdrom"
DrivesOf(drv) == {d \in Ids : Driver(d) = drv}
Least(S) == CHOOSE x \in S : \A y \in S : x <= y

\* mount_mountable_volumes() of the floppy driver does not look for disks.
DISK_INSERT_CHECK(d) == Driver(d) # "sony"

Idle == [op |-> "none", d |-> 0, at |-> "idle"]

SysIsDiskInserted(d) == media[d] # "none"

DisksInit ==
  /\ drives \in Setups
  /\ media \in [Ids -> Discs \cup {"none"}]
  /\ \A d \in Ids : IsFile(d) => media[d] \in HFS
  /\ door = {}
  /\ num = [d \in Ids |-> 0] /\ status = [d \in Ids |-> "none"]
  /\ dsDiskInPlace = [d \in Ids |-> 0]
  /\ to_be_mounted \in [Ids -> BOOLEAN]
  /\ mount_non_hfs = [d \in Ids |-> TRUE]
  /\ toc = [d \in Ids |-> "none"]
  /\ acc_run_called = {}
  /\ opened = {} /\ drive_queue = {} /\ events = {} /\ volume = [d \in Ids |-> "none"]
  /\ cpu = [task |-> Idle, irq |-> Idle] /\ key = "no" /\ restarts = 0
  /\ posted = {} /\ hasty = {} /\ allowed = {} /\ slipped = {} /\ quiet = {}

-----------------------------------------------------------------------------
(* Where the CPU thread is: the driver call op is at step at for drive d.  *)

Processes == {"task", "irq"}

\* An interrupt is finished before the task level goes on.
At(p, at) == cpu[p].at = at /\ (p = "irq" \/ cpu.irq = Idle)
AtTask == cpu = [task |-> Idle, irq |-> Idle]

Goto(p, at) == cpu' = [cpu EXCEPT ![p].at = at]

\* The next drive of the loop over the driver's drives, or over those of all
\* active drivers in the interrupt.
Rest(c) == {e \in Ids : e > c.d /\ IF c.op = "irq" THEN Driver(e) \in acc_run_called
                                                  ELSE Driver(e) = Driver(c.d)}
NextDrive(p) ==
  LET c == cpu[p]
  IN  cpu' = [cpu EXCEPT ![p] =
        IF Rest(c) = {} THEN Idle
        ELSE [c EXCEPT !.d = Least(Rest(c)), !.at = IF c.op = "open" THEN "number" ELSE "check"]]

\* The end of accRun makes the interrupt routine active.
EndAccRun(p) ==
  IF cpu[p].op = "accRun" /\ Rest(cpu[p]) = {}
  THEN acc_run_called \cup {Driver(cpu[p].d)} ELSE acc_run_called

\* What a driver finds in the status record of d: anything if it is of a MacOS
\* before or was never allocated.
InPlace(d) == IF status[d] = "new" THEN {dsDiskInPlace[d]} ELSE {0, 1}

\* WriteMacInt8(info->status + dsDiskInPlace, v); other memory is not modelled.
SetInPlace(d, v) ==
  dsDiskInPlace' = IF status[d] = "new" THEN [dsDiskInPlace EXCEPT ![d] = v] ELSE dsDiskInPlace

\* SysMountFirstFloppy() is under way for d.
FirstFloppy ==
  {d \in Ids : drives[d].medium = "floppy" /\ \A e \in 1 .. d - 1 : drives[e].medium # "floppy"}
KeyPressed(d) == {d} \cap {e \in FirstFloppy : key # "no"}

\* get_drive_info(): the first drive of the driver with the number of d.  There is
\* one, since MacOS calls for drives in its queue; CDROMControl() would take its first
\* drive otherwise.
get_drive_info(d) == Least({e \in DrivesOf(Driver(d)) : num[e] = num[d]})

-----------------------------------------------------------------------------
(* Opening a driver: SonyOpen(), DiskOpen() and CDROMOpen().               *)

Open(drv) ==
  /\ AtTask /\ drv \notin opened /\ DrivesOf(drv) # {}
  /\ opened' = opened \cup {drv}
  /\ acc_run_called' = acc_run_called \ {drv}
  /\ cpu' = [cpu EXCEPT !.task = [op |-> "open", d |-> Least(DrivesOf(drv)), at |-> "number"]]
  /\ UNCHANGED <<hostVars, num, status, dsDiskInPlace, to_be_mounted, mount_non_hfs, toc,
                 drive_queue, events, volume, key, restarts, pastVars>>

\* A mutated form: only the driver's own drives are looked at.
FindFreeDriveNumber_Own(d) ==
  LET used == {num[e] : e \in drive_queue \cap DrivesOf(Driver(d))}
  IN  Least((1 .. Len(drives) + 1) \ used)

FindFreeDriveNumber(d) ==
  LET used == {num[e] : e \in drive_queue}
  IN  Least((1 .. Len(drives) + 1) \ used)

\* A mutated form: the flag is not reset.
NumberDrive_NoReset ==
  /\ At("task", "number")
  /\ LET d == cpu.task.d
     IN  /\ num' = [num EXCEPT ![d] = FindFreeDriveNumber(d)]
         /\ mount_non_hfs' = [mount_non_hfs EXCEPT ![d] = TRUE]
         /\ quiet' = quiet \ {d} /\ hasty' = hasty \ {d}
  /\ Goto("task", "alloc")
  /\ UNCHANGED <<hostVars, status, dsDiskInPlace, to_be_mounted, toc, acc_run_called, sysVars,
                 key, restarts, posted, allowed, slipped>>

\* The drive is numbered; then NewPtrSysClear() runs.
NumberDrive ==
  /\ At("task", "number")
  /\ LET d == cpu.task.d
     IN  /\ num' = [num EXCEPT ![d] = FindFreeDriveNumber(d)]
         /\ to_be_mounted' = [to_be_mounted EXCEPT ![d] = FALSE]
         /\ mount_non_hfs' = [mount_non_hfs EXCEPT ![d] = TRUE]
         /\ quiet' = quiet \ {d} /\ hasty' = hasty \ {d}
  /\ Goto("task", "alloc")
  /\ UNCHANGED <<hostVars, status, dsDiskInPlace, toc, acc_run_called, sysVars, key, restarts,
                 posted, allowed, slipped>>

\* No memory: the drive keeps its number and its old record.
AllocFails ==
  /\ At("task", "alloc")
  /\ NextDrive("task")
  /\ UNCHANGED <<hostVars, driverVars, sysVars, key, restarts, pastVars>>

\* There is a record; a CD-ROM is locked in before its TOC is read.
SetUpDrive ==
  /\ At("task", "alloc")
  /\ LET d == cpu.task.d
         cd == Driver(d) = "cdrom"
         place == IF cd \/ ~SysIsDiskInserted(d) THEN 0
                  ELSE IF Driver(d) = "disk" /\ IsFile(d) THEN 8 ELSE 1
     IN  /\ status' = [status EXCEPT ![d] = "new"]
         /\ dsDiskInPlace' = [dsDiskInPlace EXCEPT ![d] = place]
         /\ to_be_mounted' = [to_be_mounted EXCEPT ![d] = @ \/ place # 0]
         /\ posted' = posted \ {d}
         /\ hasty' = (IF place = 0 THEN hasty ELSE hasty \ {d}) \cup KeyPressed(d)
         /\ IF cd /\ SysIsDiskInserted(d)
            THEN Goto("task", "lock") /\ UNCHANGED drive_queue
            ELSE NextDrive("task") /\ drive_queue' = drive_queue \cup {d}
  /\ UNCHANGED <<hostVars, num, mount_non_hfs, toc, acc_run_called, opened, events, volume, key,
                 restarts, allowed, slipped, quiet>>

\* A mutated form: the door is not locked.
PreventRemoval_No(p) ==
  /\ At(p, "lock")
  /\ LET d == cpu[p].d
         open == cpu[p].op = "open"
     IN  /\ toc' = [toc EXCEPT ![d] = media[d]]
         /\ SetInPlace(d, 1)
         /\ to_be_mounted' =
              [to_be_mounted EXCEPT ![d] = @ \/ open \/ media[d] \in HFS \/ mount_non_hfs[d]]
         /\ slipped' = IF SysIsDiskInserted(d) THEN slipped \ {d} ELSE slipped \cup {d}
         /\ allowed' = allowed \ {d} /\ posted' = posted \ {d} /\ hasty' = hasty \ {d}
         /\ IF open THEN NextDrive(p) /\ drive_queue' = drive_queue \cup {d}
                    ELSE Goto(p, "post") /\ UNCHANGED drive_queue
  /\ UNCHANGED <<hostVars, num, status, mount_non_hfs, acc_run_called, opened,
                 events, volume, key, restarts, quiet>>

\* SysPreventRemoval(), read_toc() and find_hfs_partition(), in CDROMOpen() and
\* CDROMMountVolume(): the disk may have been ejected since it was found.
PreventRemoval(p) ==
  /\ At(p, "lock")
  /\ LET d == cpu[p].d
         open == cpu[p].op = "open"
     IN  /\ door' = IF IsCDROM(d) THEN door \cup {d} ELSE door
         /\ toc' = [toc EXCEPT ![d] = media[d]]
         /\ SetInPlace(d, 1)
         /\ to_be_mounted' =
              [to_be_mounted EXCEPT ![d] = @ \/ open \/ media[d] \in HFS \/ mount_non_hfs[d]]
         /\ slipped' = IF SysIsDiskInserted(d) THEN slipped \ {d} ELSE slipped \cup {d}
         /\ allowed' = allowed \ {d} /\ posted' = posted \ {d} /\ hasty' = hasty \ {d}
         /\ IF open THEN NextDrive(p) /\ drive_queue' = drive_queue \cup {d}
                    ELSE Goto(p, "post") /\ UNCHANGED drive_queue
  /\ UNCHANGED <<drives, media, num, status, mount_non_hfs, acc_run_called, opened,
                 events, volume, key, restarts, quiet>>

-----------------------------------------------------------------------------
(* mount_mountable_volumes(), called by accRun and by the interrupt.       *)

\* A mutated form: the interrupt routine is active at once.
AccRun_Active(drv) ==
  /\ AtTask /\ drv \in opened \ acc_run_called
  /\ acc_run_called' = acc_run_called \cup {drv}
  /\ cpu' = [cpu EXCEPT !.task = [op |-> "accRun", d |-> Least(DrivesOf(drv)), at |-> "check"]]
  /\ UNCHANGED <<hostVars, num, status, dsDiskInPlace, to_be_mounted, mount_non_hfs, toc, sysVars,
                 key, restarts, pastVars>>

\* Control(65): MacOS calls it until the flag in the DCE is cleared, that is, once.
AccRun(drv) ==
  /\ AtTask /\ drv \in opened \ acc_run_called
  /\ cpu' = [cpu EXCEPT !.task = [op |-> "accRun", d |-> Least(DrivesOf(drv)), at |-> "check"]]
  /\ UNCHANGED <<hostVars, driverVars, sysVars, key, restarts, pastVars>>

\* The 1 Hz interrupt, SonyInterrupt(), DiskInterrupt() and CDROMInterrupt(), is
\* taken when 68k code runs: MacOS, the Memory Manager or PostEvent().
Interrupt1Hz ==
  LET active == {d \in Ids : Driver(d) \in acc_run_called}
  IN  /\ cpu.irq = Idle /\ cpu.task.at \in {"idle", "alloc", "clear"}
      /\ active # {}
      /\ cpu' = [cpu EXCEPT !.irq = [op |-> "irq", d |-> Least(active), at |-> "check"]]
      /\ UNCHANGED <<hostVars, driverVars, sysVars, key, restarts, pastVars>>

\* A disk is looked for if there was none, and placed by DiskMountVolume().
CheckDrive(p) ==
  /\ At(p, "check")
  /\ LET d == cpu[p].d
     IN  \E place \in InPlace(d) :
           IF DISK_INSERT_CHECK(d) /\ place = 0 /\ SysIsDiskInserted(d)
           THEN IF Driver(d) = "cdrom"
                THEN /\ Goto(p, "lock")
                     /\ UNCHANGED <<dsDiskInPlace, to_be_mounted, posted, hasty>>
                ELSE /\ Goto(p, "post")
                     /\ SetInPlace(d, 1)
                     /\ to_be_mounted' = [to_be_mounted EXCEPT ![d] = TRUE]
                     /\ posted' = posted \ {d} /\ hasty' = hasty \ {d}
           ELSE Goto(p, "post") /\ UNCHANGED <<dsDiskInPlace, to_be_mounted, posted, hasty>>
  /\ UNCHANGED <<hostVars, num, status, mount_non_hfs, toc, acc_run_called, sysVars, key,
                 restarts, allowed, slipped, quiet>>

\* PostEvent(diskEvent), by drive number.
PostDiskEvent(d) == events' = events \cup {e \in drive_queue : num[e] = num[d]}

PostEvent(p) ==
  /\ At(p, "post") /\ to_be_mounted[cpu[p].d]
  /\ PostDiskEvent(cpu[p].d)
  /\ posted' = posted \cup {cpu[p].d}
  /\ Goto(p, "clear")
  /\ UNCHANGED <<hostVars, driverVars, opened, drive_queue, volume, key, restarts,
                 hasty, allowed, slipped, quiet>>

NothingToMount(p) ==
  /\ At(p, "post") /\ ~to_be_mounted[cpu[p].d]
  /\ NextDrive(p)
  /\ acc_run_called' = EndAccRun(p)
  /\ UNCHANGED <<hostVars, num, status, dsDiskInPlace, to_be_mounted, mount_non_hfs, toc, sysVars,
                 key, restarts, pastVars>>

ClearFlag(p) ==
  /\ At(p, "clear")
  /\ to_be_mounted' = [to_be_mounted EXCEPT ![cpu[p].d] = FALSE]
  /\ hasty' = hasty \ ({cpu[p].d} \ KeyPressed(cpu[p].d))
  /\ NextDrive(p)
  /\ acc_run_called' = EndAccRun(p)
  /\ UNCHANGED <<hostVars, num, status, dsDiskInPlace, mount_non_hfs, toc, sysVars, key, restarts,
                 posted, allowed, slipped, quiet>>

-----------------------------------------------------------------------------
(* Other calls of MacOS, for the drive of its queue that it names by number. *)

\* SonyPrime() remembers that the disk was accessed.
SonyPrime(d) ==
  LET e == get_drive_info(d)
  IN  /\ AtTask /\ d \in drive_queue /\ Driver(d) = "sony"
      /\ \E place \in InPlace(e) : place # 0
      /\ SetInPlace(e, 2)
      /\ UNCHANGED <<hostVars, num, status, to_be_mounted, mount_non_hfs, toc, acc_run_called,
                     sysVars, cpu, key, restarts, pastVars>>

\* Control(7): the host's drive is asked to eject, and may fail to.  MacOS
\* ejects what it has mounted and, before accRun, a disk it cannot start from.
Eject(d) ==
  LET e == get_drive_info(d)
  IN  /\ AtTask /\ d \in drive_queue
      /\ volume[d] # "none" \/ Driver(d) \notin acc_run_called
      /\ volume' = [volume EXCEPT ![d] = "none"]
      /\ \E place \in InPlace(e) :
           IF place = 8
           THEN /\ PostDiskEvent(e)
                /\ UNCHANGED <<media, door, cpu>>
           ELSE /\ place # 0
                /\ door' = door \ {e}
                /\ \E out \in BOOLEAN :
                     /\ (IsFile(e) => ~out)
                     /\ media' = IF out THEN [media EXCEPT ![e] = "none"] ELSE media
                /\ cpu' = [cpu EXCEPT !.task = [op |-> "eject", d |-> e, at |-> "ejected"]]
                /\ UNCHANGED events
      /\ UNCHANGED <<drives, driverVars, opened, drive_queue, key, restarts, pastVars>>

\* A mutated form: the drive stays in place.
EndEject_InPlace ==
  /\ At("task", "ejected")
  /\ cpu' = [cpu EXCEPT !.task = Idle]
  /\ UNCHANGED <<hostVars, driverVars, sysVars, key, restarts, pastVars>>

\* A disk that was to be mounted still is.
EndEject ==
  /\ At("task", "ejected")
  /\ LET d == cpu.task.d
     IN  /\ SetInPlace(d, 0)
         /\ posted' = posted \ {d}
         /\ hasty' = hasty \cup {e \in {d} : to_be_mounted[d]} \cup KeyPressed(d)
  /\ cpu' = [cpu EXCEPT !.task = Idle]
  /\ UNCHANGED <<hostVars, num, status, to_be_mounted, mount_non_hfs, toc, acc_run_called,
                 sysVars, key, restarts, allowed, slipped, quiet>>

\* CDROMControl(76)
ModifyPostEvent(d, b) ==
  LET e == get_drive_info(d)
  IN  /\ AtTask /\ d \in drive_queue /\ Driver(d) = "cdrom"
      /\ mount_non_hfs' = [mount_non_hfs EXCEPT ![e] = b]
      /\ quiet' = IF b THEN quiet ELSE quiet \cup {e}
      /\ UNCHANGED <<hostVars, num, status, dsDiskInPlace, to_be_mounted, toc, acc_run_called,
                     sysVars, cpu, key, restarts, posted, hasty, allowed, slipped>>

\* CDROMControl(80)
SetUserEject(d, b) ==
  LET e == get_drive_info(d)
  IN  /\ AtTask /\ d \in drive_queue /\ IsCDROM(e)
      /\ \E place \in InPlace(e) : place # 0
      /\ door' = IF b THEN door \ {e} ELSE door \cup {e}
      /\ allowed' = IF b THEN allowed \cup {e} ELSE allowed
      /\ UNCHANGED <<drives, media, driverVars, sysVars, cpu, key, restarts, posted, hasty,
                     slipped, quiet>>

\* MacOS gets a disk event and mounts the disk, if it can be read.
MountEvent(d) ==
  LET e == get_drive_info(d)
  IN  /\ AtTask /\ d \in events
      /\ events' = events \ {d}
      /\ \E place \in InPlace(e) :
           volume' = IF place # 0 /\ volume[d] = "none" THEN [volume EXCEPT ![d] = media[e]]
                     ELSE volume
      /\ UNCHANGED <<hostVars, driverVars, opened, drive_queue, cpu, key, restarts, pastVars>>

\* MacOS is restarted: the drivers are not told.
Restart ==
  /\ AtTask /\ restarts < MaxRestarts
  /\ restarts' = restarts + 1
  /\ status' = [d \in Ids |-> IF status[d] = "new" THEN "old" ELSE status[d]]
  /\ opened' = {} /\ drive_queue' = {} /\ events' = {}
  /\ volume' = [d \in Ids |-> "none"]
  /\ UNCHANGED <<hostVars, num, dsDiskInPlace, to_be_mounted, mount_non_hfs, toc, acc_run_called,
                 cpu, key, pastVars>>

-----------------------------------------------------------------------------
(* The user and the events' thread.                                        *)

Insert(d, disc) ==
  /\ ~IsFile(d) /\ media[d] = "none"
  /\ media' = [media EXCEPT ![d] = disc]
  /\ UNCHANGED <<drives, door, driverVars, sysVars, cpu, key, restarts, pastVars>>

\* By hand or with the drive's button, which a locked door disables.
Remove(d) ==
  /\ ~IsFile(d) /\ media[d] # "none" /\ d \notin door
  /\ media' = [media EXCEPT ![d] = "none"]
  /\ UNCHANGED <<drives, door, driverVars, sysVars, cpu, key, restarts, pastVars>>

\* SysMountFirstFloppy() and SonyMountVolume(), at any time
SysMountFirstFloppy ==
  /\ key = "no" /\ \E d \in FirstFloppy : SysIsDiskInserted(d)
  /\ key' = "place"
  /\ UNCHANGED <<hostVars, driverVars, sysVars, cpu, restarts, pastVars>>

KeyPlace ==
  /\ key = "place" /\ key' = "flag"
  /\ \E d \in FirstFloppy : SetInPlace(d, 1)
  /\ UNCHANGED <<hostVars, num, status, to_be_mounted, mount_non_hfs, toc, acc_run_called,
                 sysVars, cpu, restarts, pastVars>>

KeyFlag ==
  /\ key = "flag" /\ key' = "no"
  /\ \E d \in FirstFloppy :
       /\ to_be_mounted' = [to_be_mounted EXCEPT ![d] = TRUE]
       /\ hasty' = IF 0 \notin InPlace(d) THEN hasty ELSE hasty \cup {d}
  /\ UNCHANGED <<hostVars, num, status, dsDiskInPlace, mount_non_hfs, toc, acc_run_called,
                 sysVars, cpu, restarts, posted, allowed, slipped, quiet>>

-----------------------------------------------------------------------------
\* What the CPU thread goes on with, in the interrupt and at task level.
MountStep(p) ==
  PreventRemoval(p) \/ CheckDrive(p) \/ PostEvent(p) \/ NothingToMount(p) \/ ClearFlag(p)
TaskStep == NumberDrive \/ AllocFails \/ SetUpDrive \/ EndEject \/ MountStep("task")

DisksNext ==
  \/ \E drv \in Drivers : Open(drv) \/ AccRun(drv)
  \/ Interrupt1Hz \/ MountStep("irq") \/ TaskStep
  \/ \E d \in Ids : SonyPrime(d) \/ Eject(d) \/ MountEvent(d) \/ Remove(d)
  \/ \E d \in Ids, b \in BOOLEAN : ModifyPostEvent(d, b) \/ SetUserEject(d, b)
  \/ \E d \in Ids, disc \in Discs : Insert(d, disc)
  \/ Restart
  \/ SysMountFirstFloppy \/ KeyPlace \/ KeyFlag

\* The CPU thread goes on, at task level too, since a second is long; the
\* interrupt stays pending until it is taken, and MacOS looks at its events
\* again and again.
AllIds == UNION {DOMAIN s : s \in Setups}
DisksFairness ==
  /\ WF_disksVars(MountStep("irq")) /\ SF_disksVars(TaskStep) /\ SF_disksVars(Interrupt1Hz)
  /\ \A d \in AllIds : SF_disksVars(d \in Ids /\ MountEvent(d))

DisksSpec == DisksInit /\ [][DisksNext]_disksVars

-----------------------------------------------------------------------------
(* Properties.                                                             *)

Cursors ==
  {Idle} \cup [op : {"open"}, d : Ids, at : {"number", "alloc", "lock"}]
         \cup [op : {"accRun", "irq"}, d : Ids, at : {"check", "lock", "post", "clear"}]
         \cup [op : {"eject"}, d : Ids, at : {"ejected"}]

\* The type of every variable.
DisksTypeOK ==
  /\ drives \in Setups
  /\ media \in [Ids -> Discs \cup {"none"}] /\ toc \in [Ids -> Discs \cup {"none"}]
  /\ volume \in [Ids -> Discs \cup {"none"}]
  /\ num \in [Ids -> 0 .. Len(drives)]
  /\ status \in [Ids -> {"none", "old", "new"}]
  /\ dsDiskInPlace \in [Ids -> {0, 1, 2, 8}]
  /\ to_be_mounted \in [Ids -> BOOLEAN] /\ mount_non_hfs \in [Ids -> BOOLEAN]
  /\ acc_run_called \subseteq Drivers /\ opened \subseteq Drivers
  /\ {door, drive_queue, events, posted, hasty, allowed, slipped, quiet} \subseteq SUBSET Ids
  /\ cpu \in [task : Cursors, irq : Cursors]
  /\ key \in {"no", "place", "flag"} /\ restarts \in 0 .. MaxRestarts

\* MacOS names a drive by its number alone: the drives of its queue have
\* different ones, and the driver finds the drive that is meant, also after a
\* restart, when drives that are not opened yet still have their old numbers.
\* It may only find another one if this got no record when it was opened, for
\* want of memory, so that its number was given to the next.
DrivesFound ==
  \A d \in drive_queue :
    /\ \A e \in drive_queue : num[e] = num[d] => e = d
    /\ get_drive_info(d) = d \/ status[get_drive_info(d)] # "new"

PostsFor(p, d) == At(p, "post") /\ cpu[p].d = d /\ cpu'[p].at = "clear"

\* A disk event is posted for a drive only if there is a disk in place, but for
\* one that was ejected between Open() and accRun, or while the user mounted it.
EventForDisk ==
  [][\A p \in Processes, d \in Ids :
       PostsFor(p, d) /\ status[d] = "new" => dsDiskInPlace[d] > 0 \/ d \in hasty]_disksVars

\* A driver that looks for disks posts one event for each it finds, however
\* the interrupt, accRun and the disks' changes are interleaved, but for the
\* floppy that the user may mount again and again with Ctrl-F1.
OneEventPerDisk ==
  [][\A p \in Processes, d \in Ids :
       PostsFor(p, d) /\ status[d] = "new" /\ DISK_INSERT_CHECK(d) /\ d \notin FirstFloppy =>
         d \notin posted]_disksVars

\* The volume that MacOS has mounted is on the CD-ROM in the drive, and was read
\* with this disc's TOC and partition map, unless MacOS has let the user eject
\* it, or the user did while it was being locked in.
RightDisc ==
  \A d \in drive_queue :
    volume[d] # "none" /\ IsCDROM(d) /\ get_drive_info(d) = d =>
      (volume[d] = media[d] /\ volume[d] = toc[d]) \/ d \in allowed \cup slipped

\* "check for volumes to be mounted": a disk in a drive that the interrupt looks
\* at comes to be mounted, also again after it is ejected, if it is an image.
\* Not so if the drive still counts as holding another disc (the disc before was
\* not ejected by MacOS), or MacOS wants no events for a disc.  Nothing keeps a
\* floppy in its drive: taken out before it is mounted, it is not missed, nor the next.
Served(d, disc) ==
  /\ d \in Ids /\ DISK_INSERT_CHECK(d) /\ drives[d].medium # "floppy" /\ media[d] = disc
  /\ status[d] = "new" /\ Driver(d) \in acc_run_called /\ get_drive_info(d) = d
Excused(d, disc) ==
  \/ d \in allowed \cup slipped
  \/ disc \notin HFS /\ d \in quiet
DisksMounted ==
  \A d \in AllIds, disc \in Discs :
    Served(d, disc) ~> d \in Ids /\ (volume[d] = disc \/ ~Served(d, disc) \/ Excused(d, disc))
=============================================================================
