---------------------------- MODULE DevicesProofs ----------------------------
(***************************************************************************)
(* Proofs about Devices: about Ether, for any protocols and any number of  *)
(* packets; about Disks, for any drives that prefs may name, any discs and *)
(* any number of restarts of MacOS; and about the two together.            *)
(***************************************************************************)
EXTENDS Devices, FiniteSetTheorems, TLAPS

-----------------------------------------------------------------------------
(* Ether.                                                                  *)

\* The buffer that counts is that of the interrupt under way.
Counted == n_ether_packets = IF irq = "no" THEN 0 ELSE 1

\* Handlers are attached to a driver that is open.
Attached == net_protocols # {} => ether_data = "new"

EtherInv == TypeOK /\ OneInterrupt /\ HandlerHasData /\ Counted /\ Attached

LEMMA InitEther == Init => EtherInv
<1> SUFFICES ASSUME Init PROVE EtherInv
  OBVIOUS
<1>1. queue \in Seq(Protocols \cup {Runt}) /\ Len(queue) <= MaxPackets
  BY EtherAssumption DEF Init, EtherAssumption
<1>2. n_ether_packets \in Nat /\ int_ack \in 0 .. 1
  BY DEF Init
<1>3. TypeOK
  BY <1>1, <1>2 DEF Init, TypeOK, Blocks
<1>4. OneInterrupt /\ HandlerHasData /\ Counted /\ Attached
  BY DEF Init, OneInterrupt, HandlerHasData, Counted, Attached
<1>5. QED
  BY <1>3, <1>4 DEF EtherInv

\* Every step keeps the invariant: Trigger is the only one that raises the flag,
\* and it does so when no interrupt and no signal is left of the one before.
LEMMA EtherStep == EtherInv /\ [Next]_vars => EtherInv'
<1> SUFFICES ASSUME EtherInv, [Next]_vars PROVE EtherInv'
  OBVIOUS
<1> USE EtherAssumption DEF EtherAssumption, EtherInv
<1>1. CASE EtherOpen
  <2>1. TypeOK'
    BY <1>1 DEF TypeOK, OneInterrupt, Counted, Blocks, EtherOpen, bufferVars, threadVars
  <2>2. OneInterrupt' /\ HandlerHasData' /\ Counted' /\ Attached'
    BY <1>1 DEF TypeOK, OneInterrupt, HandlerHasData, Counted, Attached, EtherOpen, bufferVars, threadVars
  <2>3. QED
    BY <2>1, <2>2
<1>2. CASE EtherReset
  <2>1. TypeOK'
    BY <1>2 DEF TypeOK, OneInterrupt, Counted, Blocks, EtherReset, Aged, threadVars
  <2>2. OneInterrupt' /\ HandlerHasData' /\ Counted' /\ Attached'
    BY <1>2 DEF TypeOK, OneInterrupt, HandlerHasData, Counted, Attached, EtherReset, Aged, threadVars
  <2>3. QED
    BY <2>1, <2>2
<1>3. ASSUME NEW p \in Protocols, AttachPH(p) PROVE EtherInv'
  <2>1. TypeOK'
    BY <1>3 DEF TypeOK, OneInterrupt, Counted, Blocks, AttachPH, bufferVars, threadVars
  <2>2. OneInterrupt' /\ HandlerHasData' /\ Counted' /\ Attached'
    BY <1>3 DEF TypeOK, OneInterrupt, HandlerHasData, Counted, Attached, AttachPH, bufferVars, threadVars
  <2>3. QED
    BY <2>1, <2>2
<1>4. ASSUME NEW p \in Protocols, DetachPH(p) PROVE EtherInv'
  <2>1. TypeOK'
    BY <1>4 DEF TypeOK, OneInterrupt, Counted, Blocks, DetachPH, bufferVars, threadVars
  <2>2. OneInterrupt' /\ HandlerHasData' /\ Counted' /\ Attached'
    BY <1>4 DEF TypeOK, OneInterrupt, HandlerHasData, Counted, Attached, DetachPH, bufferVars, threadVars
  <2>3. QED
    BY <2>1, <2>2
<1>5. ASSUME NEW p \in Protocols \cup {Runt}, Arrive(p) PROVE EtherInv'
  <2>1. TypeOK'
    BY <1>5 DEF TypeOK, OneInterrupt, Counted, Blocks, Arrive, bufferVars, threadVars
  <2>2. OneInterrupt' /\ HandlerHasData' /\ Counted' /\ Attached'
    BY <1>5 DEF TypeOK, OneInterrupt, HandlerHasData, Counted, Attached, Arrive, bufferVars, threadVars
  <2>3. QED
    BY <2>1, <2>2
<1>6. CASE EtherInterrupt
  <2>1. n_ether_packets' \in Nat /\ int_ack' \in 0 .. 1
    BY <1>6 DEF TypeOK, OneInterrupt, Counted, EtherInterrupt
  <2>2. packet' \in Blocks /\ irq' \in {"no", "alloc", "read", "handler"}
    BY <1>6 DEF TypeOK, EtherInterrupt, Running68k, macVars
  <2>3. TypeOK'
    BY <1>6, <2>1, <2>2 DEF TypeOK, Blocks, EtherInterrupt, Running68k, macVars
  <2>4. OneInterrupt' /\ HandlerHasData' /\ Counted' /\ Attached'
    BY <1>6 DEF TypeOK, OneInterrupt, HandlerHasData, Counted, Attached, EtherInterrupt, Running68k, macVars
  <2>5. QED
    BY <2>3, <2>4
<1>7. CASE EndAlloc
  <2>1. TypeOK'
    BY <1>7 DEF TypeOK, OneInterrupt, Counted, Blocks, EndAlloc, macVars, threadVars
  <2>2. OneInterrupt' /\ HandlerHasData' /\ Counted' /\ Attached'
    BY <1>7 DEF TypeOK, OneInterrupt, HandlerHasData, Counted, Attached, EndAlloc, macVars, threadVars
  <2>3. QED
    BY <2>1, <2>2
<1>8. CASE Read
  <2>1. queue' \in Seq(Protocols \cup {Runt}) /\ Len(queue') <= MaxPackets
    BY <1>8 DEF TypeOK, Read, Readable
  <2>2. TypeOK'
    BY <1>8, <2>1 DEF TypeOK, OneInterrupt, Counted, Read, Readable, macVars, bufferVars, threadVars
  <2>3. OneInterrupt' /\ HandlerHasData' /\ Counted' /\ Attached'
    BY <1>8 DEF TypeOK, OneInterrupt, HandlerHasData, Counted, Attached, Read, Readable, macVars, bufferVars, threadVars
  <2>4. QED
    BY <2>2, <2>3
<1>9. CASE EndHandler
  <2>1. TypeOK'
    BY <1>9 DEF TypeOK, OneInterrupt, Counted, Blocks, EndHandler, macVars, bufferVars, threadVars
  <2>2. OneInterrupt' /\ HandlerHasData' /\ Counted' /\ Attached'
    BY <1>9 DEF TypeOK, OneInterrupt, HandlerHasData, Counted, Attached, EndHandler, macVars, bufferVars, threadVars
  <2>3. QED
    BY <2>1, <2>2
<1>10. CASE EndInterrupt
  <2>1. n_ether_packets' \in Nat /\ int_ack' \in 0 .. 1
    BY <1>10 DEF TypeOK, OneInterrupt, Counted, EndInterrupt
  <2>2. queue' \in Seq(Protocols \cup {Runt}) /\ Len(queue') <= MaxPackets
    BY <1>10 DEF TypeOK, EndInterrupt, Readable, macVars
  <2>3. TypeOK'
    BY <1>10, <2>1, <2>2 DEF TypeOK, Blocks, EndInterrupt, Readable, macVars
  <2>4. OneInterrupt' /\ HandlerHasData' /\ Counted' /\ Attached'
    BY <1>10 DEF TypeOK, OneInterrupt, HandlerHasData, Counted, Attached, EndInterrupt, Readable, macVars
  <2>5. QED
    BY <2>3, <2>4
<1>11. CASE Poll
  <2>1. TypeOK'
    BY <1>11 DEF TypeOK, OneInterrupt, Counted, Blocks, Poll, macVars, bufferVars
  <2>2. OneInterrupt' /\ HandlerHasData' /\ Counted' /\ Attached'
    BY <1>11 DEF TypeOK, OneInterrupt, HandlerHasData, Counted, Attached, Poll, macVars, bufferVars
  <2>3. QED
    BY <2>1, <2>2
<1>12. CASE Trigger
  <2>1. TypeOK'
    BY <1>12 DEF TypeOK, OneInterrupt, Counted, Blocks, Trigger, macVars, bufferVars
  <2>2. OneInterrupt' /\ HandlerHasData' /\ Counted' /\ Attached'
    BY <1>12 DEF TypeOK, OneInterrupt, HandlerHasData, Counted, Attached, Trigger, macVars, bufferVars
  <2>3. QED
    BY <2>1, <2>2
<1>13. CASE SemWait
  <2>1. TypeOK'
    BY <1>13 DEF TypeOK, OneInterrupt, Counted, Blocks, SemWait, macVars, bufferVars
  <2>2. OneInterrupt' /\ HandlerHasData' /\ Counted' /\ Attached'
    BY <1>13 DEF TypeOK, OneInterrupt, HandlerHasData, Counted, Attached, SemWait, macVars, bufferVars
  <2>3. QED
    BY <2>1, <2>2
<1>14. CASE UNCHANGED vars
  BY <1>14 DEF vars, TypeOK, OneInterrupt, HandlerHasData, Counted, Attached
<1>15. QED
  BY <1>1, <1>2, <1>3, <1>4, <1>5, <1>6, <1>7, <1>8, <1>9, <1>10, <1>11, <1>12, <1>13, <1>14 DEF Next, Interrupt, receive_func

LEMMA EtherInvariant == Spec => []EtherInv
BY InitEther, EtherStep, PTL DEF Spec

\* Every variable keeps its type; the acknowledge semaphore counts at most one
\* signal, however packets and interrupts come.
THEOREM EtherTypes == Spec => []TypeOK
<1>1. EtherInv => TypeOK
  BY DEF EtherInv
<1>2. QED
  BY <1>1, EtherInvariant, PTL

\* Interrupts of the network are never nested, whatever handlers do.
THEOREM InterruptsNotNested == Spec => []OneInterrupt
<1>1. EtherInv => OneInterrupt
  BY DEF EtherInv
<1>2. QED
  BY <1>1, EtherInvariant, PTL

\* Handlers that are called belong to the MacOS that runs.
THEOREM HandlersOfThisMacOS == Spec => []HandlerHasData
<1>1. EtherInv => HandlerHasData
  BY DEF EtherInv
<1>2. QED
  BY <1>1, EtherInvariant, PTL

-----------------------------------------------------------------------------
(* Disks.                                                                  *)

\* The least element of a set of numbers is in it.
LEMMA LeastOf ==
  ASSUME NEW S, S \subseteq Nat, S # {}
  PROVE  Least(S) \in S /\ \A y \in S : Least(S) <= y
<1>1. PICK x \in S : \A y \in S : ~(<<y, x>> \in OpToRel(<, Nat))
  BY NatLessThanWellFounded, WFMin
<1>2. \A y \in S : x <= y
  <2>1. SUFFICES ASSUME NEW y \in S PROVE x <= y
    OBVIOUS
  <2>2. x \in Nat /\ y \in Nat
    OBVIOUS
  <2>3. ~(y < x)
    BY <1>1, <2>2 DEF OpToRel
  <2>4. QED
    BY <2>2, <2>3
<1>3. QED
  BY <1>2 DEF Least

LEMMA DrivesAre ==
  ASSUME drives \in Setups
  PROVE  /\ Len(drives) \in Nat /\ Ids = 1 .. Len(drives) /\ Ids \subseteq Nat
         /\ \A d \in Ids : Driver(d) \in Drivers /\ (IsCDROM(d) => Driver(d) = "cdrom")
<1>1. drives \in Seq(DriveInfo) /\ \A i \in DOMAIN drives : drives[i].medium = "cdrom" => drives[i].driver = "cdrom"
  BY DrivesAssumption DEF DrivesAssumption
<1>2. \A d \in DOMAIN drives : drives[d] \in DriveInfo
  BY <1>1
<1>3. QED
  BY <1>1, <1>2 DEF Ids, Driver, IsCDROM, DriveInfo

\* A number leads to a drive of the driver that has it.
LEMMA InfoFound ==
  ASSUME drives \in Setups, NEW d \in Ids
  PROVE  /\ get_drive_info(d) \in Ids /\ Driver(get_drive_info(d)) = Driver(d)
         /\ num[get_drive_info(d)] = num[d]
<1> DEFINE S == {e \in DrivesOf(Driver(d)) : num[e] = num[d]}
<1>1. S \subseteq Nat /\ d \in S
  BY DrivesAre DEF DrivesOf
<1>2. get_drive_info(d) \in S
  BY <1>1, LeastOf DEF get_drive_info
<1>3. QED
  BY <1>2 DEF DrivesOf

\* A drive outside the queue gets a number that no drive of the queue has, and
\* there are as many numbers as drives.
LEMMA FreeNumber ==
  ASSUME drives \in Setups, drive_queue \subseteq Ids, NEW x \in Ids, x \notin drive_queue
  PROVE  /\ FindFreeDriveNumber(x) \in 1 .. Len(drives)
         /\ \A e \in drive_queue : num[e] # FindFreeDriveNumber(x)
<1> DEFINE n == Len(drives)
           used == {num[e] : e \in drive_queue}
<1>1. n \in Nat /\ Ids = 1 .. n /\ x \in 1 .. n
  BY DrivesAre
<1>2. IsFiniteSet(1 .. n) /\ Cardinality(1 .. n) = n
  <2>1. 1 \in Int /\ n \in Int /\ ~(1 > n) /\ (n - 1) + 1 = n
    BY <1>1
  <2> HIDE DEF n
  <2>2. QED
    BY <2>1, FS_Interval
<1>3. IsFiniteSet(Ids \ {x}) /\ Cardinality(Ids \ {x}) = n - 1
  BY <1>1, <1>2, FS_RemoveElement
<1>4. IsFiniteSet(drive_queue) /\ Cardinality(drive_queue) <= n - 1
  <2>1. drive_queue \in SUBSET (Ids \ {x})
    OBVIOUS
  <2>2. QED
    BY <1>3, <2>1, FS_Subset
<1>5. PICK k \in 1 .. n : k \notin used
  <2>1. SUFFICES ASSUME \A k \in 1 .. n : k \in used PROVE FALSE
    OBVIOUS
  <2> DEFINE f == [k \in 1 .. n |-> CHOOSE e \in drive_queue : num[e] = k]
  <2>2. \A k \in 1 .. n : f[k] \in drive_queue /\ num[f[k]] = k
    BY <2>1
  <2>3. f \in [1 .. n -> drive_queue]
    BY <2>2
  <2>4. Cardinality(drive_queue) < Cardinality(1 .. n)
    <3>1. Cardinality(drive_queue) \in Nat
      BY <1>4, FS_CardinalityType
    <3>2. QED
      BY <1>1, <1>2, <1>4, <3>1
  <2> HIDE DEF f
  <2>5. PICK i \in 1 .. n, j \in 1 .. n : i # j /\ f[i] = f[j]
    BY <1>2, <1>4, <2>3, <2>4, FS_PigeonHole
  <2>6. QED
    BY <2>2, <2>5
<1> DEFINE S == (1 .. n + 1) \ used
<1>6. S \subseteq Nat /\ k \in S
  BY <1>1, <1>5
<1>7. Least(S) \in S /\ Least(S) <= k
  BY <1>6, LeastOf
<1>8. FindFreeDriveNumber(x) = Least(S)
  BY DEF FindFreeDriveNumber
<1>9. Least(S) \in 1 .. n /\ \A e \in drive_queue : num[e] # Least(S)
  <2>1. Least(S) \in 1 .. n + 1 /\ Least(S) \notin used
    BY <1>7
  <2>2. Least(S) <= n
    BY <1>1, <1>7, <2>1
  <2>3. Least(S) \in 1 .. n
    BY <1>1, <2>1, <2>2
  <2>4. \A e \in drive_queue : num[e] \in used
    OBVIOUS
  <2>5. QED
    BY <2>1, <2>3, <2>4
<1>10. QED
  BY <1>8, <1>9

-----------------------------------------------------------------------------
(* Where the CPU thread is.                                                *)

\* The interrupt only looks for disks, and opens and ejects none.
IrqKind == cpu.irq.op \in {"none", "irq"}

CursorTypes == cpu \in [task : Cursors, irq : Cursors] /\ IrqKind

LEMMA CursorIs ==
  ASSUME CursorTypes, NEW p \in Processes
  PROVE  /\ cpu[p] \in Cursors
         /\ cpu[p] # Idle => cpu[p].d \in Ids
         /\ cpu[p].at \in {"number", "alloc"} => cpu[p].op = "open" /\ p = "task"
         /\ cpu[p].at \in {"check", "post", "clear"} => cpu[p].op \in {"accRun", "irq"}
         /\ cpu[p].at = "lock" => cpu[p].op \in {"open", "accRun", "irq"}
         /\ cpu[p].at = "ejected" <=> cpu[p].op = "eject"
         /\ cpu[p].at = "idle" <=> cpu[p] = Idle
         /\ cpu[p].op = "open" => p = "task"
<1>1. cpu[p] \in Cursors /\ (p = "irq" => cpu[p].op \in {"none", "irq"})
  BY DEF CursorTypes, IrqKind, Processes
<1>2. QED
  BY <1>1 DEF Cursors, Idle, Processes

\* Goto() stays in the call.
LEMMA GotoStep ==
  ASSUME CursorTypes, drives' = drives, NEW p \in Processes, NEW at, Goto(p, at),
         \/ at \in {"alloc", "lock"} /\ cpu[p].op = "open"
         \/ at \in {"lock", "post", "clear"} /\ cpu[p].op \in {"accRun", "irq"}
  PROVE  /\ CursorTypes'
         /\ \A o \in Processes \ {p} : cpu'[o] = cpu[o]
         /\ cpu'[p].op = cpu[p].op /\ cpu'[p].d = cpu[p].d /\ cpu'[p].at = at
<1>1. cpu[p] \in Cursors /\ cpu.task \in Cursors /\ cpu.irq \in Cursors
        /\ cpu.irq.op \in {"none", "irq"}
  BY DEF CursorTypes, IrqKind, Processes
<1>2. cpu' = [cpu EXCEPT ![p].at = at]
  BY DEF Goto
<1>3. [cpu[p] EXCEPT !.at = at] \in Cursors
  BY <1>1 DEF Cursors, Idle
<1>4. cpu' \in [task : Cursors, irq : Cursors]
  BY <1>1, <1>2, <1>3 DEF CursorTypes, Processes
<1>5. Cursors' = Cursors
  BY DEF Cursors, Ids
<1>6. /\ \A o \in Processes \ {p} : cpu'[o] = cpu[o]
      /\ cpu'[p].op = cpu[p].op /\ cpu'[p].d = cpu[p].d /\ cpu'[p].at = at
  BY <1>1, <1>2 DEF CursorTypes, Processes, Cursors, Idle
<1>7. IrqKind'
  BY <1>1, <1>6 DEF IrqKind, Processes
<1>8. QED
  BY <1>4, <1>5, <1>6, <1>7 DEF CursorTypes

\* The loop over the drives ends or goes on to a later one.
LEMMA NextDriveStep ==
  ASSUME CursorTypes, drives' = drives, drives \in Setups, NEW p \in Processes, NextDrive(p),
         cpu[p].op \in {"open", "accRun", "irq"}
  PROVE  /\ CursorTypes'
         /\ \A o \in Processes \ {p} : cpu'[o] = cpu[o]
         /\ \/ cpu'[p] = Idle
            \/ /\ cpu'[p].op = cpu[p].op /\ cpu'[p].d \in Ids /\ cpu'[p].d > cpu[p].d
               /\ cpu'[p].at = IF cpu[p].op = "open" THEN "number" ELSE "check"
               /\ cpu[p].op # "irq" => Driver(cpu'[p].d) = Driver(cpu[p].d)
<1> DEFINE c == cpu[p]
           next == [c EXCEPT !.d = Least(Rest(c)), !.at = IF c.op = "open" THEN "number" ELSE "check"]
<1>1. c \in Cursors /\ cpu.task \in Cursors /\ cpu.irq \in Cursors
        /\ cpu.irq.op \in {"none", "irq"} /\ c # Idle
  BY DEF CursorTypes, IrqKind, Processes, Idle
<1>2. cpu' = [cpu EXCEPT ![p] = IF Rest(c) = {} THEN Idle ELSE next]
  BY DEF NextDrive
<1>3. Cursors' = Cursors
  BY DEF Cursors, Ids
<1>4. CASE Rest(c) = {}
  <2>1. cpu' = [cpu EXCEPT ![p] = Idle]
    BY <1>2, <1>4
  <2>2. Idle \in Cursors
    BY DEF Cursors
  <2>3. cpu'[p] = Idle /\ (\A o \in Processes \ {p} : cpu'[o] = cpu[o])
          /\ cpu' \in [task : Cursors, irq : Cursors]
    BY <1>1, <2>1, <2>2 DEF CursorTypes, Processes
  <2>4. IrqKind'
    BY <1>1, <2>3 DEF IrqKind, Processes, Idle
  <2>5. QED
    BY <1>3, <2>3, <2>4 DEF CursorTypes
<1>5. CASE Rest(c) # {}
  <2>1. cpu' = [cpu EXCEPT ![p] = next]
    BY <1>2, <1>5
  <2>2. Rest(c) \subseteq Nat
    BY DrivesAre DEF Rest
  <2>3. Least(Rest(c)) \in Rest(c)
    BY <1>5, <2>2, LeastOf
  <2> DEFINE e == Least(Rest(c))
             at == IF c.op = "open" THEN "number" ELSE "check"
  <2>4. e \in Ids /\ e > c.d /\ (c.op # "irq" => Driver(e) = Driver(c.d))
    BY <2>3 DEF Rest
  <2> HIDE DEF e
  <2>5. next = [c EXCEPT !.d = e, !.at = at]
    BY DEF e
  <2>6. next.op = c.op /\ next.d = e /\ next.at = at /\ next \in Cursors
    BY <1>1, <2>4, <2>5 DEF Cursors, Idle
  <2> HIDE DEF next
  <2>7. cpu'[p] = next /\ (\A o \in Processes \ {p} : cpu'[o] = cpu[o])
          /\ cpu' \in [task : Cursors, irq : Cursors]
    BY <1>1, <2>1, <2>6 DEF CursorTypes, Processes
  <2>8. IrqKind'
    BY <1>1, <2>6, <2>7 DEF IrqKind, Processes, CursorTypes
  <2>9. QED
    BY <1>3, <2>4, <2>6, <2>7, <2>8 DEF CursorTypes
<1>6. QED
  BY <1>4, <1>5

\* A call begins, or ends.
LEMMA CallStep ==
  ASSUME CursorTypes, drives' = drives, NEW p \in Processes, NEW c \in Cursors,
         p = "irq" => c.op \in {"none", "irq"}, cpu' = [cpu EXCEPT ![p] = c]
  PROVE  CursorTypes' /\ (\A o \in Processes \ {p} : cpu'[o] = cpu[o]) /\ cpu'[p] = c
<1>1. cpu.task \in Cursors /\ cpu.irq \in Cursors /\ cpu.irq.op \in {"none", "irq"}
  BY DEF CursorTypes, IrqKind
<1>2. cpu' \in [task : Cursors, irq : Cursors]
  BY <1>1 DEF CursorTypes, Processes
<1>3. (\A o \in Processes \ {p} : cpu'[o] = cpu[o]) /\ cpu'[p] = c
  BY DEF CursorTypes, Processes
<1>4. Cursors' = Cursors
  BY DEF Cursors, Ids
<1>5. IrqKind'
  BY <1>1, <1>3 DEF IrqKind, Processes
<1>6. QED
  BY <1>2, <1>3, <1>4, <1>5 DEF CursorTypes

-----------------------------------------------------------------------------
(* The invariant.                                                          *)

\* MacOS knows drives that this MacOS has opened, and volumes in them only.
Queue ==
  /\ \A d \in drive_queue : status[d] = "new" /\ Driver(d) \in opened
  /\ events \subseteq drive_queue
  /\ \A d \in Ids : volume[d] # "none" => d \in drive_queue
  /\ \A drv \in opened : DrivesOf(drv) # {}

Numbers == \A d, e \in drive_queue : num[d] = num[e] => d = e

\* While a driver is opened, its drives come into the queue one after another, and
\* nothing of theirs is mounted yet.
Opening ==
  cpu.task.op = "open" =>
    /\ Driver(cpu.task.d) \in opened
    /\ \A d \in drive_queue : Driver(d) = Driver(cpu.task.d) => d < cpu.task.d
    /\ \A d \in Ids : Driver(d) = Driver(cpu.task.d) => volume[d] = "none"
    /\ cpu.task.at \in {"alloc", "lock"} => \A d \in drive_queue : num[d] # num[cpu.task.d]
    /\ cpu.task.at = "lock" => status[cpu.task.d] = "new"

\* A volume of a CD-ROM drive that is found by its number is mounted.
Held(d) == d \in drive_queue /\ volume[d] # "none" /\ IsCDROM(d) /\ get_drive_info(d) = d

\* No disc is locked in or ejected in a drive whose volume is mounted.
Locking == \A p \in Processes, d \in Ids : cpu[p].at = "lock" /\ cpu[p].d = d => ~Held(d)
Ejecting == \A d \in Ids : cpu.task.op = "eject" /\ cpu.task.d = d => ~Held(d)

LetGo(d) == d \in allowed \cup slipped

Mounted ==
  \A d \in Ids : Held(d) =>
    dsDiskInPlace[d] # 0 /\ ((volume[d] = media[d] /\ volume[d] = toc[d]) \/ LetGo(d))

\* A disc in place is behind a locked door, and its TOC was read.
Locked(d) == d \in door /\ media[d] = toc[d] /\ media[d] # "none"
LockedIn ==
  \A d \in Ids :
    IsCDROM(d) /\ status[d] = "new" /\ dsDiskInPlace[d] # 0
      /\ ~(cpu.task.op = "eject" /\ cpu.task.d = d) => Locked(d) \/ LetGo(d)

DInv ==
  /\ DisksTypeOK /\ IrqKind /\ Queue /\ Numbers /\ Opening
  /\ Locking /\ Ejecting /\ Mounted /\ LockedIn

LEMMA SameHeld ==
  ASSUME UNCHANGED <<drives, num, drive_queue, volume>>
  PROVE  \A d : Held(d)' <=> Held(d)
BY DEF Held, get_drive_info, DrivesOf, Driver, IsCDROM, Ids

\* A call that goes on to the next drive or to a next step.
MovesOn(p) ==
  \/ cpu'[p] = cpu[p]
  \/ cpu'[p] = Idle
  \/ cpu'[p].op \in {"accRun", "irq"}
     /\ (cpu'[p].at = "lock" => \A d \in Ids : cpu'[p].d = d => ~Held(d))
  \/ cpu[p].op = "open" /\ cpu'[p].op = "open" /\ cpu'[p].at = "number"
     /\ cpu'[p].d > cpu[p].d /\ cpu'[p].d \in Ids /\ Driver(cpu'[p].d) = Driver(cpu[p].d)

\* Most steps leave what MacOS knows alone.
LEMMA CalmStep ==
  ASSUME DInv, CursorTypes', UNCHANGED <<drives, num, status, opened, drive_queue, volume>>,
         events' \subseteq drive_queue, \A p \in Processes : MovesOn(p)
  PROVE  Queue' /\ Numbers' /\ Opening' /\ Locking' /\ Ejecting'
<1>1. \A d : Held(d)' <=> Held(d)
  BY SameHeld
<1>2. Queue' /\ Numbers'
  BY DEF DInv, Queue, Numbers, Ids, Driver, DrivesOf
<1>3. Opening'
  <2>1. SUFFICES ASSUME cpu'.task.op = "open" PROVE Opening'
    BY DEF Opening
  <2>2. CASE cpu'.task = cpu.task
    BY <2>2 DEF DInv, Opening, Ids, Driver
  <2>3. CASE cpu.task.op = "open" /\ cpu'.task.at = "number" /\ cpu'.task.d > cpu.task.d
             /\ cpu'.task.d \in Ids /\ Driver(cpu'.task.d) = Driver(cpu.task.d)
    <3>1. cpu.task.d \in Ids
      BY <2>3 DEF DInv, DisksTypeOK, Cursors, Idle
    <3>2. Ids \subseteq Nat /\ drive_queue \subseteq Ids
      BY DrivesAre DEF DInv, DisksTypeOK
    <3>3. ASSUME NEW d \in drive_queue, Driver(d) = Driver(cpu'.task.d) PROVE d < cpu'.task.d
      <4>1. d < cpu.task.d
        BY <2>3, <3>3 DEF DInv, Opening
      <4>2. d \in Nat /\ cpu.task.d \in Nat /\ cpu'.task.d \in Nat
        BY <2>3, <3>1, <3>2
      <4>3. QED
        BY <2>3, <4>1, <4>2
    <3>4. QED
      BY <2>3, <3>3 DEF DInv, Opening, Ids, Driver
  <2>4. QED
    BY <2>1, <2>2, <2>3 DEF MovesOn, Processes, Idle
<1>4. Locking'
  <2>1. SUFFICES ASSUME NEW p \in Processes, NEW d \in Ids, cpu'[p].at = "lock", cpu'[p].d = d
                 PROVE  ~Held(d)'
    BY DEF Locking, Ids
  <2>2. ~Held(d)
    BY <2>1 DEF DInv, Locking, MovesOn, Idle
  <2>3. QED
    BY <1>1, <2>2
<1>5. Ejecting'
  <2>1. SUFFICES ASSUME NEW d \in Ids, cpu'.task.op = "eject", cpu'.task.d = d PROVE ~Held(d)'
    BY DEF Ejecting, Ids
  <2>2. ~Held(d)
    BY <2>1 DEF DInv, Ejecting, MovesOn, Idle, Processes
  <2>3. QED
    BY <1>1, <2>2
<1>6. QED
  BY <1>2, <1>3, <1>4, <1>5

\* The disc in a CD-ROM drive, and what the driver knows of it, stay as they are.
DiscSame(d) ==
  /\ media'[d] = media[d] /\ toc'[d] = toc[d] /\ dsDiskInPlace'[d] = dsDiskInPlace[d]
  /\ d \in door' <=> d \in door
  /\ LetGo(d)' <=> LetGo(d)

LEMMA DiscStep ==
  ASSUME DInv, UNCHANGED <<drives, num, status, drive_queue, volume>>,
         cpu.task.op = "eject" => cpu'.task = cpu.task,
         \A d \in Ids : IsCDROM(d) => DiscSame(d)
  PROVE  Mounted' /\ LockedIn'
<1>1. \A d : Held(d)' <=> Held(d)
  BY SameHeld
<1>2. Mounted'
  <2>1. SUFFICES ASSUME NEW d \in Ids, Held(d)'
                 PROVE  dsDiskInPlace'[d] # 0
                          /\ ((volume'[d] = media'[d] /\ volume'[d] = toc'[d]) \/ LetGo(d)')
    BY DEF Mounted, Ids
  <2>2. Held(d) /\ DiscSame(d)
    BY <1>1, <2>1 DEF Held
  <2>3. QED
    BY <2>2 DEF DInv, Mounted, DiscSame
<1>3. LockedIn'
  <2>1. SUFFICES ASSUME NEW d \in Ids, IsCDROM(d), status[d] = "new", dsDiskInPlace'[d] # 0,
                        ~(cpu'.task.op = "eject" /\ cpu'.task.d = d)
                 PROVE  Locked(d)' \/ LetGo(d)'
    BY DEF LockedIn, Ids, IsCDROM
  <2>2. DiscSame(d)
    BY <2>1
  <2>3. Locked(d) \/ LetGo(d)
    BY <2>1, <2>2 DEF DInv, LockedIn, DiscSame
  <2>4. QED
    BY <2>2, <2>3 DEF DiscSame, Locked
<1>4. QED
  BY <1>2, <1>3

LEMMA SetInPlaceStep ==
  ASSUME DisksTypeOK, NEW d \in Ids, NEW v \in {0, 1, 2, 8}, SetInPlace(d, v)
  PROVE  /\ dsDiskInPlace' \in [Ids -> {0, 1, 2, 8}]
         /\ \A x \in Ids \ {d} : dsDiskInPlace'[x] = dsDiskInPlace[x]
         /\ dsDiskInPlace'[d] = IF status[d] = "new" THEN v ELSE dsDiskInPlace[d]
BY DEF DisksTypeOK, SetInPlace

LEMMA InitDisks == DisksInit => DInv
<1> SUFFICES ASSUME DisksInit PROVE DInv
  OBVIOUS
<1> USE DrivesAssumption DEF DrivesAssumption
<1>1. DisksTypeOK
  BY DrivesAre DEF DisksInit, DisksTypeOK, Cursors, Idle
<1>2. IrqKind /\ Queue /\ Numbers /\ Opening
  BY DEF DisksInit, IrqKind, Queue, Numbers, Opening, Idle
<1>3. \A d : ~Held(d)
  BY DEF DisksInit, Held
<1>4. Locking /\ Ejecting /\ Mounted
  BY <1>3 DEF DisksInit, Locking, Ejecting, Mounted, Idle, Processes
<1>5. LockedIn
  BY DEF DisksInit, LockedIn
<1>6. QED
  BY <1>1, <1>2, <1>3, <1>4, <1>5 DEF DInv

\* Every step keeps the invariant.
LEMMA DisksStep == DInv /\ [DisksNext]_disksVars => DInv'
<1> SUFFICES ASSUME DInv, [DisksNext]_disksVars PROVE DInv'
  OBVIOUS
<1> USE DrivesAssumption DEF DrivesAssumption
<1>0. DisksTypeOK /\ IrqKind /\ Queue /\ Numbers /\ Opening /\ Locking /\ Ejecting /\ Mounted /\ LockedIn
        /\ drives \in Setups /\ CursorTypes
  BY DEF DInv, DisksTypeOK, CursorTypes
<1>1. CASE AllocFails
  <2>0. drives' = drives
    BY <1>1 DEF AllocFails, hostVars, driverVars, sysVars, pastVars
  <2>1. CursorTypes' /\ (\A q \in Processes : MovesOn(q))
          /\ (cpu.task.op = "eject" => cpu'.task = cpu.task)
    <3>1. cpu["task"].op \in {"open", "accRun", "irq"}
      BY <1>1, <1>0, CursorIs DEF AllocFails, At, Processes
    <3>2. NextDrive("task") /\ (cpu["task"].op = "open" => cpu["task"].d \in Ids)
      BY <1>1, <1>0, CursorIs DEF AllocFails, At, Idle, Processes
    <3>3. CursorTypes' /\ (\A q \in Processes \ {"task"} : cpu'[q] = cpu[q])
      BY <1>0, <2>0, <3>1, <3>2, NextDriveStep DEF Processes
    <3>4. MovesOn("task")
      BY <1>0, <2>0, <3>1, <3>2, NextDriveStep DEF MovesOn, Processes
    <3>5. cpu.task.op = "eject" => cpu'.task = cpu.task
      BY <3>1, <3>3 DEF Processes
    <3>6. QED
      BY <3>3, <3>4, <3>5 DEF MovesOn, Processes
  <2>2. DisksTypeOK'
    BY <1>1, <1>0, <2>0, <2>1 DEF AllocFails, hostVars, driverVars, sysVars, pastVars, DisksTypeOK, CursorTypes, Ids
  <2>3. events' \subseteq drive_queue /\ UNCHANGED <<num, status, opened, drive_queue, volume>>
    BY <1>1, <1>0 DEF AllocFails, hostVars, driverVars, sysVars, pastVars, Queue
  <2>4. \A x \in Ids : IsCDROM(x) => DiscSame(x)
    BY <1>1 DEF AllocFails, hostVars, driverVars, sysVars, pastVars, DiscSame, LetGo
  <2>5. Queue' /\ Numbers' /\ Opening' /\ Locking' /\ Ejecting' /\ Mounted' /\ LockedIn'
    BY <2>0, <2>1, <2>3, <2>4, CalmStep, DiscStep
  <2>6. QED
    BY <2>1, <2>2, <2>5 DEF DInv, CursorTypes
<1>2. ASSUME NEW drv \in Drivers, AccRun(drv) PROVE DInv'
  <2>0. drives' = drives
    BY <1>2 DEF AccRun, hostVars, driverVars, sysVars, pastVars
  <2>1. CursorTypes' /\ (\A q \in Processes : MovesOn(q))
          /\ (cpu.task.op = "eject" => cpu'.task = cpu.task)
    <3> DEFINE c == [op |-> "accRun", d |-> Least(DrivesOf(drv)), at |-> "check"]
    <3>1. Least(DrivesOf(drv)) \in Ids
      <4>1. DrivesOf(drv) \subseteq Nat /\ DrivesOf(drv) \subseteq Ids
        BY <1>0, DrivesAre DEF DrivesOf
      <4>2. DrivesOf(drv) # {}
        BY <1>2, <1>0 DEF AccRun, Queue
      <4>3. QED
        BY <4>1, <4>2, LeastOf
    <3>2. c \in Cursors
      BY <3>1 DEF Cursors
    <3>3. cpu.task = Idle /\ cpu' = [cpu EXCEPT !["task"] = c]
      BY <1>2 DEF AccRun, AtTask
    <3> HIDE DEF c
    <3>4. CursorTypes' /\ cpu'.irq = cpu.irq /\ cpu'.task = c
      BY <1>0, <2>0, <3>2, <3>3, CallStep DEF Processes
    <3>5. QED
      BY <3>3, <3>4 DEF MovesOn, Processes, Idle, c
  <2>2. DisksTypeOK'
    BY <1>2, <1>0, <2>0, <2>1 DEF AccRun, hostVars, driverVars, sysVars, pastVars, DisksTypeOK, CursorTypes, Ids
  <2>3. events' \subseteq drive_queue /\ UNCHANGED <<num, status, opened, drive_queue, volume>>
    BY <1>2, <1>0 DEF AccRun, hostVars, driverVars, sysVars, pastVars, Queue
  <2>4. \A x \in Ids : IsCDROM(x) => DiscSame(x)
    BY <1>2 DEF AccRun, hostVars, driverVars, sysVars, pastVars, DiscSame, LetGo
  <2>5. Queue' /\ Numbers' /\ Opening' /\ Locking' /\ Ejecting' /\ Mounted' /\ LockedIn'
    BY <2>0, <2>1, <2>3, <2>4, CalmStep, DiscStep
  <2>6. QED
    BY <2>1, <2>2, <2>5 DEF DInv, CursorTypes
<1>3. CASE Interrupt1Hz
  <2>0. drives' = drives
    BY <1>3 DEF Interrupt1Hz, hostVars, driverVars, sysVars, pastVars
  <2>1. CursorTypes' /\ (\A q \in Processes : MovesOn(q))
          /\ (cpu.task.op = "eject" => cpu'.task = cpu.task)
    <3> DEFINE active == {d \in Ids : Driver(d) \in acc_run_called}
               c == [op |-> "irq", d |-> Least(active), at |-> "check"]
    <3>1. Least(active) \in Ids
      <4>1. active \subseteq Nat /\ active \subseteq Ids
        BY <1>0, DrivesAre
      <4>2. active # {}
        BY <1>3 DEF Interrupt1Hz
      <4>3. QED
        BY <4>1, <4>2, LeastOf
    <3>2. c \in Cursors
      BY <3>1 DEF Cursors
    <3>3. cpu' = [cpu EXCEPT !["irq"] = c]
      BY <1>3 DEF Interrupt1Hz
    <3>4. c.op = "irq" /\ c.at = "check"
      OBVIOUS
    <3> HIDE DEF c
    <3>5. CursorTypes' /\ cpu'.task = cpu.task /\ cpu'.irq = c
      BY <1>0, <2>0, <3>2, <3>3, <3>4, CallStep DEF Processes
    <3>6. QED
      BY <3>4, <3>5 DEF MovesOn, Processes
  <2>2. DisksTypeOK'
    BY <1>3, <1>0, <2>0, <2>1 DEF Interrupt1Hz, hostVars, driverVars, sysVars, pastVars, DisksTypeOK, CursorTypes, Ids
  <2>3. events' \subseteq drive_queue /\ UNCHANGED <<num, status, opened, drive_queue, volume>>
    BY <1>3, <1>0 DEF Interrupt1Hz, hostVars, driverVars, sysVars, pastVars, Queue
  <2>4. \A x \in Ids : IsCDROM(x) => DiscSame(x)
    BY <1>3 DEF Interrupt1Hz, hostVars, driverVars, sysVars, pastVars, DiscSame, LetGo
  <2>5. Queue' /\ Numbers' /\ Opening' /\ Locking' /\ Ejecting' /\ Mounted' /\ LockedIn'
    BY <2>0, <2>1, <2>3, <2>4, CalmStep, DiscStep
  <2>6. QED
    BY <2>1, <2>2, <2>5 DEF DInv, CursorTypes
<1>4. ASSUME NEW p \in Processes, CheckDrive(p) PROVE DInv'
  <2>0. drives' = drives
    BY <1>4 DEF CheckDrive, hostVars, driverVars, sysVars, pastVars
  <2>1. CursorTypes' /\ (\A q \in Processes : MovesOn(q))
          /\ (cpu.task.op = "eject" => cpu'.task = cpu.task)
    <3>1. cpu[p].op \in {"accRun", "irq"} /\ cpu[p].d \in Ids
      BY <1>4, <1>0, CursorIs DEF CheckDrive, At, Idle
    <3>2. PICK at \in {"lock", "post"} : Goto(p, at) /\ (at = "lock" => 0 \in InPlace(cpu[p].d))
      BY <1>4 DEF CheckDrive
    <3>3. CursorTypes' /\ (\A q \in Processes \ {p} : cpu'[q] = cpu[q])
            /\ cpu'[p].op = cpu[p].op /\ cpu'[p].d = cpu[p].d /\ cpu'[p].at = at
      BY <1>0, <2>0, <3>1, <3>2, GotoStep
    <3>4. at = "lock" => ~Held(cpu[p].d)
      BY <1>0, <3>1, <3>2 DEF InPlace, Held, Mounted, Queue
    <3>5. QED
      BY <3>1, <3>3, <3>4 DEF MovesOn, Processes
  <2>2. DisksTypeOK'
    <3>1. cpu[p].d \in Ids
      BY <1>4, <1>0, CursorIs DEF CheckDrive, At, Idle
    <3>2. /\ dsDiskInPlace' \in [Ids -> {0, 1, 2, 8}] /\ to_be_mounted' \in [Ids -> BOOLEAN]
          /\ posted' \subseteq Ids /\ hasty' \subseteq Ids
      BY <1>4, <1>0, <3>1, SetInPlaceStep DEF CheckDrive, DisksTypeOK
    <3>3. QED
      BY <1>4, <1>0, <2>0, <2>1, <3>2 DEF CheckDrive, hostVars, sysVars, DisksTypeOK, CursorTypes, Ids
  <2>3. events' \subseteq drive_queue /\ UNCHANGED <<num, status, opened, drive_queue, volume>>
    BY <1>4, <1>0 DEF CheckDrive, hostVars, driverVars, sysVars, pastVars, Queue
  <2>4. \A x \in Ids : IsCDROM(x) => DiscSame(x)
    <3>1. cpu[p].d \in Ids
      BY <1>4, <1>0, CursorIs DEF CheckDrive, At, Idle
    <3>2. \A x \in Ids : Driver(x) = "cdrom" => dsDiskInPlace'[x] = dsDiskInPlace[x]
      BY <1>4, <1>0, <3>1, SetInPlaceStep DEF CheckDrive
    <3>3. \A x \in Ids : IsCDROM(x) => Driver(x) = "cdrom"
      BY <1>0, DrivesAre
    <3>4. QED
      BY <1>4, <3>2, <3>3 DEF CheckDrive, hostVars, DiscSame, LetGo
  <2>5. Queue' /\ Numbers' /\ Opening' /\ Locking' /\ Ejecting' /\ Mounted' /\ LockedIn'
    BY <2>0, <2>1, <2>3, <2>4, CalmStep, DiscStep
  <2>6. QED
    BY <2>1, <2>2, <2>5 DEF DInv, CursorTypes
<1>5. ASSUME NEW p \in Processes, PostEvent(p) PROVE DInv'
  <2>0. drives' = drives
    BY <1>5 DEF PostEvent, hostVars, driverVars, sysVars, pastVars
  <2>1. CursorTypes' /\ (\A q \in Processes : MovesOn(q))
          /\ (cpu.task.op = "eject" => cpu'.task = cpu.task)
    <3>1. cpu[p].op \in {"accRun", "irq"} /\ Goto(p, "clear")
      BY <1>5, <1>0, CursorIs DEF PostEvent, At
    <3>2. CursorTypes' /\ (\A q \in Processes \ {p} : cpu'[q] = cpu[q])
            /\ cpu'[p].op = cpu[p].op /\ cpu'[p].at = "clear"
      BY <1>0, <2>0, <3>1, GotoStep
    <3>3. QED
      BY <3>1, <3>2 DEF MovesOn, Processes
  <2>2. DisksTypeOK'
    <3>1. cpu[p].d \in Ids
      BY <1>5, <1>0, CursorIs DEF PostEvent, At, Idle
    <3>2. events' \subseteq Ids /\ posted' \subseteq Ids
      BY <1>5, <1>0, <3>1 DEF PostEvent, PostDiskEvent, DisksTypeOK
    <3>3. QED
      BY <1>5, <1>0, <2>0, <2>1, <3>2 DEF PostEvent, hostVars, driverVars, DisksTypeOK, CursorTypes, Ids
  <2>3. events' \subseteq drive_queue /\ UNCHANGED <<num, status, opened, drive_queue, volume>>
    BY <1>5, <1>0 DEF PostEvent, hostVars, driverVars, sysVars, pastVars, Queue, PostDiskEvent
  <2>4. \A x \in Ids : IsCDROM(x) => DiscSame(x)
    BY <1>5 DEF PostEvent, hostVars, driverVars, sysVars, pastVars, DiscSame, LetGo
  <2>5. Queue' /\ Numbers' /\ Opening' /\ Locking' /\ Ejecting' /\ Mounted' /\ LockedIn'
    BY <2>0, <2>1, <2>3, <2>4, CalmStep, DiscStep
  <2>6. QED
    BY <2>1, <2>2, <2>5 DEF DInv, CursorTypes
<1>6. ASSUME NEW p \in Processes, NothingToMount(p) PROVE DInv'
  <2>0. drives' = drives
    BY <1>6 DEF NothingToMount, hostVars, driverVars, sysVars, pastVars
  <2>1. CursorTypes' /\ (\A q \in Processes : MovesOn(q))
          /\ (cpu.task.op = "eject" => cpu'.task = cpu.task)
    <3>1. cpu[p].op \in {"open", "accRun", "irq"}
      BY <1>6, <1>0, CursorIs DEF NothingToMount, At
    <3>2. NextDrive(p) /\ (cpu[p].op = "open" => cpu[p].d \in Ids)
      BY <1>6, <1>0, CursorIs DEF NothingToMount, Idle
    <3>3. CursorTypes' /\ (\A q \in Processes \ {p} : cpu'[q] = cpu[q])
      BY <1>0, <2>0, <3>1, <3>2, NextDriveStep
    <3>4. MovesOn(p)
      BY <1>0, <2>0, <3>1, <3>2, NextDriveStep DEF MovesOn
    <3>5. cpu.task.op = "eject" => cpu'.task = cpu.task
      BY <3>1, <3>3 DEF Processes
    <3>6. QED
      BY <3>3, <3>4, <3>5 DEF MovesOn
  <2>2. DisksTypeOK'
    <3>1. cpu[p].d \in Ids
      BY <1>6, <1>0, CursorIs DEF NothingToMount, At, Idle
    <3>2. acc_run_called' \subseteq Drivers
      BY <1>6, <1>0, <3>1, DrivesAre DEF NothingToMount, EndAccRun, DisksTypeOK
    <3>3. QED
      BY <1>6, <1>0, <2>0, <2>1, <3>2 DEF NothingToMount, hostVars, sysVars, pastVars, DisksTypeOK, CursorTypes, Ids
  <2>3. events' \subseteq drive_queue /\ UNCHANGED <<num, status, opened, drive_queue, volume>>
    BY <1>6, <1>0 DEF NothingToMount, hostVars, driverVars, sysVars, pastVars, Queue
  <2>4. \A x \in Ids : IsCDROM(x) => DiscSame(x)
    BY <1>6 DEF NothingToMount, hostVars, driverVars, sysVars, pastVars, DiscSame, LetGo
  <2>5. Queue' /\ Numbers' /\ Opening' /\ Locking' /\ Ejecting' /\ Mounted' /\ LockedIn'
    BY <2>0, <2>1, <2>3, <2>4, CalmStep, DiscStep
  <2>6. QED
    BY <2>1, <2>2, <2>5 DEF DInv, CursorTypes
<1>7. ASSUME NEW p \in Processes, ClearFlag(p) PROVE DInv'
  <2>0. drives' = drives
    BY <1>7 DEF ClearFlag, hostVars, driverVars, sysVars, pastVars
  <2>1. CursorTypes' /\ (\A q \in Processes : MovesOn(q))
          /\ (cpu.task.op = "eject" => cpu'.task = cpu.task)
    <3>1. cpu[p].op \in {"open", "accRun", "irq"}
      BY <1>7, <1>0, CursorIs DEF ClearFlag, At
    <3>2. NextDrive(p) /\ (cpu[p].op = "open" => cpu[p].d \in Ids)
      BY <1>7, <1>0, CursorIs DEF ClearFlag, Idle
    <3>3. CursorTypes' /\ (\A q \in Processes \ {p} : cpu'[q] = cpu[q])
      BY <1>0, <2>0, <3>1, <3>2, NextDriveStep
    <3>4. MovesOn(p)
      BY <1>0, <2>0, <3>1, <3>2, NextDriveStep DEF MovesOn
    <3>5. cpu.task.op = "eject" => cpu'.task = cpu.task
      BY <3>1, <3>3 DEF Processes
    <3>6. QED
      BY <3>3, <3>4, <3>5 DEF MovesOn
  <2>2. DisksTypeOK'
    <3>1. cpu[p].d \in Ids
      BY <1>7, <1>0, CursorIs DEF ClearFlag, At, Idle
    <3>2. acc_run_called' \subseteq Drivers
      BY <1>7, <1>0, <3>1, DrivesAre DEF ClearFlag, EndAccRun, DisksTypeOK
    <3>3. to_be_mounted' \in [Ids -> BOOLEAN] /\ hasty' \subseteq Ids
      BY <1>7, <1>0, <3>1 DEF ClearFlag, DisksTypeOK
    <3>4. QED
      BY <1>7, <1>0, <2>0, <2>1, <3>2, <3>3 DEF ClearFlag, hostVars, sysVars, DisksTypeOK, CursorTypes, Ids
  <2>3. events' \subseteq drive_queue /\ UNCHANGED <<num, status, opened, drive_queue, volume>>
    BY <1>7, <1>0 DEF ClearFlag, hostVars, driverVars, sysVars, pastVars, Queue
  <2>4. \A x \in Ids : IsCDROM(x) => DiscSame(x)
    BY <1>7 DEF ClearFlag, hostVars, driverVars, sysVars, pastVars, DiscSame, LetGo
  <2>5. Queue' /\ Numbers' /\ Opening' /\ Locking' /\ Ejecting' /\ Mounted' /\ LockedIn'
    BY <2>0, <2>1, <2>3, <2>4, CalmStep, DiscStep
  <2>6. QED
    BY <2>1, <2>2, <2>5 DEF DInv, CursorTypes
<1>8. ASSUME NEW d \in Ids, SonyPrime(d) PROVE DInv'
  <2>0. drives' = drives
    BY <1>8 DEF SonyPrime, hostVars, driverVars, sysVars, pastVars
  <2>1. CursorTypes' /\ (\A q \in Processes : MovesOn(q))
          /\ (cpu.task.op = "eject" => cpu'.task = cpu.task)
    BY <1>8, <1>0, <2>0 DEF SonyPrime, hostVars, driverVars, sysVars, pastVars, CursorTypes, IrqKind, Cursors, Ids, MovesOn
  <2>2. DisksTypeOK'
    <3>1. get_drive_info(d) \in Ids
      BY <1>0, InfoFound
    <3>2. dsDiskInPlace' \in [Ids -> {0, 1, 2, 8}]
      BY <1>8, <1>0, <3>1, SetInPlaceStep DEF SonyPrime
    <3>3. QED
      BY <1>8, <1>0, <2>0, <2>1, <3>2 DEF SonyPrime, hostVars, sysVars, pastVars, DisksTypeOK, CursorTypes, Ids
  <2>3. events' \subseteq drive_queue /\ UNCHANGED <<num, status, opened, drive_queue, volume>>
    BY <1>8, <1>0 DEF SonyPrime, hostVars, driverVars, sysVars, pastVars, Queue
  <2>4. \A x \in Ids : IsCDROM(x) => DiscSame(x)
    <3>1. get_drive_info(d) \in Ids /\ Driver(get_drive_info(d)) = "sony"
      BY <1>8, <1>0, InfoFound DEF SonyPrime
    <3>2. \A x \in Ids : Driver(x) = "cdrom" => dsDiskInPlace'[x] = dsDiskInPlace[x]
      BY <1>8, <1>0, <3>1, SetInPlaceStep DEF SonyPrime
    <3>3. \A x \in Ids : IsCDROM(x) => Driver(x) = "cdrom"
      BY <1>0, DrivesAre
    <3>4. QED
      BY <1>8, <3>2, <3>3 DEF SonyPrime, hostVars, pastVars, DiscSame, LetGo
  <2>5. Queue' /\ Numbers' /\ Opening' /\ Locking' /\ Ejecting' /\ Mounted' /\ LockedIn'
    BY <2>0, <2>1, <2>3, <2>4, CalmStep, DiscStep
  <2>6. QED
    BY <2>1, <2>2, <2>5 DEF DInv, CursorTypes
<1>9. ASSUME NEW d \in Ids, NEW b \in BOOLEAN, ModifyPostEvent(d, b) PROVE DInv'
  <2>0. drives' = drives
    BY <1>9 DEF ModifyPostEvent, hostVars, driverVars, sysVars, pastVars
  <2>1. CursorTypes' /\ (\A q \in Processes : MovesOn(q))
          /\ (cpu.task.op = "eject" => cpu'.task = cpu.task)
    BY <1>9, <1>0, <2>0 DEF ModifyPostEvent, hostVars, driverVars, sysVars, pastVars, CursorTypes, IrqKind, Cursors, Ids, MovesOn
  <2>2. DisksTypeOK'
    <3>1. get_drive_info(d) \in Ids
      BY <1>0, InfoFound
    <3>2. QED
      BY <1>9, <1>0, <2>0, <2>1, <3>1 DEF ModifyPostEvent, hostVars, driverVars, sysVars, pastVars, DisksTypeOK, CursorTypes, Ids
  <2>3. events' \subseteq drive_queue /\ UNCHANGED <<num, status, opened, drive_queue, volume>>
    BY <1>9, <1>0 DEF ModifyPostEvent, hostVars, driverVars, sysVars, pastVars, Queue
  <2>4. \A x \in Ids : IsCDROM(x) => DiscSame(x)
    BY <1>9 DEF ModifyPostEvent, hostVars, driverVars, sysVars, pastVars, DiscSame, LetGo
  <2>5. Queue' /\ Numbers' /\ Opening' /\ Locking' /\ Ejecting' /\ Mounted' /\ LockedIn'
    BY <2>0, <2>1, <2>3, <2>4, CalmStep, DiscStep
  <2>6. QED
    BY <2>1, <2>2, <2>5 DEF DInv, CursorTypes
<1>10. CASE SysMountFirstFloppy
  <2>0. drives' = drives
    BY <1>10 DEF SysMountFirstFloppy, hostVars, driverVars, sysVars, pastVars
  <2>1. CursorTypes' /\ (\A q \in Processes : MovesOn(q))
          /\ (cpu.task.op = "eject" => cpu'.task = cpu.task)
    BY <1>10, <1>0, <2>0 DEF SysMountFirstFloppy, hostVars, driverVars, sysVars, pastVars, CursorTypes, IrqKind, Cursors, Ids, MovesOn
  <2>2. DisksTypeOK'
    BY <1>10, <1>0, <2>0, <2>1 DEF SysMountFirstFloppy, hostVars, driverVars, sysVars, pastVars, DisksTypeOK, CursorTypes, Ids
  <2>3. events' \subseteq drive_queue /\ UNCHANGED <<num, status, opened, drive_queue, volume>>
    BY <1>10, <1>0 DEF SysMountFirstFloppy, hostVars, driverVars, sysVars, pastVars, Queue
  <2>4. \A x \in Ids : IsCDROM(x) => DiscSame(x)
    BY <1>10 DEF SysMountFirstFloppy, hostVars, driverVars, sysVars, pastVars, DiscSame, LetGo
  <2>5. Queue' /\ Numbers' /\ Opening' /\ Locking' /\ Ejecting' /\ Mounted' /\ LockedIn'
    BY <2>0, <2>1, <2>3, <2>4, CalmStep, DiscStep
  <2>6. QED
    BY <2>1, <2>2, <2>5 DEF DInv, CursorTypes
<1>11. CASE KeyPlace
  <2>0. drives' = drives
    BY <1>11 DEF KeyPlace, hostVars, driverVars, sysVars, pastVars
  <2>1. CursorTypes' /\ (\A q \in Processes : MovesOn(q))
          /\ (cpu.task.op = "eject" => cpu'.task = cpu.task)
    BY <1>11, <1>0, <2>0 DEF KeyPlace, hostVars, driverVars, sysVars, pastVars, CursorTypes, IrqKind, Cursors, Ids, MovesOn
  <2>2. DisksTypeOK'
    <3>1. dsDiskInPlace' \in [Ids -> {0, 1, 2, 8}]
      BY <1>11, <1>0, SetInPlaceStep DEF KeyPlace, FirstFloppy
    <3>2. QED
      BY <1>11, <1>0, <2>0, <2>1, <3>1 DEF KeyPlace, hostVars, sysVars, pastVars, DisksTypeOK, CursorTypes, Ids
  <2>3. events' \subseteq drive_queue /\ UNCHANGED <<num, status, opened, drive_queue, volume>>
    BY <1>11, <1>0 DEF KeyPlace, hostVars, driverVars, sysVars, pastVars, Queue
  <2>4. \A x \in Ids : IsCDROM(x) => DiscSame(x)
    <3>1. PICK d \in FirstFloppy : SetInPlace(d, 1)
      BY <1>11 DEF KeyPlace
    <3>2. d \in Ids /\ ~IsCDROM(d)
      BY <3>1 DEF FirstFloppy, IsCDROM
    <3>3. \A x \in Ids : IsCDROM(x) => dsDiskInPlace'[x] = dsDiskInPlace[x]
      BY <1>0, <3>1, <3>2, SetInPlaceStep
    <3>4. QED
      BY <1>11, <3>3 DEF KeyPlace, hostVars, pastVars, DiscSame, LetGo
  <2>5. Queue' /\ Numbers' /\ Opening' /\ Locking' /\ Ejecting' /\ Mounted' /\ LockedIn'
    BY <2>0, <2>1, <2>3, <2>4, CalmStep, DiscStep
  <2>6. QED
    BY <2>1, <2>2, <2>5 DEF DInv, CursorTypes
<1>12. CASE KeyFlag
  <2>0. drives' = drives
    BY <1>12 DEF KeyFlag, hostVars, driverVars, sysVars, pastVars
  <2>1. CursorTypes' /\ (\A q \in Processes : MovesOn(q))
          /\ (cpu.task.op = "eject" => cpu'.task = cpu.task)
    BY <1>12, <1>0, <2>0 DEF KeyFlag, hostVars, driverVars, sysVars, pastVars, CursorTypes, IrqKind, Cursors, Ids, MovesOn
  <2>2. DisksTypeOK'
    BY <1>12, <1>0, <2>0, <2>1 DEF KeyFlag, hostVars, driverVars, sysVars, pastVars, DisksTypeOK, CursorTypes, Ids, FirstFloppy
  <2>3. events' \subseteq drive_queue /\ UNCHANGED <<num, status, opened, drive_queue, volume>>
    BY <1>12, <1>0 DEF KeyFlag, hostVars, driverVars, sysVars, pastVars, Queue
  <2>4. \A x \in Ids : IsCDROM(x) => DiscSame(x)
    BY <1>12 DEF KeyFlag, hostVars, driverVars, sysVars, pastVars, DiscSame, LetGo
  <2>5. Queue' /\ Numbers' /\ Opening' /\ Locking' /\ Ejecting' /\ Mounted' /\ LockedIn'
    BY <2>0, <2>1, <2>3, <2>4, CalmStep, DiscStep
  <2>6. QED
    BY <2>1, <2>2, <2>5 DEF DInv, CursorTypes
<1>13. CASE EndEject
  <2>0. drives' = drives
    BY <1>13 DEF EndEject, hostVars, driverVars, sysVars, pastVars
  <2>1. CursorTypes' /\ (\A q \in Processes : MovesOn(q))
    <3>1. cpu.task.op = "eject" /\ cpu' = [cpu EXCEPT !["task"] = Idle] /\ Idle \in Cursors
      BY <1>13, <1>0, CursorIs DEF EndEject, At, Processes, Cursors
    <3>2. QED
      BY <1>0, <2>0, <3>1, CallStep DEF MovesOn, Processes
  <2>2. DisksTypeOK'
    <3>1. cpu.task.d \in Ids
      BY <1>13, <1>0, CursorIs DEF EndEject, At, Idle, Processes
    <3>2. dsDiskInPlace' \in [Ids -> {0, 1, 2, 8}] /\ posted' \subseteq Ids
      BY <1>13, <1>0, <3>1, SetInPlaceStep DEF EndEject, DisksTypeOK
    <3>3. hasty' \subseteq Ids
      BY <1>13, <1>0, <3>1 DEF EndEject, DisksTypeOK, KeyPressed, FirstFloppy
    <3>4. QED
      BY <1>13, <1>0, <2>0, <2>1, <3>2, <3>3 DEF EndEject, hostVars, sysVars, DisksTypeOK, CursorTypes, Ids
  <2>3. events' \subseteq drive_queue /\ UNCHANGED <<num, status, opened, drive_queue, volume>>
    BY <1>13, <1>0 DEF EndEject, hostVars, driverVars, sysVars, pastVars, Queue
  <2>4. \A x : Held(x)' <=> Held(x)
    BY <2>0, <2>3, SameHeld
  <2>5. Mounted'
    <3>1. SUFFICES ASSUME NEW y \in Ids, Held(y)'
                   PROVE  dsDiskInPlace'[y] # 0
                            /\ ((volume'[y] = media'[y] /\ volume'[y] = toc'[y]) \/ LetGo(y)')
      BY <2>0 DEF Mounted, Ids
    <3> DEFINE x == cpu.task.d
    <3>2. cpu.task.op = "eject" /\ x \in Ids
      BY <1>13, <1>0, CursorIs DEF EndEject, At, Idle, Processes
    <3>3. Held(y) /\ y # x
      BY <1>0, <2>4, <3>1, <3>2 DEF Ejecting
    <3>4. dsDiskInPlace'[y] = dsDiskInPlace[y]
      BY <1>13, <1>0, <3>2, <3>3, SetInPlaceStep DEF EndEject
    <3>5. QED
      BY <1>13, <1>0, <3>3, <3>4 DEF EndEject, hostVars, sysVars, Mounted, LetGo
  <2>6. LockedIn'
    <3>1. SUFFICES ASSUME NEW y \in Ids, IsCDROM(y), status'[y] = "new", dsDiskInPlace'[y] # 0,
                          ~(cpu'.task.op = "eject" /\ cpu'.task.d = y)
                   PROVE  Locked(y)' \/ LetGo(y)'
      BY <2>0 DEF LockedIn, Ids, IsCDROM
    <3> DEFINE x == cpu.task.d
    <3>2. cpu.task.op = "eject" /\ x \in Ids /\ SetInPlace(x, 0)
      BY <1>13, <1>0, CursorIs DEF EndEject, At, Idle, Processes
    <3>3. status[y] = "new" /\ y # x /\ dsDiskInPlace'[y] = dsDiskInPlace[y]
      BY <1>0, <2>3, <3>1, <3>2, SetInPlaceStep
    <3>4. Locked(y) \/ LetGo(y)
      BY <1>0, <3>1, <3>3 DEF LockedIn
    <3>5. QED
      BY <1>13, <3>4 DEF EndEject, hostVars, Locked, LetGo
  <2>7. Queue' /\ Numbers' /\ Opening' /\ Locking' /\ Ejecting'
    BY <2>0, <2>1, <2>3, CalmStep
  <2>8. QED
    BY <2>1, <2>2, <2>5, <2>6, <2>7 DEF DInv, CursorTypes
<1>14. ASSUME NEW d \in Ids, NEW b \in BOOLEAN, SetUserEject(d, b) PROVE DInv'
  <2>0. drives' = drives
    BY <1>14 DEF SetUserEject, hostVars, driverVars, sysVars, pastVars
  <2>1. CursorTypes' /\ (\A q \in Processes : MovesOn(q))
    BY <1>14, <1>0, <2>0 DEF SetUserEject, hostVars, driverVars, sysVars, pastVars, CursorTypes, IrqKind, Cursors, Ids, MovesOn
  <2>2. DisksTypeOK'
    <3>1. get_drive_info(d) \in Ids
      BY <1>0, InfoFound
    <3>2. QED
      BY <1>14, <1>0, <2>0, <2>1, <3>1 DEF SetUserEject, hostVars, driverVars, sysVars, pastVars, DisksTypeOK, CursorTypes, Ids
  <2>3. events' \subseteq drive_queue /\ UNCHANGED <<num, status, opened, drive_queue, volume>>
    BY <1>14, <1>0 DEF SetUserEject, hostVars, driverVars, sysVars, pastVars, Queue
  <2>4. \A x : Held(x)' <=> Held(x)
    BY <2>0, <2>3, SameHeld
  <2>5. Mounted'
    <3>1. SUFFICES ASSUME NEW y \in Ids, Held(y)'
                   PROVE  dsDiskInPlace'[y] # 0
                            /\ ((volume'[y] = media'[y] /\ volume'[y] = toc'[y]) \/ LetGo(y)')
      BY <2>0 DEF Mounted, Ids
    <3>2. QED
      BY <1>14, <1>0, <2>4, <3>1 DEF SetUserEject, sysVars, driverVars, Mounted, LetGo
  <2>6. LockedIn'
    <3>1. SUFFICES ASSUME NEW y \in Ids, IsCDROM(y), status'[y] = "new", dsDiskInPlace'[y] # 0,
                          ~(cpu'.task.op = "eject" /\ cpu'.task.d = y)
                   PROVE  Locked(y)' \/ LetGo(y)'
      BY <2>0 DEF LockedIn, Ids, IsCDROM
    <3>2. Locked(y) \/ LetGo(y)
      BY <1>14, <1>0, <3>1 DEF SetUserEject, driverVars, LockedIn
    <3>3. QED
      BY <1>14, <3>2 DEF SetUserEject, driverVars, Locked, LetGo
  <2>7. Queue' /\ Numbers' /\ Opening' /\ Locking' /\ Ejecting'
    BY <2>0, <2>1, <2>3, CalmStep
  <2>8. QED
    BY <2>1, <2>2, <2>5, <2>6, <2>7 DEF DInv, CursorTypes
<1>15. ASSUME NEW d \in Ids, NEW disc \in Discs, Insert(d, disc) PROVE DInv'
  <2>0. drives' = drives
    BY <1>15 DEF Insert, hostVars, driverVars, sysVars, pastVars
  <2>1. CursorTypes' /\ (\A q \in Processes : MovesOn(q))
    BY <1>15, <1>0, <2>0 DEF Insert, hostVars, driverVars, sysVars, pastVars, CursorTypes, IrqKind, Cursors, Ids, MovesOn
  <2>2. DisksTypeOK'
    BY <1>15, <1>0, <2>0, <2>1 DEF Insert, hostVars, driverVars, sysVars, pastVars, DisksTypeOK, CursorTypes, Ids
  <2>3. events' \subseteq drive_queue /\ UNCHANGED <<num, status, opened, drive_queue, volume>>
    BY <1>15, <1>0 DEF Insert, hostVars, driverVars, sysVars, pastVars, Queue
  <2>4. \A x : Held(x)' <=> Held(x)
    BY <2>0, <2>3, SameHeld
  <2>5. Mounted'
    <3>1. SUFFICES ASSUME NEW y \in Ids, Held(y)'
                   PROVE  dsDiskInPlace'[y] # 0
                            /\ ((volume'[y] = media'[y] /\ volume'[y] = toc'[y]) \/ LetGo(y)')
      BY <2>0 DEF Mounted, Ids
    <3>2. Held(y)
      BY <2>4, <3>1
    <3>3. dsDiskInPlace[y] # 0 /\ ((volume[y] = media[y] /\ volume[y] = toc[y]) \/ LetGo(y))
      BY <1>0, <3>2 DEF Mounted
    <3>4. Locked(y) \/ LetGo(y)
      BY <1>0, <3>2, <3>3 DEF LockedIn, Ejecting, Queue, Held
    <3>5. y = d => LetGo(y)
      BY <1>15, <3>4 DEF Insert, Locked
    <3>6. QED
      BY <1>15, <3>3, <3>5 DEF Insert, driverVars, sysVars, pastVars, LetGo
  <2>6. LockedIn'
    <3>1. SUFFICES ASSUME NEW y \in Ids, IsCDROM(y), status'[y] = "new", dsDiskInPlace'[y] # 0,
                          ~(cpu'.task.op = "eject" /\ cpu'.task.d = y)
                   PROVE  Locked(y)' \/ LetGo(y)'
      BY <2>0 DEF LockedIn, Ids, IsCDROM
    <3>2. Locked(y) \/ LetGo(y)
      BY <1>15, <1>0, <3>1 DEF Insert, driverVars, LockedIn
    <3>3. y = d => LetGo(y)
      BY <1>15, <3>2 DEF Insert, Locked
    <3>4. QED
      BY <1>15, <3>2, <3>3 DEF Insert, driverVars, pastVars, Locked, LetGo
  <2>7. Queue' /\ Numbers' /\ Opening' /\ Locking' /\ Ejecting'
    BY <2>0, <2>1, <2>3, CalmStep
  <2>8. QED
    BY <2>1, <2>2, <2>5, <2>6, <2>7 DEF DInv, CursorTypes
<1>16. ASSUME NEW d \in Ids, Remove(d) PROVE DInv'
  <2>0. drives' = drives
    BY <1>16 DEF Remove, hostVars, driverVars, sysVars, pastVars
  <2>1. CursorTypes' /\ (\A q \in Processes : MovesOn(q))
    BY <1>16, <1>0, <2>0 DEF Remove, hostVars, driverVars, sysVars, pastVars, CursorTypes, IrqKind, Cursors, Ids, MovesOn
  <2>2. DisksTypeOK'
    BY <1>16, <1>0, <2>0, <2>1 DEF Remove, hostVars, driverVars, sysVars, pastVars, DisksTypeOK, CursorTypes, Ids
  <2>3. events' \subseteq drive_queue /\ UNCHANGED <<num, status, opened, drive_queue, volume>>
    BY <1>16, <1>0 DEF Remove, hostVars, driverVars, sysVars, pastVars, Queue
  <2>4. \A x : Held(x)' <=> Held(x)
    BY <2>0, <2>3, SameHeld
  <2>5. Mounted'
    <3>1. SUFFICES ASSUME NEW y \in Ids, Held(y)'
                   PROVE  dsDiskInPlace'[y] # 0
                            /\ ((volume'[y] = media'[y] /\ volume'[y] = toc'[y]) \/ LetGo(y)')
      BY <2>0 DEF Mounted, Ids
    <3>2. Held(y)
      BY <2>4, <3>1
    <3>3. dsDiskInPlace[y] # 0 /\ ((volume[y] = media[y] /\ volume[y] = toc[y]) \/ LetGo(y))
      BY <1>0, <3>2 DEF Mounted
    <3>4. Locked(y) \/ LetGo(y)
      BY <1>0, <3>2, <3>3 DEF LockedIn, Ejecting, Queue, Held
    <3>5. y = d => LetGo(y)
      BY <1>16, <3>4 DEF Remove, Locked
    <3>6. QED
      BY <1>16, <3>3, <3>5 DEF Remove, driverVars, sysVars, pastVars, LetGo
  <2>6. LockedIn'
    <3>1. SUFFICES ASSUME NEW y \in Ids, IsCDROM(y), status'[y] = "new", dsDiskInPlace'[y] # 0,
                          ~(cpu'.task.op = "eject" /\ cpu'.task.d = y)
                   PROVE  Locked(y)' \/ LetGo(y)'
      BY <2>0 DEF LockedIn, Ids, IsCDROM
    <3>2. Locked(y) \/ LetGo(y)
      BY <1>16, <1>0, <3>1 DEF Remove, driverVars, LockedIn
    <3>3. y = d => LetGo(y)
      BY <1>16, <3>2 DEF Remove, Locked
    <3>4. QED
      BY <1>16, <3>2, <3>3 DEF Remove, driverVars, pastVars, Locked, LetGo
  <2>7. Queue' /\ Numbers' /\ Opening' /\ Locking' /\ Ejecting'
    BY <2>0, <2>1, <2>3, CalmStep
  <2>8. QED
    BY <2>1, <2>2, <2>5, <2>6, <2>7 DEF DInv, CursorTypes
<1>17. ASSUME NEW drv \in Drivers, Open(drv) PROVE DInv'
  <2>0. drives' = drives
    BY <1>17 DEF Open, hostVars, driverVars, sysVars, pastVars
  <2> DEFINE x == Least(DrivesOf(drv))
             c == [op |-> "open", d |-> x, at |-> "number"]
  <2>a. x \in Ids /\ Driver(x) = drv
    <3>1. DrivesOf(drv) \subseteq Nat /\ DrivesOf(drv) # {}
      BY <1>17, <1>0, DrivesAre DEF Open, DrivesOf
    <3>2. x \in DrivesOf(drv)
      BY <3>1, LeastOf
    <3>3. QED
      BY <3>2 DEF DrivesOf
  <2>b. c \in Cursors /\ cpu.task = Idle /\ cpu.irq = Idle /\ cpu' = [cpu EXCEPT !["task"] = c]
    BY <1>17, <2>a DEF Open, AtTask, Cursors
  <2> HIDE DEF x
  <2>c. c.op = "open" /\ c.d = x /\ c.at = "number"
    OBVIOUS
  <2> HIDE DEF c
  <2>1. CursorTypes' /\ cpu'.irq = Idle /\ cpu'.task = c
    BY <1>0, <2>0, <2>b, CallStep DEF Processes
  <2>2. DisksTypeOK'
    BY <1>17, <1>0, <2>0, <2>1 DEF Open, hostVars, driverVars, sysVars, pastVars, DisksTypeOK, CursorTypes, Ids
  <2>d. opened' = opened \cup {drv} /\ drv \notin opened /\ DrivesOf(drv) # {}
    BY <1>17 DEF Open
  <2>e. UNCHANGED <<num, status, drive_queue, volume, events>>
    BY <1>17 DEF Open
  <2>3. Queue' /\ Numbers'
    BY <1>0, <2>0, <2>d, <2>e DEF Queue, Numbers, Ids, Driver, DrivesOf
  <2>4. Opening'
    BY <1>0, <2>0, <2>1, <2>a, <2>c, <2>d, <2>e DEF Opening, Queue, Ids, Driver
  <2>5. Locking' /\ Ejecting'
    BY <2>1, <2>c DEF Locking, Ejecting, Processes, Idle
  <2>6. Mounted' /\ LockedIn'
    <3>1. cpu.task.op # "eject"
      BY <2>b DEF Idle
    <3>2. \A y \in Ids : IsCDROM(y) => DiscSame(y)
      BY <1>17 DEF Open, hostVars, driverVars, sysVars, pastVars, DiscSame, LetGo
    <3>3. QED
      BY <2>0, <2>e, <3>1, <3>2, DiscStep
  <2>9. QED
    BY <2>1, <2>2, <2>3, <2>4, <2>5, <2>6 DEF DInv, CursorTypes
<1>18. CASE NumberDrive
  <2>0. drives' = drives
    BY <1>18 DEF NumberDrive, hostVars, driverVars, sysVars, pastVars
  <2> DEFINE x == cpu.task.d
  <2>a. x \in Ids /\ cpu.task.op = "open" /\ cpu.irq = Idle /\ Goto("task", "alloc")
    BY <1>18, <1>0, CursorIs DEF NumberDrive, At, Processes, Idle
  <2>1. CursorTypes' /\ cpu'.irq = Idle /\ cpu'.task.op = "open" /\ cpu'.task.d = x
          /\ cpu'.task.at = "alloc"
    BY <1>0, <2>0, <2>a, GotoStep DEF Processes
  <2>b. drive_queue \subseteq Ids /\ Ids \subseteq Nat /\ num \in [Ids -> 0 .. Len(drives)] /\ Len(drives) \in Nat
    BY <1>0, DrivesAre DEF DisksTypeOK
  <2>c. x \notin drive_queue
    <3>0. \A m \in Nat : ~(m < m)
      OBVIOUS
    <3>1. ~(x < x)
      BY <2>a, <2>b, <3>0
    <3>2. \A d \in drive_queue : Driver(d) = Driver(x) => d < x
      BY <1>0, <2>a DEF Opening
    <3>3. QED
      BY <3>1, <3>2
  <2>d. num' = [num EXCEPT ![x] = FindFreeDriveNumber(x)]
          /\ UNCHANGED <<status, opened, drive_queue, volume, events, media, toc, dsDiskInPlace, door>>
          /\ allowed' = allowed /\ slipped' = slipped
    BY <1>18 DEF NumberDrive, hostVars, sysVars
  <2>e. FindFreeDriveNumber(x) \in 1 .. Len(drives)
          /\ \A e \in drive_queue : num[e] # FindFreeDriveNumber(x)
    BY <1>0, <2>a, <2>b, <2>c, FreeNumber
  <2>f. num' \in [Ids -> 0 .. Len(drives)]
    <3>1. FindFreeDriveNumber(x) \in 0 .. Len(drives)
      BY <2>b, <2>e
    <3>2. QED
      BY <2>b, <2>d, <3>1
  <2>2. DisksTypeOK'
    <3>1. to_be_mounted' \in [Ids -> BOOLEAN] /\ mount_non_hfs' \in [Ids -> BOOLEAN]
            /\ quiet' \subseteq Ids /\ hasty' \subseteq Ids
      BY <1>18, <1>0, <2>a DEF NumberDrive, DisksTypeOK
    <3>2. QED
      BY <1>18, <1>0, <2>0, <2>1, <2>d, <2>f, <3>1 DEF NumberDrive, DisksTypeOK, CursorTypes, Ids
  <2>3. Queue' /\ Numbers'
    BY <1>0, <2>0, <2>b, <2>c, <2>d DEF Queue, Numbers, Ids, Driver, DrivesOf
  <2>g. Driver(x) \in opened
          /\ (\A d \in drive_queue : Driver(d) = Driver(x) => d < x)
          /\ (\A d \in Ids : Driver(d) = Driver(x) => volume[d] = "none")
    BY <1>0, <2>a DEF Opening
  <2>4. Opening'
    <3>1. \A d \in drive_queue : num'[d] # num'[x]
      BY <2>a, <2>b, <2>c, <2>d, <2>e
    <3>2. QED
      BY <2>0, <2>1, <2>d, <2>g, <3>1 DEF Opening, Ids, Driver
  <2>5. Locking' /\ Ejecting'
    BY <2>1 DEF Locking, Ejecting, Processes, Idle
  <2>h. ASSUME NEW y \in Ids, Held(y)' PROVE Held(y)
    <3>1. y \in drive_queue /\ volume[y] # "none" /\ IsCDROM(y) /\ get_drive_info(y)' = y
      BY <2>0, <2>d, <2>h DEF Held, IsCDROM
    <3>2. Driver(y) # Driver(x)
      BY <2>g, <3>1
    <3>3. \A e \in DrivesOf(Driver(y)) \cup {y} : e # x /\ e \in Ids
      BY <3>2 DEF DrivesOf
    <3>4. \A e \in DrivesOf(Driver(y)) \cup {y} : num'[e] = num[e]
      BY <2>b, <2>d, <3>3
    <3>5. {e \in DrivesOf(Driver(y)) : num'[e] = num'[y]} = {e \in DrivesOf(Driver(y)) : num[e] = num[y]}
      BY <3>4
    <3>6. DrivesOf(Driver(y))' = DrivesOf(Driver(y))
      BY <2>0 DEF DrivesOf, Driver, Ids
    <3>7. get_drive_info(y)' = get_drive_info(y)
      BY <3>5, <3>6 DEF get_drive_info
    <3>8. QED
      BY <3>1, <3>7 DEF Held
  <2>6. Mounted' /\ LockedIn'
    <3>1. Mounted'
      BY <1>0, <2>0, <2>d, <2>h DEF Mounted, LetGo, Ids
    <3>2. LockedIn'
      BY <1>0, <2>0, <2>1, <2>a, <2>d DEF LockedIn, Locked, LetGo, Ids, IsCDROM
    <3>3. QED
      BY <3>1, <3>2
  <2>9. QED
    BY <2>1, <2>2, <2>3, <2>4, <2>5, <2>6 DEF DInv, CursorTypes
<1>19. CASE SetUpDrive
  <2>0. drives' = drives
    BY <1>19 DEF SetUpDrive, hostVars, driverVars, sysVars, pastVars
  <2> DEFINE x == cpu.task.d
  <2>a. x \in Ids /\ cpu.task.op = "open" /\ cpu.irq = Idle /\ cpu.task.at = "alloc"
    BY <1>19, <1>0, CursorIs DEF SetUpDrive, At, Processes, Idle
  <2>b. \/ Goto("task", "lock") /\ drive_queue' = drive_queue
        \/ NextDrive("task") /\ drive_queue' = drive_queue \cup {x}
    BY <1>19 DEF SetUpDrive
  <2>1. CursorTypes' /\ cpu'.irq = Idle
          /\ \/ cpu'.task.op = "open" /\ cpu'.task.d = x /\ cpu'.task.at = "lock"
                /\ drive_queue' = drive_queue
             \/ cpu'.task = Idle /\ drive_queue' = drive_queue \cup {x}
             \/ cpu'.task.op = "open" /\ cpu'.task.d \in Ids /\ cpu'.task.d > x
                /\ Driver(cpu'.task.d) = Driver(x) /\ cpu'.task.at = "number"
                /\ drive_queue' = drive_queue \cup {x}
    <3>1. CASE Goto("task", "lock") /\ drive_queue' = drive_queue
      BY <1>0, <2>0, <2>a, <3>1, GotoStep DEF Processes
    <3>2. CASE NextDrive("task") /\ drive_queue' = drive_queue \cup {x}
      BY <1>0, <2>0, <2>a, <3>2, NextDriveStep DEF Processes
    <3>3. QED
      BY <2>b, <3>1, <3>2
  <2>c. drive_queue \subseteq Ids /\ Ids \subseteq Nat
    BY <1>0, DrivesAre DEF DisksTypeOK
  <2>d. status' = [status EXCEPT ![x] = "new"]
          /\ UNCHANGED <<num, opened, volume, events, media, toc, door, allowed, slipped>>
    BY <1>19 DEF SetUpDrive, hostVars
  <2>e. \E place \in {0, 1, 2, 8} :
          /\ Driver(x) = "cdrom" => place = 0
          /\ dsDiskInPlace' = [dsDiskInPlace EXCEPT ![x] = place]
    BY <1>19 DEF SetUpDrive
  <2>f. status' \in [Ids -> {"none", "old", "new"}] /\ dsDiskInPlace' \in [Ids -> {0, 1, 2, 8}]
          /\ status'[x] = "new" /\ (IsCDROM(x) => dsDiskInPlace'[x] = 0)
          /\ \A y \in Ids : y # x => status'[y] = status[y] /\ dsDiskInPlace'[y] = dsDiskInPlace[y]
    BY <1>0, <2>a, <2>d, <2>e, DrivesAre DEF DisksTypeOK
  <2>2. DisksTypeOK'
    <3>1. to_be_mounted' \in [Ids -> BOOLEAN]
      BY <1>19, <1>0, <2>a DEF SetUpDrive, DisksTypeOK
    <3>2. posted' \subseteq Ids /\ hasty' \subseteq Ids /\ drive_queue' \subseteq Ids
      BY <1>19, <1>0, <2>a, <2>1 DEF SetUpDrive, DisksTypeOK, KeyPressed, FirstFloppy
    <3>3. QED
      BY <1>19, <1>0, <2>0, <2>1, <2>d, <2>f, <3>1, <3>2 DEF SetUpDrive, hostVars, DisksTypeOK, CursorTypes, Ids
  <2>g. Driver(x) \in opened
          /\ (\A d \in drive_queue : Driver(d) = Driver(x) => d < x)
          /\ (\A d \in Ids : Driver(d) = Driver(x) => volume[d] = "none")
          /\ (\A d \in drive_queue : num[d] # num[x])
    BY <1>0, <2>a DEF Opening
  <2>3. Queue' /\ Numbers'
    <3>1. \A d \in drive_queue' : d \in Ids /\ (d = x \/ d \in drive_queue)
      BY <2>1, <2>a, <2>c
    <3>2. \A d \in drive_queue' : status'[d] = "new" /\ Driver(d) \in opened
      BY <1>0, <2>f, <2>g, <3>1 DEF Queue
    <3>3. drive_queue \subseteq drive_queue'
      BY <2>1
    <3>4. Queue'
      BY <1>0, <2>0, <2>d, <3>2, <3>3 DEF Queue, Ids, Driver, DrivesOf
    <3>5. Numbers'
      BY <1>0, <2>d, <2>g, <3>1 DEF Numbers
    <3>6. QED
      BY <3>4, <3>5
  <2>4. Opening'
    <3>1. CASE cpu'.task.op = "open" /\ cpu'.task.d = x /\ cpu'.task.at = "lock" /\ drive_queue' = drive_queue
      BY <2>0, <2>d, <2>f, <2>g, <3>1 DEF Opening, Ids, Driver
    <3>2. CASE cpu'.task = Idle
      BY <3>2 DEF Opening, Idle
    <3>3. CASE cpu'.task.op = "open" /\ cpu'.task.d \in Ids /\ cpu'.task.d > x
                /\ Driver(cpu'.task.d) = Driver(x) /\ cpu'.task.at = "number"
                /\ drive_queue' = drive_queue \cup {x}
      <4> DEFINE z == cpu'.task.d
      <4>1. z \in Nat /\ x \in Nat /\ z > x
        BY <2>a, <2>c, <3>3
      <4>2. ASSUME NEW d \in drive_queue', Driver(d) = Driver(z) PROVE d < z
        <5>1. d \in Nat /\ (d = x \/ d < x)
          BY <2>a, <2>c, <2>g, <3>3, <4>2
        <5>2. QED
          BY <4>1, <5>1
      <4>3. QED
        BY <2>0, <2>d, <2>g, <3>3, <4>2 DEF Opening, Ids, Driver
    <3>4. QED
      BY <2>1, <3>1, <3>2, <3>3
  <2>h. ASSUME NEW y \in Ids, Held(y)' PROVE Held(y) /\ y # x
    <3>1. volume[y] # "none" /\ IsCDROM(y) /\ get_drive_info(y)' = y
      BY <2>0, <2>d, <2>h DEF Held, IsCDROM
    <3>2. get_drive_info(y)' = get_drive_info(y)
      BY <2>0, <2>d DEF get_drive_info, DrivesOf, Driver, Ids
    <3>3. QED
      BY <1>0, <2>g, <3>1, <3>2 DEF Held, Queue
  <2>5. Locking' /\ Ejecting'
    <3>1. Locking'
      BY <2>0, <2>1, <2>h DEF Locking, Processes, Idle, Ids
    <3>2. Ejecting'
      BY <2>1 DEF Ejecting, Idle
    <3>3. QED
      BY <3>1, <3>2
  <2>6. Mounted' /\ LockedIn'
    <3>1. Mounted'
      BY <1>0, <2>0, <2>d, <2>f, <2>h DEF Mounted, LetGo, Ids
    <3>2. LockedIn'
      BY <1>0, <2>0, <2>1, <2>a, <2>d, <2>f DEF LockedIn, Locked, LetGo, Ids, IsCDROM
    <3>3. QED
      BY <3>1, <3>2
  <2>9. QED
    BY <2>1, <2>2, <2>3, <2>4, <2>5, <2>6 DEF DInv, CursorTypes
<1>20. ASSUME NEW p \in Processes, PreventRemoval(p) PROVE DInv'
  <2>0. drives' = drives
    BY <1>20 DEF PreventRemoval, hostVars, driverVars, sysVars, pastVars
  <2> DEFINE x == cpu[p].d
  <2>a. x \in Ids /\ cpu[p].at = "lock" /\ cpu[p].op \in {"open", "accRun", "irq"}
          /\ (cpu[p].op = "open" => p = "task") /\ (p = "task" => cpu.irq = Idle)
    BY <1>20, <1>0, CursorIs DEF PreventRemoval, At, Processes, Idle
  <2>b. \/ cpu[p].op = "open" /\ NextDrive(p) /\ drive_queue' = drive_queue \cup {x}
        \/ cpu[p].op \in {"accRun", "irq"} /\ Goto(p, "post") /\ drive_queue' = drive_queue
    BY <1>20, <2>a DEF PreventRemoval
  <2>1. CursorTypes' /\ (\A q \in Processes \ {p} : cpu'[q] = cpu[q])
          /\ \/ cpu'[p].op \in {"accRun", "irq"} /\ cpu'[p].at = "post" /\ drive_queue' = drive_queue
             \/ p = "task" /\ cpu[p].op = "open" /\ cpu'[p] = Idle /\ drive_queue' = drive_queue \cup {x}
             \/ p = "task" /\ cpu[p].op = "open" /\ cpu'[p].op = "open" /\ cpu'[p].d \in Ids
                /\ cpu'[p].d > x /\ Driver(cpu'[p].d) = Driver(x) /\ cpu'[p].at = "number"
                /\ drive_queue' = drive_queue \cup {x}
    <3>1. CASE cpu[p].op = "open" /\ NextDrive(p) /\ drive_queue' = drive_queue \cup {x}
      BY <1>0, <2>0, <2>a, <3>1, NextDriveStep
    <3>2. CASE cpu[p].op \in {"accRun", "irq"} /\ Goto(p, "post") /\ drive_queue' = drive_queue
      BY <1>0, <2>0, <2>a, <3>2, GotoStep
    <3>3. QED
      BY <2>b, <3>1, <3>2
  <2>c. drive_queue \subseteq Ids /\ Ids \subseteq Nat
    BY <1>0, DrivesAre DEF DisksTypeOK
  <2>d. UNCHANGED <<num, status, opened, volume, events, media>>
    BY <1>20 DEF PreventRemoval
  <2>e. toc' = [toc EXCEPT ![x] = media[x]] /\ SetInPlace(x, 1)
          /\ door' = (IF IsCDROM(x) THEN door \cup {x} ELSE door)
          /\ slipped' = (IF media[x] # "none" THEN slipped \ {x} ELSE slipped \cup {x})
          /\ allowed' = allowed \ {x}
    BY <1>20 DEF PreventRemoval, SysIsDiskInserted
  <2>f. /\ dsDiskInPlace' \in [Ids -> {0, 1, 2, 8}]
        /\ \A y \in Ids \ {x} : dsDiskInPlace'[y] = dsDiskInPlace[y]
    BY <1>0, <2>a, <2>e, SetInPlaceStep
  <2>2. DisksTypeOK'
    <3>1. to_be_mounted' \in [Ids -> BOOLEAN] /\ toc' \in [Ids -> Discs \cup {"none"}]
      BY <1>20, <1>0, <2>a DEF PreventRemoval, DisksTypeOK
    <3>2. {door', posted', hasty', allowed', slipped', drive_queue'} \subseteq SUBSET Ids
      BY <1>20, <1>0, <2>a, <2>b, <2>e DEF PreventRemoval, DisksTypeOK
    <3>3. QED
      BY <1>20, <1>0, <2>0, <2>1, <2>d, <2>f, <3>1, <3>2 DEF PreventRemoval, DisksTypeOK, CursorTypes, Ids
  <2>g. cpu[p].op = "open" =>
          /\ Driver(x) \in opened /\ status[x] = "new"
          /\ (\A d \in drive_queue : Driver(d) = Driver(x) => d < x)
          /\ (\A d \in Ids : Driver(d) = Driver(x) => volume[d] = "none")
          /\ (\A d \in drive_queue : num[d] # num[x])
    BY <1>0, <2>a DEF Opening
  <2>3. Queue' /\ Numbers'
    <3>1. \A d \in drive_queue' : d \in Ids /\ (d \in drive_queue \/ (d = x /\ cpu[p].op = "open"))
      BY <2>1, <2>a, <2>c
    <3>2. \A d \in drive_queue' : status[d] = "new" /\ Driver(d) \in opened
      BY <1>0, <2>g, <3>1 DEF Queue
    <3>3. drive_queue \subseteq drive_queue'
      BY <2>1
    <3>4. Queue'
      BY <1>0, <2>0, <2>d, <3>2, <3>3 DEF Queue, Ids, Driver, DrivesOf
    <3>5. Numbers'
      BY <1>0, <2>d, <2>g, <3>1 DEF Numbers
    <3>6. QED
      BY <3>4, <3>5
  <2>4. Opening'
    <3>1. CASE cpu'[p].op \in {"accRun", "irq"} /\ drive_queue' = drive_queue
      <4>1. CASE p = "task"
        BY <3>1, <4>1 DEF Opening
      <4>2. CASE p = "irq"
        <5>1. cpu'.task = cpu.task
          BY <2>1, <4>2 DEF Processes
        <5>2. QED
          BY <1>0, <2>0, <2>d, <3>1, <5>1 DEF Opening, Ids, Driver
      <4>3. QED
        BY <4>1, <4>2 DEF Processes
    <3>2. CASE p = "task" /\ cpu'[p] = Idle
      BY <3>2 DEF Opening, Idle
    <3>3. CASE p = "task" /\ cpu[p].op = "open" /\ cpu'[p].op = "open" /\ cpu'[p].d \in Ids
                /\ cpu'[p].d > x /\ Driver(cpu'[p].d) = Driver(x) /\ cpu'[p].at = "number"
                /\ drive_queue' = drive_queue \cup {x}
      <4> DEFINE z == cpu'.task.d
      <4>1. z \in Nat /\ x \in Nat /\ z > x
        BY <2>a, <2>c, <3>3
      <4>2. ASSUME NEW d \in drive_queue', Driver(d) = Driver(z) PROVE d < z
        <5>1. d \in Nat /\ (d = x \/ d < x)
          BY <2>a, <2>c, <2>g, <3>3, <4>2
        <5>2. QED
          BY <4>1, <5>1
      <4>3. QED
        BY <2>0, <2>d, <2>g, <3>3, <4>2 DEF Opening, Ids, Driver
    <3>4. QED
      BY <2>1, <3>1, <3>2, <3>3
  <2>h. ASSUME NEW y \in Ids, Held(y)' PROVE Held(y) /\ y # x
    <3>1. volume[y] # "none" /\ IsCDROM(y) /\ get_drive_info(y)' = y
      BY <2>0, <2>d, <2>h DEF Held, IsCDROM
    <3>2. get_drive_info(y)' = get_drive_info(y)
      BY <2>0, <2>d DEF get_drive_info, DrivesOf, Driver, Ids
    <3>3. Held(y)
      BY <1>0, <3>1, <3>2 DEF Held, Queue
    <3>4. QED
      BY <1>0, <2>a, <3>3 DEF Locking
  <2>5. Locking' /\ Ejecting'
    <3>1. Locking'
      <4>1. SUFFICES ASSUME NEW q \in Processes, NEW d \in Ids, cpu'[q].at = "lock", cpu'[q].d = d
                     PROVE  ~Held(d)'
        BY <2>0 DEF Locking, Ids
      <4>2. q # p
        BY <2>1, <4>1 DEF Idle
      <4>3. cpu[q].at = "lock" /\ cpu[q].d = d
        BY <2>1, <4>1, <4>2
      <4>4. QED
        BY <1>0, <2>h, <4>3 DEF Locking
    <3>2. Ejecting'
      <4>1. SUFFICES ASSUME NEW d \in Ids, cpu'.task.op = "eject", cpu'.task.d = d PROVE ~Held(d)'
        BY <2>0 DEF Ejecting, Ids
      <4>2. p # "task"
        BY <2>1, <4>1 DEF Idle
      <4>3. cpu'.task = cpu.task
        BY <2>1, <4>2 DEF Processes
      <4>4. QED
        BY <1>0, <2>h, <4>1, <4>3 DEF Ejecting
    <3>3. QED
      BY <3>1, <3>2
  <2>i. \A y \in Ids \ {x} : DiscSame(y)
    BY <1>0, <2>a, <2>d, <2>e, <2>f DEF DiscSame, LetGo, DisksTypeOK
  <2>6. Mounted' /\ LockedIn'
    <3>1. Mounted'
      <4>1. SUFFICES ASSUME NEW y \in Ids, Held(y)'
                     PROVE  dsDiskInPlace'[y] # 0
                              /\ ((volume'[y] = media'[y] /\ volume'[y] = toc'[y]) \/ LetGo(y)')
        BY <2>0 DEF Mounted, Ids
      <4>2. Held(y) /\ DiscSame(y)
        BY <2>h, <2>i, <4>1
      <4>3. QED
        BY <1>0, <2>d, <4>2 DEF Mounted, DiscSame
    <3>2. LockedIn'
      <4>1. SUFFICES ASSUME NEW y \in Ids, IsCDROM(y), status[y] = "new", dsDiskInPlace'[y] # 0,
                            ~(cpu'.task.op = "eject" /\ cpu'.task.d = y)
                     PROVE  Locked(y)' \/ LetGo(y)'
        BY <2>0, <2>d DEF LockedIn, Ids, IsCDROM
      <4>2. CASE y = x
        BY <1>0, <2>a, <2>d, <2>e, <4>1, <4>2 DEF Locked, LetGo, DisksTypeOK
      <4>3. CASE y # x
        <5>1. DiscSame(y)
          BY <2>i, <4>3
        <5>2. ~(cpu.task.op = "eject" /\ cpu.task.d = y)
          BY <2>1, <2>a, <4>1 DEF Processes
        <5>3. Locked(y) \/ LetGo(y)
          BY <1>0, <4>1, <5>1, <5>2 DEF LockedIn, DiscSame
        <5>4. QED
          BY <5>1, <5>3 DEF DiscSame, Locked
      <4>4. QED
        BY <4>2, <4>3
    <3>3. QED
      BY <3>1, <3>2
  <2>9. QED
    BY <2>1, <2>2, <2>3, <2>4, <2>5, <2>6 DEF DInv, CursorTypes
<1>21. ASSUME NEW d \in Ids, Eject(d) PROVE DInv'
  <2>0. drives' = drives
    BY <1>21 DEF Eject, hostVars, driverVars, sysVars, pastVars
  <2> DEFINE e == get_drive_info(d)
  <2>a. e \in Ids /\ num[e] = num[d] /\ d \in drive_queue /\ cpu.task = Idle /\ cpu.irq = Idle
    BY <1>21, <1>0, InfoFound DEF Eject, AtTask
  <2>b. e = d \/ e \notin drive_queue
    BY <1>0, <2>a DEF Numbers
  <2> DEFINE c == [op |-> "eject", d |-> e, at |-> "ejected"]
  <2>c. \/ cpu' = cpu /\ media' = media /\ door' = door
        \/ /\ cpu' = [cpu EXCEPT !["task"] = c]
           /\ \E out \in BOOLEAN : media' = IF out THEN [media EXCEPT ![e] = "none"] ELSE media
           /\ door' = door \ {e}
    BY <1>21 DEF Eject
  <2>d. volume' = [volume EXCEPT ![d] = "none"]
          /\ UNCHANGED <<num, status, opened, drive_queue, toc, dsDiskInPlace, allowed, slipped>>
    BY <1>21 DEF Eject, driverVars, pastVars
  <2>e. events' \subseteq drive_queue
    BY <1>21, <1>0 DEF Eject, PostDiskEvent, Queue
  <2>f. c \in Cursors
    BY <2>a DEF Cursors
  <2>g. c.op = "eject" /\ c.d = e /\ c.at = "ejected"
    OBVIOUS
  <2> HIDE DEF c
  <2>1. CursorTypes' /\ cpu'.irq = Idle /\ (cpu' = cpu \/ cpu'.task = c)
    <3>1. CASE cpu' = cpu
      BY <1>0, <2>0, <2>a, <3>1 DEF CursorTypes, IrqKind, Cursors, Ids
    <3>2. CASE cpu' = [cpu EXCEPT !["task"] = c]
      BY <1>0, <2>0, <2>a, <2>f, <3>2, CallStep DEF Processes
    <3>3. QED
      BY <2>c, <3>1, <3>2
  <2>2. DisksTypeOK'
    <3>1. media' \in [Ids -> Discs \cup {"none"}] /\ volume' \in [Ids -> Discs \cup {"none"}]
      BY <1>0, <2>a, <2>c, <2>d DEF DisksTypeOK
    <3>2. {door', events'} \subseteq SUBSET Ids
      BY <1>0, <2>c, <2>e DEF DisksTypeOK
    <3>3. QED
      BY <1>21, <1>0, <2>0, <2>1, <2>d, <3>1, <3>2 DEF Eject, driverVars, pastVars, DisksTypeOK, CursorTypes, Ids
  <2>3. Queue' /\ Numbers'
    BY <1>0, <2>0, <2>d, <2>e DEF Queue, Numbers, Ids, Driver, DrivesOf, DisksTypeOK
  <2>4. Opening'
    BY <2>1, <2>a, <2>g DEF Opening, Idle
  <2>h. ASSUME NEW y \in Ids, Held(y)' PROVE Held(y) /\ y # d /\ y # e
    <3>1. y \in drive_queue /\ IsCDROM(y) /\ get_drive_info(y)' = y /\ volume'[y] # "none"
      BY <2>0, <2>d, <2>h DEF Held, IsCDROM
    <3>2. get_drive_info(y)' = get_drive_info(y)
      BY <2>0, <2>d DEF get_drive_info, DrivesOf, Driver, Ids
    <3>3. y # d /\ volume[y] = volume'[y]
      BY <1>0, <2>d, <3>1 DEF DisksTypeOK
    <3>4. QED
      BY <2>b, <3>1, <3>2, <3>3 DEF Held
  <2>5. Locking' /\ Ejecting'
    <3>1. Locking'
      BY <2>1, <2>a, <2>g DEF Locking, Processes, Idle
    <3>2. Ejecting'
      BY <2>0, <2>1, <2>a, <2>g, <2>h DEF Ejecting, Idle, Ids
    <3>3. QED
      BY <3>1, <3>2
  <2>i. \A y \in Ids \ {e} : DiscSame(y)
    BY <1>0, <2>c, <2>d DEF DiscSame, LetGo, DisksTypeOK
  <2>6. Mounted' /\ LockedIn'
    <3>1. Mounted'
      <4>1. SUFFICES ASSUME NEW y \in Ids, Held(y)'
                     PROVE  dsDiskInPlace'[y] # 0
                              /\ ((volume'[y] = media'[y] /\ volume'[y] = toc'[y]) \/ LetGo(y)')
        BY <2>0 DEF Mounted, Ids
      <4>2. Held(y) /\ DiscSame(y) /\ volume'[y] = volume[y]
        BY <1>0, <2>d, <2>h, <2>i, <4>1 DEF DisksTypeOK
      <4>3. QED
        BY <1>0, <4>2 DEF Mounted, DiscSame
    <3>2. LockedIn'
      <4>1. SUFFICES ASSUME NEW y \in Ids, IsCDROM(y), status[y] = "new", dsDiskInPlace'[y] # 0,
                            ~(cpu'.task.op = "eject" /\ cpu'.task.d = y)
                     PROVE  Locked(y)' \/ LetGo(y)'
        BY <2>0, <2>d DEF LockedIn, Ids, IsCDROM
      <4>2. Locked(y) \/ LetGo(y)
        BY <1>0, <2>a, <2>d, <4>1 DEF LockedIn, Idle
      <4>3. CASE cpu' = cpu /\ media' = media /\ door' = door
        BY <2>d, <4>2, <4>3 DEF Locked, LetGo
      <4>4. CASE cpu'.task = c
        <5>1. DiscSame(y)
          BY <2>g, <2>i, <4>1, <4>4
        <5>2. QED
          BY <4>2, <5>1 DEF DiscSame, Locked
      <4>5. cpu' = [cpu EXCEPT !["task"] = c] => cpu'.task = c
        BY <1>0 DEF CursorTypes
      <4>6. QED
        BY <2>c, <4>3, <4>4, <4>5
    <3>3. QED
      BY <3>1, <3>2
  <2>9. QED
    BY <2>1, <2>2, <2>3, <2>4, <2>5, <2>6 DEF DInv, CursorTypes
<1>22. ASSUME NEW d \in Ids, MountEvent(d) PROVE DInv'
  <2>0. drives' = drives
    BY <1>22 DEF MountEvent, hostVars, driverVars, sysVars, pastVars
  <2> DEFINE e == get_drive_info(d)
  <2>a. e \in Ids /\ d \in drive_queue /\ cpu.task = Idle /\ cpu.irq = Idle /\ cpu' = cpu
    BY <1>22, <1>0, InfoFound DEF MountEvent, AtTask, Queue
  <2>b. \/ volume' = volume
        \/ volume' = [volume EXCEPT ![d] = media[e]] /\ \E place \in InPlace(e) : place # 0
    BY <1>22 DEF MountEvent
  <2>c. events' \subseteq drive_queue
          /\ UNCHANGED <<num, status, opened, drive_queue, media, door, toc, dsDiskInPlace, allowed, slipped>>
    BY <1>22, <1>0 DEF MountEvent, hostVars, driverVars, pastVars, Queue
  <2>1. CursorTypes'
    BY <1>0, <2>0, <2>a DEF CursorTypes, IrqKind, Cursors, Ids
  <2>2. DisksTypeOK'
    <3>1. volume' \in [Ids -> Discs \cup {"none"}]
      BY <1>0, <2>a, <2>b DEF DisksTypeOK
    <3>2. events' \subseteq Ids
      BY <1>0, <2>c DEF DisksTypeOK
    <3>3. QED
      BY <1>22, <1>0, <2>0, <2>1, <2>c, <3>1, <3>2 DEF MountEvent, hostVars, driverVars, pastVars, DisksTypeOK, CursorTypes, Ids
  <2>3. Queue' /\ Numbers'
    BY <1>0, <2>0, <2>a, <2>b, <2>c DEF Queue, Numbers, Ids, Driver, DrivesOf, DisksTypeOK
  <2>4. Opening'
    BY <2>a DEF Opening, Idle
  <2>5. Locking' /\ Ejecting'
    BY <2>a DEF Locking, Ejecting, Processes, Idle
  <2>6. Mounted' /\ LockedIn'
    <3>1. Mounted'
      <4>1. SUFFICES ASSUME NEW y \in Ids, Held(y)'
                     PROVE  dsDiskInPlace[y] # 0
                              /\ ((volume'[y] = media[y] /\ volume'[y] = toc[y]) \/ LetGo(y))
        BY <2>0, <2>c DEF Mounted, Ids, LetGo
      <4>2. y \in drive_queue /\ IsCDROM(y) /\ volume'[y] # "none" /\ get_drive_info(y) = y
        BY <2>0, <2>c, <4>1 DEF Held, IsCDROM, get_drive_info, DrivesOf, Driver, Ids
      <4>3. CASE volume'[y] = volume[y]
        <5>1. Held(y)
          BY <4>2, <4>3 DEF Held
        <5>2. QED
          BY <1>0, <4>3, <5>1 DEF Mounted
      <4>4. CASE volume'[y] # volume[y]
        <5>1. y = d /\ e = d /\ volume'[d] = media[d] /\ \E place \in InPlace(d) : place # 0
          BY <1>0, <2>b, <4>2, <4>4 DEF DisksTypeOK
        <5>2. status[d] = "new" /\ dsDiskInPlace[d] # 0
          BY <1>0, <2>a, <5>1 DEF Queue, InPlace
        <5>3. Locked(d) \/ LetGo(d)
          BY <1>0, <2>a, <4>2, <5>1, <5>2 DEF LockedIn, Idle
        <5>4. QED
          BY <5>1, <5>2, <5>3 DEF Locked
      <4>5. QED
        BY <4>3, <4>4
    <3>2. LockedIn'
      BY <1>0, <2>0, <2>a, <2>c DEF LockedIn, Locked, LetGo, Ids, IsCDROM
    <3>3. QED
      BY <3>1, <3>2
  <2>9. QED
    BY <2>1, <2>2, <2>3, <2>4, <2>5, <2>6 DEF DInv, CursorTypes
<1>23. CASE Restart
  <2>0. drives' = drives
    BY <1>23 DEF Restart, hostVars, driverVars, sysVars, pastVars
  <2>a. cpu.task = Idle /\ cpu.irq = Idle /\ cpu' = cpu /\ drive_queue' = {} /\ opened' = {} /\ events' = {}
          /\ volume' = [d \in Ids |-> "none"]
    BY <1>23 DEF Restart, AtTask
  <2>b. \A d \in Ids : status'[d] # "new"
    BY <1>23 DEF Restart
  <2>1. CursorTypes'
    BY <1>0, <2>0, <2>a DEF CursorTypes, IrqKind, Cursors, Ids
  <2>2. DisksTypeOK'
    <3>1. status' \in [Ids -> {"none", "old", "new"}] /\ restarts' \in 0 .. MaxRestarts
      BY <1>23, <1>0 DEF Restart, DisksTypeOK
    <3>2. volume' \in [Ids -> Discs \cup {"none"}]
      BY <2>a
    <3>3. QED
      BY <1>23, <1>0, <2>0, <2>1, <2>a, <3>1, <3>2 DEF Restart, hostVars, pastVars, DisksTypeOK, CursorTypes, Ids
  <2>3. Queue' /\ Numbers'
    BY <2>0, <2>a DEF Queue, Numbers, Ids
  <2>4. Opening'
    BY <2>a DEF Opening, Idle
  <2>5. Locking' /\ Ejecting'
    BY <2>a DEF Locking, Ejecting, Processes, Idle
  <2>6. Mounted' /\ LockedIn'
    <3>1. Mounted'
      BY <2>a DEF Mounted, Held
    <3>2. LockedIn'
      BY <2>0, <2>b DEF LockedIn, Ids
    <3>3. QED
      BY <3>1, <3>2
  <2>9. QED
    BY <2>1, <2>2, <2>3, <2>4, <2>5, <2>6 DEF DInv, CursorTypes
<1>24. CASE UNCHANGED disksVars
  <2>1. \A x : Held(x)' <=> Held(x)
    BY <1>24, SameHeld DEF disksVars, hostVars, driverVars, sysVars, pastVars
  <2>2. DisksTypeOK' /\ IrqKind' /\ Queue' /\ Numbers' /\ Opening'
    BY <1>0, <1>24 DEF disksVars, hostVars, driverVars, sysVars, pastVars, DisksTypeOK, IrqKind, Queue, Numbers, Opening, Ids, Driver, DrivesOf, Cursors
  <2>3. Locking' /\ Ejecting' /\ Mounted' /\ LockedIn'
    BY <1>0, <1>24, <2>1 DEF disksVars, hostVars, driverVars, sysVars, pastVars, Locking, Ejecting, Mounted, LockedIn, Locked, LetGo, Ids, IsCDROM
  <2>4. QED
    BY <2>2, <2>3 DEF DInv
<1>25. QED
  BY <1>1, <1>2, <1>3, <1>4, <1>5, <1>6, <1>7, <1>8, <1>9, <1>10, <1>11, <1>12, <1>13, <1>14, <1>15, <1>16, <1>17, <1>18, <1>19, <1>20, <1>21, <1>22, <1>23, <1>24 DEF DisksNext, TaskStep, MountStep, Processes

LEMMA DisksInvariant == DisksSpec => []DInv
BY InitDisks, DisksStep, PTL DEF DisksSpec

\* Every variable keeps its type: numbers are enough for the drives, for instance.
THEOREM DisksTypes == DisksSpec => []DisksTypeOK
<1>1. DInv => DisksTypeOK
  BY DEF DInv
<1>2. QED
  BY <1>1, DisksInvariant, PTL

\* What MacOS has mounted is the disc in the drive, and what the driver knows of
\* it was read from that disc, unless the user was let at it.
THEOREM MountedIsInDrive == DisksSpec => []RightDisc
<1>1. ASSUME DInv PROVE RightDisc
  <2>1. drive_queue \subseteq Ids
    BY <1>1 DEF DInv, DisksTypeOK
  <2>2. QED
    BY <1>1, <2>1 DEF DInv, Mounted, Held, LetGo, RightDisc
<1>2. QED
  BY <1>1, DisksInvariant, PTL

-----------------------------------------------------------------------------
(* Disk events.                                                            *)

\* The interrupt looks at the drives of active drivers, and these are not opened
\* and not in accRun.
Active ==
  /\ cpu.irq.op = "irq" => Driver(cpu.irq.d) \in acc_run_called
  /\ cpu.task.op \in {"open", "accRun"} => Driver(cpu.task.d) \notin acc_run_called
  /\ cpu.task.op # "irq"

\* The drives that Open() has yet to come to have no status record of this MacOS.
NotYet(d) ==
  /\ Driver(d) = Driver(cpu.task.d)
  /\ d > cpu.task.d \/ (d = cpu.task.d /\ cpu.task.at # "lock")
Fresh ==
  /\ \A d \in Ids : status[d] = "new" => Driver(d) \in opened
  /\ cpu.task.op = "open" => \A d \in Ids : NotYet(d) => status[d] # "new"

\* A flag that is set while NewPtrSysClear() runs is the user's.
Numbered == cpu.task.at = "alloc" /\ to_be_mounted[cpu.task.d] => cpu.task.d \in hasty

\* A drive with a disk event to come has a disk in place, and its disk has had none
\* unless a process has just posted one and is about to clear the flag.
FlagOf(d) == status[d] = "new" /\ to_be_mounted[d] => dsDiskInPlace[d] > 0 \/ d \in hasty
Clearing(d) == \E p \in Processes : cpu[p].at = "clear" /\ cpu[p].d = d
OnceOf(d) ==
  status[d] = "new" /\ DISK_INSERT_CHECK(d) /\ d \notin FirstFloppy /\ to_be_mounted[d]
    /\ d \in posted => Clearing(d)

EventInv == Active /\ Fresh /\ Numbered /\ \A d \in Ids : FlagOf(d) /\ OnceOf(d)

\* What is known of the disk in d, and whether an event is to come, stays or is
\* forgotten.
FlagKept(d) ==
  /\ status'[d] = "new" => status[d] = "new"
  /\ to_be_mounted'[d] => to_be_mounted[d]
  /\ dsDiskInPlace[d] > 0 => dsDiskInPlace'[d] > 0
  /\ d \in hasty => d \in hasty'
  /\ d \in posted' => d \in posted

LEMMA FlagKeptStep ==
  ASSUME drives' = drives, NEW d \in Ids, FlagOf(d), OnceOf(d), FlagKept(d),
         \A p \in Processes : cpu[p].at = "clear" /\ cpu[p].d = d => cpu'[p] = cpu[p]
  PROVE  FlagOf(d)' /\ OnceOf(d)'
<1>1. FlagOf(d)'
  BY DEF FlagOf, FlagKept
<1>2. OnceOf(d)'
  <2>1. FirstFloppy' = FirstFloppy /\ (DISK_INSERT_CHECK(d)' <=> DISK_INSERT_CHECK(d))
    BY DEF FirstFloppy, DISK_INSERT_CHECK, Driver, Ids
  <2>2. Clearing(d) => Clearing(d)'
    BY DEF Clearing
  <2>3. QED
    BY <2>1, <2>2 DEF OnceOf, FlagKept
<1>3. QED
  BY <1>1, <1>2

\* Steps that set, post or clear nothing.
Quiet ==
  /\ UNCHANGED <<status, to_be_mounted, hasty, posted>>
  /\ \A d \in Ids : dsDiskInPlace[d] > 0 => dsDiskInPlace'[d] > 0
  /\ \A p \in Processes : cpu[p].at = "clear" => cpu'[p] = cpu[p]
  /\ cpu'.task.at = "alloc" => cpu'.task = cpu.task

LEMMA QuietStep ==
  ASSUME drives' = drives, EventInv, Quiet
  PROVE  Numbered' /\ \A d \in Ids : FlagOf(d)' /\ OnceOf(d)'
<1>1. Numbered'
  BY DEF EventInv, Numbered, Quiet
<1>2. ASSUME NEW d \in Ids PROVE FlagOf(d)' /\ OnceOf(d)'
  BY <1>2, FlagKeptStep DEF EventInv, Quiet, FlagKept
<1>3. QED
  BY <1>1, <1>2

\* A process goes on in its loop, or begins or ends a call that is no loop.
LoopsOn(p) ==
  \/ cpu'[p] = cpu[p]
  \/ cpu'[p].op \in {"none", "eject"}
  \/ /\ cpu'[p].op = cpu[p].op
     /\ cpu[p].op # "irq" => Driver(cpu'[p].d) = Driver(cpu[p].d)
     /\ cpu[p].op = "irq" =>
          cpu'[p].d = cpu[p].d \/ Driver(cpu'[p].d) \in acc_run_called
     /\ cpu[p].op = "open" =>
          cpu'[p].d > cpu[p].d \/ (cpu'[p].d = cpu[p].d /\ cpu[p].at # "lock")

\* The interrupt routines that are active are the same, or accRun ends.
ActiveOn ==
  \/ acc_run_called' = acc_run_called
  \/ cpu.task.op = "accRun" /\ cpu'.task = Idle
     /\ acc_run_called' = acc_run_called \cup {Driver(cpu.task.d)}

LEMMA LoopStep ==
  ASSUME DInv, EventInv, UNCHANGED <<drives, status, opened>>, CursorTypes', ActiveOn,
         \A p \in Processes : LoopsOn(p)
  PROVE  Active' /\ Fresh'
<1>0. /\ \A d : Driver(d)' = Driver(d)
      /\ Ids' = Ids /\ Ids \subseteq Nat
  BY DrivesAre DEF Driver, Ids, DInv, DisksTypeOK
<1>1. Active'
  <2>1. ASSUME cpu'.irq.op = "irq" PROVE Driver(cpu'.irq.d) \in acc_run_called'
    BY <2>1 DEF EventInv, Active, LoopsOn, ActiveOn, Processes
  <2>2. ASSUME cpu'.task.op \in {"open", "accRun"} PROVE Driver(cpu'.task.d) \notin acc_run_called'
    BY <2>2 DEF EventInv, Active, LoopsOn, ActiveOn, Processes, Idle
  <2>3. cpu'.task.op # "irq"
    BY DEF EventInv, Active, LoopsOn, Processes
  <2>4. QED
    BY <1>0, <2>1, <2>2, <2>3 DEF Active
<1>2. Fresh'
  <2>1. \A d \in Ids' : status'[d] = "new" => Driver(d)' \in opened'
    BY <1>0 DEF EventInv, Fresh
  <2>2. ASSUME cpu'.task.op = "open", NEW d \in Ids, NotYet(d)' PROVE status[d] # "new"
    <3>1. cpu.task.op = "open" /\ cpu.task.d \in Ids /\ cpu'.task.d \in Ids
      <4>1. cpu.task.op = "open"
        BY <2>2 DEF LoopsOn, Processes
      <4>2. cpu.task.d \in Ids
        BY <4>1 DEF DInv, DisksTypeOK, Cursors, Idle
      <4>3. cpu'.task.d \in Ids
        BY <1>0, <2>2 DEF CursorTypes, Cursors, Idle
      <4>4. QED
        BY <4>1, <4>2, <4>3
    <3>2. /\ Driver(d) = Driver(cpu'.task.d)
          /\ d > cpu'.task.d \/ (d = cpu'.task.d /\ cpu'.task.at # "lock")
      BY <1>0, <2>2 DEF NotYet
    <3>3. CASE cpu'.task = cpu.task
      BY <3>1, <3>2, <3>3 DEF EventInv, Fresh, NotYet
    <3>4. CASE cpu'.task # cpu.task
      <4>1. Driver(cpu'.task.d) = Driver(cpu.task.d)
              /\ (cpu'.task.d > cpu.task.d \/ (cpu'.task.d = cpu.task.d /\ cpu.task.at # "lock"))
        BY <2>2, <3>1, <3>4 DEF LoopsOn, Processes
      <4>2. d \in Nat /\ cpu.task.d \in Nat /\ cpu'.task.d \in Nat
        BY <1>0, <2>2, <3>1
      <4>3. d > cpu.task.d \/ (d = cpu.task.d /\ cpu.task.at # "lock")
        BY <3>2, <4>1, <4>2
      <4>4. QED
        BY <3>1, <3>2, <4>1, <4>3 DEF EventInv, Fresh, NotYet
    <3>5. QED
      BY <3>3, <3>4
  <2>3. QED
    BY <1>0, <2>1, <2>2 DEF Fresh
<1>3. QED
  BY <1>1, <1>2

\* The loop goes on to a drive of the driver, or of an active one.
LEMMA NextDriveLoops ==
  ASSUME DInv, drives' = drives, NEW p \in Processes, NextDrive(p),
         cpu[p].op \in {"open", "accRun", "irq"}
  PROVE  /\ CursorTypes' /\ (\A o \in Processes : LoopsOn(o))
         /\ \A o \in Processes \ {p} : cpu'[o] = cpu[o]
         /\ cpu'[p].at \in {"idle", "number", "check"}
<1>1. CursorTypes /\ drives \in Setups
  BY DEF DInv, DisksTypeOK, CursorTypes
<1>2. CursorTypes' /\ (\A o \in Processes \ {p} : cpu'[o] = cpu[o])
  BY <1>1, NextDriveStep
<1>3. \/ cpu'[p] = Idle
      \/ /\ cpu'[p].op = cpu[p].op /\ cpu'[p].d > cpu[p].d
         /\ cpu'[p].at = IF cpu[p].op = "open" THEN "number" ELSE "check"
         /\ cpu[p].op # "irq" => Driver(cpu'[p].d) = Driver(cpu[p].d)
  BY <1>1, NextDriveStep
<1>4. cpu[p].op = "irq" /\ cpu'[p] # Idle => Driver(cpu'[p].d) \in acc_run_called
  <2>1. SUFFICES ASSUME cpu[p].op = "irq", cpu'[p] # Idle PROVE Driver(cpu'[p].d) \in acc_run_called
    OBVIOUS
  <2> DEFINE c == cpu[p]
             next == [c EXCEPT !.d = Least(Rest(c)), !.at = IF c.op = "open" THEN "number" ELSE "check"]
  <2>2. cpu'[p] = IF Rest(c) = {} THEN Idle ELSE next
    BY <1>1 DEF NextDrive, CursorTypes, Processes
  <2>3. c \in Cursors /\ c # Idle
    BY <1>1, <2>1 DEF CursorTypes, Processes, Idle
  <2>4. Rest(c) # {} /\ cpu'[p] = next
    BY <2>1, <2>2
  <2>5. next.d = Least(Rest(c))
    BY <2>3 DEF Cursors, Idle
  <2>6. Rest(c) \subseteq Nat
    BY <1>1, DrivesAre DEF Rest
  <2>7. Least(Rest(c)) \in Rest(c)
    BY <2>4, <2>6, LeastOf
  <2>8. QED
    BY <2>1, <2>4, <2>5, <2>7 DEF Rest
<1>5. LoopsOn(p)
  BY <1>3, <1>4 DEF LoopsOn, Idle
<1>6. QED
  BY <1>2, <1>3, <1>5 DEF LoopsOn, Idle

\* accRun ends with its loop.
LEMMA EndAccRunStep ==
  ASSUME DInv, NEW p \in Processes, NextDrive(p), acc_run_called' = EndAccRun(p)
  PROVE  ActiveOn
<1>1. CASE cpu[p].op = "accRun" /\ Rest(cpu[p]) = {}
  <2>1. p = "task"
    BY <1>1 DEF DInv, IrqKind, Processes
  <2>2. cpu'.task = Idle
    BY <1>1, <2>1 DEF NextDrive, DInv, DisksTypeOK
  <2>3. QED
    BY <1>1, <2>1, <2>2 DEF ActiveOn, EndAccRun
<1>2. CASE ~(cpu[p].op = "accRun" /\ Rest(cpu[p]) = {})
  BY <1>2 DEF EndAccRun, ActiveOn
<1>3. QED
  BY <1>1, <1>2

\* The interrupt and task level serve different drives.
LEMMA Elsewhere ==
  ASSUME EventInv, cpu.irq.op = "irq", cpu.task.op \in {"open", "accRun"}
  PROVE  cpu.irq.d # cpu.task.d
BY DEF EventInv, Active

\* A process does something to its drive and leaves the others alone.
LEMMA ServeStep ==
  ASSUME DInv, EventInv, drives' = drives, NEW p \in Processes, cpu[p] # Idle,
         \A o \in Processes \ {p} : cpu'[o] = cpu[o],
         cpu'[p].at # "alloc", NEW d, d = cpu[p].d,
         \A x \in Ids \ {d} : FlagKept(x),
         FlagOf(d)' /\ OnceOf(d)'
  PROVE  Numbered' /\ \A x \in Ids : FlagOf(x)' /\ OnceOf(x)'
<1>1. CursorTypes
  BY DEF DInv, DisksTypeOK, CursorTypes
<1>2. ASSUME NEW x \in Ids PROVE FlagOf(x)' /\ OnceOf(x)'
  <2>1. CASE x = d
    BY <2>1
  <2>2. CASE x # d
    <3>1. \A o \in Processes : cpu[o].at = "clear" /\ cpu[o].d = x => cpu'[o] = cpu[o]
      BY <2>2
    <3>2. QED
      BY <2>2, <3>1, FlagKeptStep DEF EventInv
  <2>3. QED
    BY <2>1, <2>2
<1>3. Numbered'
  <2>1. SUFFICES ASSUME cpu'.task.at = "alloc", to_be_mounted'[cpu'.task.d]
                 PROVE  cpu'.task.d \in hasty'
    BY DEF Numbered
  <2>2. p = "irq" /\ cpu'.task = cpu.task
    BY <2>1 DEF Processes
  <2>3. cpu.irq.op = "irq" /\ cpu.task.op = "open" /\ cpu.task.d \in Ids
    <3>1. cpu.irq.op = "irq"
      BY <1>1, <2>2 DEF CursorTypes, IrqKind, Cursors, Idle
    <3>2. cpu.task.op = "open" /\ cpu.task.d \in Ids
      BY <1>1, <2>1, <2>2 DEF CursorTypes, Cursors, Idle
    <3>3. QED
      BY <3>1, <3>2
  <2>4. FlagKept(cpu.task.d)
    BY <2>2, <2>3, Elsewhere
  <2>5. QED
    BY <2>1, <2>2, <2>4 DEF EventInv, Numbered, FlagKept
<1>4. QED
  BY <1>2, <1>3

LEMMA InitEvents == DisksInit => EventInv
<1> SUFFICES ASSUME DisksInit PROVE EventInv
  OBVIOUS
<1>1. Active /\ Fresh /\ Numbered
  BY DEF DisksInit, Active, Fresh, Numbered, Idle
<1>2. \A d \in Ids : FlagOf(d) /\ OnceOf(d)
  BY DEF DisksInit, FlagOf, OnceOf
<1>3. QED
  BY <1>1, <1>2 DEF EventInv

\* Every step keeps the invariant.
LEMMA EventStep == DInv /\ EventInv /\ [DisksNext]_disksVars => EventInv'
<1> SUFFICES ASSUME DInv, EventInv, [DisksNext]_disksVars PROVE EventInv'
  OBVIOUS
<1>0. DInv /\ EventInv /\ DisksTypeOK /\ CursorTypes /\ drives \in Setups /\ CursorTypes'
  BY DisksStep DEF DInv, DisksTypeOK, CursorTypes
<1>1. CASE AllocFails
  <2>1. cpu["task"].op \in {"open", "accRun", "irq"} /\ cpu["task"].at \in {"alloc", "post"}
          /\ NextDrive("task") /\ drives' = drives /\ acc_run_called' = acc_run_called
    BY <1>1, <1>0, CursorIs DEF AllocFails, At, Processes, hostVars, driverVars, sysVars, pastVars
  <2>2. CursorTypes' /\ (\A o \in Processes : LoopsOn(o)) /\ cpu'["task"].at \in {"idle", "number", "check"}
          /\ \A o \in Processes \ {"task"} : cpu'[o] = cpu[o]
    BY <1>0, <2>1, NextDriveLoops DEF Processes
  <2>3. ActiveOn
    BY <1>0, <2>1, EndAccRunStep DEF ActiveOn
  <2>4. Quiet
    BY <1>1, <1>0, <2>1, <2>2 DEF AllocFails, Quiet, hostVars, driverVars, sysVars, pastVars, Processes
  <2>5. UNCHANGED <<status, opened>>
    BY <1>1 DEF AllocFails, hostVars, driverVars, sysVars, pastVars
  <2>6. QED
    BY <1>0, <2>1, <2>2, <2>3, <2>4, <2>5, LoopStep, QuietStep DEF EventInv, Ids
<1>2. ASSUME NEW p \in Processes, NothingToMount(p) PROVE EventInv'
  <2>1. cpu[p].op \in {"open", "accRun", "irq"} /\ cpu[p].at \in {"alloc", "post"}
          /\ NextDrive(p) /\ drives' = drives /\ acc_run_called' = EndAccRun(p)
    BY <1>2, <1>0, CursorIs DEF NothingToMount, At, Processes, hostVars, driverVars, sysVars, pastVars
  <2>2. CursorTypes' /\ (\A o \in Processes : LoopsOn(o)) /\ cpu'[p].at \in {"idle", "number", "check"}
          /\ \A o \in Processes \ {p} : cpu'[o] = cpu[o]
    BY <1>0, <2>1, NextDriveLoops DEF Processes
  <2>3. ActiveOn
    BY <1>0, <2>1, EndAccRunStep DEF ActiveOn
  <2>4. Quiet
    BY <1>2, <1>0, <2>1, <2>2 DEF NothingToMount, Quiet, hostVars, driverVars, sysVars, pastVars, Processes
  <2>5. UNCHANGED <<status, opened>>
    BY <1>2 DEF NothingToMount, hostVars, driverVars, sysVars, pastVars
  <2>6. QED
    BY <1>0, <2>1, <2>2, <2>3, <2>4, <2>5, LoopStep, QuietStep DEF EventInv, Ids
<1>3. ASSUME NEW d \in Ids, NEW b \in BOOLEAN, ModifyPostEvent(d, b) PROVE EventInv'
  <2>1. drives' = drives /\ UNCHANGED <<status, opened, acc_run_called, cpu>>
    BY <1>3 DEF ModifyPostEvent, hostVars, driverVars, sysVars, pastVars
  <2>2. Quiet
    BY <1>3, <1>0 DEF ModifyPostEvent, Quiet, hostVars, driverVars, sysVars, pastVars
  <2>3. CursorTypes' /\ ActiveOn /\ \A o \in Processes : LoopsOn(o)
    BY <1>0, <2>1 DEF CursorTypes, IrqKind, Cursors, Ids, ActiveOn, LoopsOn
  <2>4. QED
    BY <1>0, <2>1, <2>2, <2>3, LoopStep, QuietStep DEF EventInv, Ids
<1>4. ASSUME NEW d \in Ids, NEW b \in BOOLEAN, SetUserEject(d, b) PROVE EventInv'
  <2>1. drives' = drives /\ UNCHANGED <<status, opened, acc_run_called, cpu>>
    BY <1>4 DEF SetUserEject, hostVars, driverVars, sysVars, pastVars
  <2>2. Quiet
    BY <1>4, <1>0 DEF SetUserEject, Quiet, hostVars, driverVars, sysVars, pastVars
  <2>3. CursorTypes' /\ ActiveOn /\ \A o \in Processes : LoopsOn(o)
    BY <1>0, <2>1 DEF CursorTypes, IrqKind, Cursors, Ids, ActiveOn, LoopsOn
  <2>4. QED
    BY <1>0, <2>1, <2>2, <2>3, LoopStep, QuietStep DEF EventInv, Ids
<1>5. ASSUME NEW d \in Ids, MountEvent(d) PROVE EventInv'
  <2>1. drives' = drives /\ UNCHANGED <<status, opened, acc_run_called, cpu>>
    BY <1>5 DEF MountEvent, hostVars, driverVars, sysVars, pastVars
  <2>2. Quiet
    BY <1>5, <1>0 DEF MountEvent, Quiet, hostVars, driverVars, sysVars, pastVars
  <2>3. CursorTypes' /\ ActiveOn /\ \A o \in Processes : LoopsOn(o)
    BY <1>0, <2>1 DEF CursorTypes, IrqKind, Cursors, Ids, ActiveOn, LoopsOn
  <2>4. QED
    BY <1>0, <2>1, <2>2, <2>3, LoopStep, QuietStep DEF EventInv, Ids
<1>6. ASSUME NEW d \in Ids, NEW disc \in Discs, Insert(d, disc) PROVE EventInv'
  <2>1. drives' = drives /\ UNCHANGED <<status, opened, acc_run_called, cpu>>
    BY <1>6 DEF Insert, hostVars, driverVars, sysVars, pastVars
  <2>2. Quiet
    BY <1>6, <1>0 DEF Insert, Quiet, hostVars, driverVars, sysVars, pastVars
  <2>3. CursorTypes' /\ ActiveOn /\ \A o \in Processes : LoopsOn(o)
    BY <1>0, <2>1 DEF CursorTypes, IrqKind, Cursors, Ids, ActiveOn, LoopsOn
  <2>4. QED
    BY <1>0, <2>1, <2>2, <2>3, LoopStep, QuietStep DEF EventInv, Ids
<1>7. ASSUME NEW d \in Ids, Remove(d) PROVE EventInv'
  <2>1. drives' = drives /\ UNCHANGED <<status, opened, acc_run_called, cpu>>
    BY <1>7 DEF Remove, hostVars, driverVars, sysVars, pastVars
  <2>2. Quiet
    BY <1>7, <1>0 DEF Remove, Quiet, hostVars, driverVars, sysVars, pastVars
  <2>3. CursorTypes' /\ ActiveOn /\ \A o \in Processes : LoopsOn(o)
    BY <1>0, <2>1 DEF CursorTypes, IrqKind, Cursors, Ids, ActiveOn, LoopsOn
  <2>4. QED
    BY <1>0, <2>1, <2>2, <2>3, LoopStep, QuietStep DEF EventInv, Ids
<1>8. CASE SysMountFirstFloppy
  <2>1. drives' = drives /\ UNCHANGED <<status, opened, acc_run_called, cpu>>
    BY <1>8 DEF SysMountFirstFloppy, hostVars, driverVars, sysVars, pastVars
  <2>2. Quiet
    BY <1>8, <1>0 DEF SysMountFirstFloppy, Quiet, hostVars, driverVars, sysVars, pastVars
  <2>3. CursorTypes' /\ ActiveOn /\ \A o \in Processes : LoopsOn(o)
    BY <1>0, <2>1 DEF CursorTypes, IrqKind, Cursors, Ids, ActiveOn, LoopsOn
  <2>4. QED
    BY <1>0, <2>1, <2>2, <2>3, LoopStep, QuietStep DEF EventInv, Ids
<1>9. CASE UNCHANGED disksVars
  <2>1. drives' = drives /\ UNCHANGED <<status, opened, acc_run_called, cpu>>
    BY <1>9 DEF disksVars, hostVars, driverVars, sysVars, pastVars
  <2>2. Quiet
    BY <1>9, <1>0 DEF disksVars, Quiet, hostVars, driverVars, sysVars, pastVars
  <2>3. CursorTypes' /\ ActiveOn /\ \A o \in Processes : LoopsOn(o)
    BY <1>0, <2>1 DEF CursorTypes, IrqKind, Cursors, Ids, ActiveOn, LoopsOn
  <2>4. QED
    BY <1>0, <2>1, <2>2, <2>3, LoopStep, QuietStep DEF EventInv, Ids
<1>10. CASE KeyPlace
  <2>1. drives' = drives /\ UNCHANGED <<status, opened, acc_run_called, cpu>>
    BY <1>10 DEF KeyPlace, hostVars, driverVars, sysVars, pastVars
  <2>2. Quiet
    <3>1. PICK d \in FirstFloppy : SetInPlace(d, 1)
      BY <1>10 DEF KeyPlace
    <3>2. \A x \in Ids : dsDiskInPlace[x] > 0 => dsDiskInPlace'[x] > 0
      BY <1>0, <3>1, SetInPlaceStep DEF FirstFloppy
    <3>3. QED
      BY <1>10, <3>2 DEF KeyPlace, Quiet, hostVars, sysVars, pastVars
  <2>3. CursorTypes' /\ ActiveOn /\ \A o \in Processes : LoopsOn(o)
    BY <1>0, <2>1 DEF CursorTypes, IrqKind, Cursors, Ids, ActiveOn, LoopsOn
  <2>4. QED
    BY <1>0, <2>1, <2>2, <2>3, LoopStep, QuietStep DEF EventInv, Ids
<1>11. ASSUME NEW d \in Ids, SonyPrime(d) PROVE EventInv'
  <2>1. drives' = drives /\ UNCHANGED <<status, opened, acc_run_called, cpu>>
    BY <1>11 DEF SonyPrime, hostVars, driverVars, sysVars, pastVars
  <2>2. Quiet
    <3>1. get_drive_info(d) \in Ids /\ SetInPlace(get_drive_info(d), 2)
      BY <1>11, <1>0, InfoFound DEF SonyPrime
    <3>2. \A x \in Ids : dsDiskInPlace[x] > 0 => dsDiskInPlace'[x] > 0
      BY <1>0, <3>1, SetInPlaceStep
    <3>3. QED
      BY <1>11, <3>2 DEF SonyPrime, Quiet, hostVars, sysVars, pastVars
  <2>3. CursorTypes' /\ ActiveOn /\ \A o \in Processes : LoopsOn(o)
    BY <1>0, <2>1 DEF CursorTypes, IrqKind, Cursors, Ids, ActiveOn, LoopsOn
  <2>4. QED
    BY <1>0, <2>1, <2>2, <2>3, LoopStep, QuietStep DEF EventInv, Ids

<1>12. ASSUME NEW drv \in Drivers, AccRun(drv) PROVE EventInv'
  <2> DEFINE c == [op |-> "accRun", d |-> Least(DrivesOf(drv)), at |-> "check"]
  <2>1. drives' = drives /\ UNCHANGED <<status, opened, acc_run_called>> /\ drv \notin acc_run_called
          /\ cpu.task = Idle /\ cpu.irq = Idle /\ cpu' = [cpu EXCEPT !.task = c]
    BY <1>12 DEF AccRun, AtTask, hostVars, driverVars, sysVars
  <2>2. Least(DrivesOf(drv)) \in DrivesOf(drv)
    <3>1. DrivesOf(drv) \subseteq Nat
      BY <1>0, DrivesAre DEF DrivesOf
    <3>2. DrivesOf(drv) # {}
      BY <1>12, <1>0 DEF AccRun, DInv, Queue
    <3>3. QED
      BY <3>1, <3>2, LeastOf
  <2>3. c.op = "accRun" /\ c.at = "check" /\ Driver(c.d) = drv
    BY <2>2 DEF DrivesOf
  <2> HIDE DEF c
  <2>4. cpu'.task = c /\ cpu'.irq = Idle
    BY <1>0, <2>1 DEF CursorTypes
  <2>5. Active' /\ Fresh'
    BY <1>0, <2>1, <2>3, <2>4 DEF EventInv, Active, Fresh, Idle, Driver, Ids
  <2>6. Quiet
    BY <1>12, <2>1, <2>3, <2>4 DEF AccRun, Quiet, hostVars, driverVars, pastVars, Processes, Idle
  <2>7. QED
    BY <1>0, <2>1, <2>5, <2>6, QuietStep DEF EventInv, Ids
<1>13. CASE Interrupt1Hz
  <2> DEFINE active == {d \in Ids : Driver(d) \in acc_run_called}
             c == [op |-> "irq", d |-> Least(active), at |-> "check"]
  <2>1. drives' = drives /\ UNCHANGED <<status, opened, acc_run_called>>
          /\ cpu.irq = Idle /\ cpu' = [cpu EXCEPT !.irq = c]
    BY <1>13 DEF Interrupt1Hz, hostVars, driverVars, sysVars
  <2>2. Least(active) \in active
    <3>1. active \subseteq Nat
      BY <1>0, DrivesAre
    <3>2. active # {}
      BY <1>13 DEF Interrupt1Hz
    <3>3. QED
      BY <3>1, <3>2, LeastOf
  <2>3. Driver(c.d) \in acc_run_called
    BY <2>2
  <2> HIDE DEF c
  <2>4. cpu'.irq = c /\ cpu'.task = cpu.task
    BY <1>0, <2>1 DEF CursorTypes
  <2>5. Active' /\ Fresh'
    BY <1>0, <2>1, <2>3, <2>4 DEF EventInv, Active, Fresh, NotYet, Driver, Ids
  <2>6. Quiet
    BY <1>13, <2>1, <2>4 DEF Interrupt1Hz, Quiet, hostVars, driverVars, pastVars, Processes, Idle
  <2>7. QED
    BY <1>0, <2>1, <2>5, <2>6, QuietStep DEF EventInv, Ids
<1>14. ASSUME NEW p \in Processes, CheckDrive(p) PROVE EventInv'
  <2>0. PICK d : d = cpu[p].d
    OBVIOUS
  <2>1. /\ drives' = drives /\ UNCHANGED <<status, opened, acc_run_called>>
        /\ cpu[p].op \in {"accRun", "irq"} /\ d \in Ids /\ cpu[p].at = "check"
    BY <2>0, <1>14, <1>0, CursorIs DEF CheckDrive, At, hostVars, sysVars, Idle
  <2>2. PICK at \in {"lock", "post"} : Goto(p, at)
    BY <1>14 DEF CheckDrive
  <2>3. /\ \A o \in Processes \ {p} : cpu'[o] = cpu[o]
        /\ cpu'[p].op = cpu[p].op /\ cpu'[p].d = d /\ cpu'[p].at \in {"lock", "post"}
    BY <2>0, <1>0, <2>1, <2>2, GotoStep
  <2>4. ActiveOn /\ \A o \in Processes : LoopsOn(o)
    BY <2>0, <2>1, <2>3 DEF ActiveOn, LoopsOn
  <2>5. \/ UNCHANGED <<dsDiskInPlace, to_be_mounted, posted, hasty>>
        \/ /\ SetInPlace(d, 1) /\ to_be_mounted' = [to_be_mounted EXCEPT ![d] = TRUE]
           /\ posted' = posted \ {d} /\ hasty' = hasty \ {d}
    BY <2>0, <1>14 DEF CheckDrive
  <2>6. \A x \in Ids \ {d} : FlagKept(x)
    BY <1>0, <2>1, <2>5, SetInPlaceStep DEF FlagKept, DisksTypeOK
  <2>7. FlagOf(d)' /\ OnceOf(d)'
    <3>1. CASE UNCHANGED <<dsDiskInPlace, to_be_mounted, posted, hasty>>
      <4>1. FlagKept(d)
        BY <2>1, <3>1 DEF FlagKept
      <4>2. \A o \in Processes : cpu[o].at = "clear" /\ cpu[o].d = d => cpu'[o] = cpu[o]
        BY <2>0, <2>1, <2>3
      <4>3. QED
        BY <2>1, <4>1, <4>2, FlagKeptStep DEF EventInv
    <3>2. CASE SetInPlace(d, 1) /\ posted' = posted \ {d}
      <4>1. dsDiskInPlace'[d] = IF status[d] = "new" THEN 1 ELSE dsDiskInPlace[d]
        BY <1>0, <2>1, <3>2, SetInPlaceStep
      <4>2. d \notin posted'
        BY <3>2
      <4>3. FlagOf(d)'
        BY <2>1, <4>1 DEF FlagOf
      <4>4. QED
        BY <4>2, <4>3 DEF OnceOf
    <3>3. QED
      BY <2>5, <3>1, <3>2
  <2>8. Active' /\ Fresh'
    BY <1>0, <2>1, <2>4, LoopStep
  <2>9. Numbered' /\ \A x \in Ids : FlagOf(x)' /\ OnceOf(x)'
    BY <1>0, <2>1, <2>3, <2>6, <2>7, <2>0, ServeStep DEF Idle
  <2>10. QED
    BY <2>1, <2>8, <2>9 DEF EventInv, Ids
<1>15. ASSUME NEW p \in Processes, PostEvent(p) PROVE EventInv'
  <2>0. PICK d : d = cpu[p].d
    OBVIOUS
  <2>1. /\ drives' = drives /\ UNCHANGED <<status, opened, acc_run_called>>
        /\ UNCHANGED <<dsDiskInPlace, to_be_mounted, hasty>>
        /\ cpu[p].op \in {"accRun", "irq"} /\ d \in Ids /\ cpu[p].at = "post"
        /\ posted' = posted \cup {d} /\ Goto(p, "clear")
    BY <2>0, <1>15, <1>0, CursorIs DEF PostEvent, At, hostVars, driverVars, Idle
  <2>2. /\ \A o \in Processes \ {p} : cpu'[o] = cpu[o]
        /\ cpu'[p].op = cpu[p].op /\ cpu'[p].d = d /\ cpu'[p].at = "clear"
    BY <2>0, <1>0, <2>1, GotoStep
  <2>3. ActiveOn /\ \A o \in Processes : LoopsOn(o)
    BY <2>0, <2>1, <2>2 DEF ActiveOn, LoopsOn
  <2>4. \A x \in Ids \ {d} : FlagKept(x)
    BY <2>1 DEF FlagKept
  <2>5. FlagOf(d)' /\ OnceOf(d)'
    BY <2>1, <2>2 DEF EventInv, FlagOf, OnceOf, Clearing
  <2>6. Active' /\ Fresh'
    BY <1>0, <2>1, <2>3, LoopStep
  <2>7. Numbered' /\ \A x \in Ids : FlagOf(x)' /\ OnceOf(x)'
    BY <2>0, <1>0, <2>1, <2>2, <2>4, <2>5, ServeStep DEF Idle
  <2>8. QED
    BY <2>1, <2>6, <2>7 DEF EventInv, Ids
<1>16. ASSUME NEW p \in Processes, ClearFlag(p) PROVE EventInv'
  <2>0. PICK d : d = cpu[p].d
    OBVIOUS
  <2>1. /\ drives' = drives /\ UNCHANGED <<status, opened, dsDiskInPlace, posted>>
        /\ cpu[p].op \in {"accRun", "irq"} /\ d \in Ids /\ cpu[p].at = "clear"
        /\ to_be_mounted' = [to_be_mounted EXCEPT ![d] = FALSE]
        /\ \A x \in Ids \ {d} : x \in hasty => x \in hasty'
        /\ NextDrive(p) /\ acc_run_called' = EndAccRun(p)
    BY <2>0, <1>16, <1>0, CursorIs DEF ClearFlag, At, hostVars, sysVars, Idle
  <2>2. /\ \A o \in Processes : LoopsOn(o)
        /\ \A o \in Processes \ {p} : cpu'[o] = cpu[o]
        /\ cpu'[p].at \in {"idle", "number", "check"}
    BY <1>0, <2>1, NextDriveLoops
  <2>3. ActiveOn
    BY <1>0, <2>1, EndAccRunStep
  <2>4. ~to_be_mounted'[d] /\ \A x \in Ids \ {d} : FlagKept(x)
    BY <1>0, <2>1 DEF FlagKept, DisksTypeOK
  <2>5. FlagOf(d)' /\ OnceOf(d)'
    BY <2>4 DEF FlagOf, OnceOf
  <2>6. Active' /\ Fresh'
    BY <1>0, <2>1, <2>2, <2>3, LoopStep
  <2>7. Numbered' /\ \A x \in Ids : FlagOf(x)' /\ OnceOf(x)'
    BY <2>0, <1>0, <2>1, <2>2, <2>4, <2>5, ServeStep DEF Idle
  <2>8. QED
    BY <2>1, <2>6, <2>7 DEF EventInv, Ids
<1>17. ASSUME NEW p \in Processes, PreventRemoval(p) PROVE EventInv'
  <2>0. PICK d : d = cpu[p].d
    OBVIOUS
  <2>1. /\ drives' = drives /\ UNCHANGED <<status, opened, acc_run_called>>
        /\ cpu[p].op \in {"open", "accRun", "irq"} /\ d \in Ids /\ cpu[p].at = "lock"
        /\ SetInPlace(d, 1) /\ posted' = posted \ {d} /\ hasty' = hasty \ {d}
        /\ \A x \in Ids \ {d} : to_be_mounted'[x] = to_be_mounted[x]
        /\ IF cpu[p].op = "open" THEN NextDrive(p) ELSE Goto(p, "post")
    BY <2>0, <1>17, <1>0, CursorIs DEF PreventRemoval, At, Idle, DisksTypeOK
  <2>2. /\ \A o \in Processes : LoopsOn(o)
        /\ \A o \in Processes \ {p} : cpu'[o] = cpu[o]
        /\ cpu'[p].at \in {"idle", "number", "check", "post"}
    <3>1. CASE cpu[p].op = "open"
      BY <1>0, <2>1, <3>1, NextDriveLoops
    <3>2. CASE cpu[p].op # "open"
      <4>1. /\ \A o \in Processes \ {p} : cpu'[o] = cpu[o]
            /\ cpu'[p].op = cpu[p].op /\ cpu'[p].d = cpu[p].d /\ cpu'[p].at = "post"
        BY <1>0, <2>1, <3>2, GotoStep
      <4>2. QED
        BY <3>2, <4>1 DEF LoopsOn
    <3>3. QED
      BY <3>1, <3>2
  <2>4. \A x \in Ids \ {d} : FlagKept(x)
    BY <1>0, <2>1, SetInPlaceStep DEF FlagKept
  <2>5. FlagOf(d)' /\ OnceOf(d)'
    <3>1. dsDiskInPlace'[d] = IF status[d] = "new" THEN 1 ELSE dsDiskInPlace[d]
      BY <1>0, <2>1, SetInPlaceStep
    <3>2. d \notin posted'
      BY <2>1
    <3>3. FlagOf(d)'
      BY <2>1, <3>1 DEF FlagOf
    <3>4. QED
      BY <3>2, <3>3 DEF OnceOf
  <2>6. Active' /\ Fresh'
    BY <1>0, <2>1, <2>2, LoopStep DEF ActiveOn
  <2>7. Numbered' /\ \A x \in Ids : FlagOf(x)' /\ OnceOf(x)'
    BY <2>0, <1>0, <2>1, <2>2, <2>4, <2>5, ServeStep DEF Idle
  <2>8. QED
    BY <2>1, <2>6, <2>7 DEF EventInv, Ids
<1>18. CASE EndEject
  <2>0. PICK d : d = cpu.task.d
    OBVIOUS
  <2>1. /\ drives' = drives /\ UNCHANGED <<status, opened, acc_run_called, to_be_mounted>>
        /\ cpu["task"].op = "eject" /\ d \in Ids /\ cpu["task"].at = "ejected"
        /\ SetInPlace(d, 0) /\ posted' = posted \ {d}
        /\ hasty' = hasty \cup {e \in {d} : to_be_mounted[d]} \cup KeyPressed(d)
        /\ cpu' = [cpu EXCEPT !.task = Idle]
    BY <2>0, <1>18, <1>0, CursorIs DEF EndEject, At, Idle, hostVars, sysVars, Processes
  <2>2. cpu'.irq = cpu.irq /\ cpu'.task = Idle
    BY <1>0, <2>1 DEF CursorTypes
  <2>3. ActiveOn /\ \A o \in Processes : LoopsOn(o)
    BY <2>1, <2>2 DEF ActiveOn, LoopsOn, Processes, Idle
  <2>4. \A x \in Ids \ {d} : FlagKept(x)
    BY <1>0, <2>1, SetInPlaceStep DEF FlagKept
  <2>5. FlagOf(d)' /\ OnceOf(d)'
    <3>1. d \notin posted'
      BY <2>1
    <3>2. to_be_mounted'[d] => d \in hasty'
      BY <2>1
    <3>3. QED
      BY <3>1, <3>2 DEF FlagOf, OnceOf
  <2>6. Active' /\ Fresh'
    BY <1>0, <2>1, <2>3, LoopStep
  <2>7. Numbered' /\ \A x \in Ids : FlagOf(x)' /\ OnceOf(x)'
    <3>1. PICK p \in Processes : p = "task"
      BY DEF Processes
    <3>2. cpu[p] # Idle /\ d = cpu[p].d
      BY <2>0, <2>1, <3>1 DEF Idle
    <3>3. cpu'[p].at # "alloc" /\ \A o \in Processes \ {p} : cpu'[o] = cpu[o]
      BY <2>2, <3>1 DEF Processes, Idle
    <3>4. QED
      BY <1>0, <2>1, <2>4, <2>5, <3>2, <3>3, ServeStep
  <2>8. QED
    BY <2>1, <2>6, <2>7 DEF EventInv, Ids
<1>19. CASE NumberDrive
  <2>0. PICK d : d = cpu.task.d
    OBVIOUS
  <2>1. /\ drives' = drives /\ UNCHANGED <<status, opened, acc_run_called, dsDiskInPlace, posted>>
        /\ cpu["task"].op = "open" /\ d \in Ids /\ cpu["task"].at = "number"
        /\ to_be_mounted' = [to_be_mounted EXCEPT ![d] = FALSE] /\ hasty' = hasty \ {d}
        /\ Goto("task", "alloc") /\ "task" \in Processes
    BY <2>0, <1>19, <1>0, CursorIs DEF NumberDrive, At, Idle, hostVars, sysVars, Processes
  <2>2. cpu'.irq = cpu.irq /\ cpu'.task.op = "open" /\ cpu'.task.d = d /\ cpu'.task.at = "alloc"
    BY <2>0, <1>0, <2>1, GotoStep DEF Processes
  <2>3. ActiveOn /\ \A o \in Processes : LoopsOn(o)
    BY <2>0, <2>1, <2>2 DEF ActiveOn, LoopsOn, Processes
  <2>4. ~to_be_mounted'[d] /\ \A x \in Ids \ {d} : FlagKept(x)
    BY <1>0, <2>1 DEF FlagKept, DisksTypeOK
  <2>5. FlagOf(d)' /\ OnceOf(d)'
    BY <2>4 DEF FlagOf, OnceOf
  <2>6. \A x \in Ids \ {d} : FlagOf(x)' /\ OnceOf(x)'
    <3>1. SUFFICES ASSUME NEW x \in Ids \ {d} PROVE FlagOf(x)' /\ OnceOf(x)'
      OBVIOUS
    <3>2. \A o \in Processes : cpu[o].at = "clear" /\ cpu[o].d = x => cpu'[o] = cpu[o]
      BY <2>1, <2>2 DEF Processes
    <3>3. QED
      BY <2>1, <2>4, <3>2, FlagKeptStep DEF EventInv
  <2>7. Active' /\ Fresh' /\ Numbered'
    <3>1. Numbered'
      BY <2>2, <2>4 DEF Numbered
    <3>2. QED
      BY <1>0, <2>1, <2>3, <3>1, LoopStep
  <2>8. QED
    BY <2>1, <2>5, <2>6, <2>7 DEF EventInv, Ids
<1>20. CASE SetUpDrive
  <2>a. PICK p \in Processes : p = "task"
    BY DEF Processes
  <2>b. PICK d : d = cpu[p].d
    OBVIOUS
  <2>0. p = "task" /\ d = cpu[p].d /\ d = cpu.task.d
    BY <2>a, <2>b
  <2>1. /\ drives' = drives /\ UNCHANGED <<opened, acc_run_called>>
        /\ cpu[p].op = "open" /\ d \in Ids /\ cpu[p].at = "alloc"
        /\ status' = [status EXCEPT ![d] = "new"] /\ posted' = posted \ {d}
        /\ Goto(p, "lock") \/ NextDrive(p)
    BY <2>0, <1>20, <1>0, CursorIs DEF SetUpDrive, At, Idle, hostVars
  <2>2. PICK place \in {0, 1, 8} :
          /\ dsDiskInPlace' = [dsDiskInPlace EXCEPT ![d] = place]
          /\ to_be_mounted' = [to_be_mounted EXCEPT ![d] = @ \/ place # 0]
          /\ hasty' = (IF place = 0 THEN hasty ELSE hasty \ {d}) \cup KeyPressed(d)
    BY <2>0, <1>20 DEF SetUpDrive
  <2>3. cpu'.irq = cpu.irq
          /\ \/ cpu'.task = Idle
             \/ cpu'.task.op = "open" /\ cpu'.task.d \in Ids /\ Driver(cpu'.task.d) = Driver(d)
                /\ (cpu'.task.d > d \/ (cpu'.task.d = d /\ cpu'.task.at = "lock"))
                /\ cpu'.task.at # "alloc"
    <3>1. CASE Goto(p, "lock")
      BY <2>0, <1>0, <2>1, <3>1, GotoStep DEF Processes
    <3>2. CASE NextDrive(p)
      BY <2>0, <1>0, <2>1, <3>2, NextDriveStep DEF Processes
    <3>3. QED
      BY <2>1, <3>1, <3>2
  <2>4. \A x \in Ids \ {d} : FlagKept(x)
    BY <1>0, <2>1, <2>2 DEF FlagKept, DisksTypeOK
  <2>5. FlagOf(d)' /\ OnceOf(d)'
    <3>1. d \notin posted'
      BY <2>1
    <3>2. to_be_mounted[d] => d \in hasty
      BY <2>0, <2>1 DEF EventInv, Numbered
    <3>3. dsDiskInPlace'[d] = place /\ (to_be_mounted'[d] <=> to_be_mounted[d] \/ place # 0)
      BY <1>0, <2>1, <2>2 DEF DisksTypeOK
    <3>4. place = 0 => hasty \subseteq hasty'
      BY <2>2
    <3>5. FlagOf(d)'
      BY <3>2, <3>3, <3>4 DEF FlagOf
    <3>6. QED
      BY <3>1, <3>5 DEF OnceOf
  <2>6. Numbered' /\ \A x \in Ids : FlagOf(x)' /\ OnceOf(x)'
    <3>1. cpu[p] # Idle /\ cpu'[p].at # "alloc" /\ \A o \in Processes \ {p} : cpu'[o] = cpu[o]
      BY <2>0, <2>1, <2>3 DEF Processes, Idle
    <3>2. QED
      BY <2>0, <1>0, <2>1, <2>4, <2>5, <3>1, ServeStep
  <2>7. Active'
    BY <2>0, <2>1, <2>3 DEF EventInv, Active, Driver, Idle
  <2>8. Fresh'
    <3>1. Ids' = Ids /\ Ids \subseteq Nat /\ \A x : Driver(x)' = Driver(x)
      BY <1>0, <2>1, DrivesAre DEF Ids, Driver
    <3>2. \A x \in Ids : status'[x] = "new" => Driver(x) \in opened
      BY <2>0, <1>0, <2>1 DEF EventInv, Fresh, DInv, Opening, DisksTypeOK
    <3>3. ASSUME cpu'.task.op = "open", NEW x \in Ids, NotYet(x)' PROVE status'[x] # "new"
      <4>1. cpu'.task.d \in Ids /\ Driver(cpu'.task.d) = Driver(d)
              /\ (cpu'.task.d > d \/ (cpu'.task.d = d /\ cpu'.task.at = "lock"))
        BY <2>3, <3>3 DEF Idle
      <4>2. Driver(x) = Driver(d) /\ (x > cpu'.task.d \/ (x = cpu'.task.d /\ cpu'.task.at # "lock"))
        BY <3>1, <3>3, <4>1 DEF NotYet
      <4>3. x > d
        <5>1. x \in Nat /\ d \in Nat /\ cpu'.task.d \in Nat
          BY <2>1, <3>1, <4>1
        <5>2. QED
          BY <4>1, <4>2, <5>1
      <4>4. x # d /\ NotYet(x)
        BY <2>0, <2>1, <3>1, <4>2, <4>3 DEF NotYet
      <4>5. QED
        BY <2>0, <1>0, <2>1, <4>4 DEF EventInv, Fresh, DisksTypeOK
    <3>4. QED
      BY <2>1, <3>1, <3>2, <3>3 DEF Fresh
  <2>9. QED
    BY <2>1, <2>6, <2>7, <2>8 DEF EventInv, Ids
<1>21. ASSUME NEW drv \in Drivers, Open(drv) PROVE EventInv'
  <2> DEFINE c == [op |-> "open", d |-> Least(DrivesOf(drv)), at |-> "number"]
  <2>1. /\ drives' = drives /\ UNCHANGED status /\ drv \notin opened
        /\ opened' = opened \cup {drv} /\ acc_run_called' = acc_run_called \ {drv}
        /\ cpu.task = Idle /\ cpu.irq = Idle /\ cpu' = [cpu EXCEPT !.task = c]
    BY <1>21 DEF Open, AtTask, hostVars
  <2>2. Least(DrivesOf(drv)) \in DrivesOf(drv)
    <3>1. DrivesOf(drv) \subseteq Nat
      BY <1>0, DrivesAre DEF DrivesOf
    <3>2. QED
      BY <1>21, <3>1, LeastOf DEF Open
  <2>3. c.op = "open" /\ c.at = "number" /\ Driver(c.d) = drv
    BY <2>2 DEF DrivesOf
  <2> HIDE DEF c
  <2>4. cpu'.task = c /\ cpu'.irq = Idle
    BY <1>0, <2>1 DEF CursorTypes
  <2>5. Ids' = Ids /\ \A x : Driver(x)' = Driver(x)
    BY <2>1 DEF Ids, Driver
  <2>6. Active'
    BY <2>1, <2>3, <2>4, <2>5 DEF Active, Driver, Idle
  <2>7. Fresh'
    <3>1. ASSUME NEW x \in Ids, NotYet(x)' PROVE status'[x] # "new"
      <4>1. Driver(x) = drv
        BY <2>1, <2>3, <2>4, <3>1 DEF NotYet, Driver
      <4>2. QED
        BY <2>1, <4>1 DEF EventInv, Fresh
    <3>2. \A x \in Ids : status'[x] = "new" => Driver(x) \in opened'
      BY <2>1 DEF EventInv, Fresh
    <3>3. QED
      BY <2>5, <3>1, <3>2 DEF Fresh
  <2>8. Quiet
    BY <1>21, <2>1, <2>3, <2>4 DEF Open, Quiet, pastVars, Processes, Idle
  <2>9. QED
    BY <1>0, <2>1, <2>6, <2>7, <2>8, QuietStep DEF EventInv, Ids
<1>22. ASSUME NEW d \in Ids, Eject(d) PROVE EventInv'
  <2>1. drives' = drives /\ UNCHANGED <<status, opened, acc_run_called>>
          /\ cpu.task = Idle /\ cpu.irq = Idle
    BY <1>22 DEF Eject, AtTask, driverVars
  <2>2. cpu'.irq = Idle /\ (cpu'.task = Idle \/ (cpu'.task.op = "eject" /\ cpu'.task.at = "ejected"))
    <3>1. \/ cpu' = cpu
          \/ cpu' = [cpu EXCEPT !.task = [op |-> "eject", d |-> get_drive_info(d), at |-> "ejected"]]
      BY <1>22 DEF Eject
    <3>2. QED
      BY <1>0, <2>1, <3>1 DEF CursorTypes
  <2>3. ActiveOn /\ \A o \in Processes : LoopsOn(o)
    BY <2>1, <2>2 DEF ActiveOn, LoopsOn, Processes, Idle
  <2>4. Quiet
    BY <1>22, <2>1, <2>2 DEF Eject, Quiet, driverVars, pastVars, Processes, Idle
  <2>5. QED
    BY <1>0, <2>1, <2>3, <2>4, LoopStep, QuietStep DEF EventInv, Ids
<1>23. CASE KeyFlag
  <2>1. PICK d \in FirstFloppy :
          /\ to_be_mounted' = [to_be_mounted EXCEPT ![d] = TRUE]
          /\ hasty' = IF 0 \notin InPlace(d) THEN hasty ELSE hasty \cup {d}
    BY <1>23 DEF KeyFlag
  <2>2. /\ drives' = drives /\ d \in Ids
        /\ UNCHANGED <<status, opened, acc_run_called, cpu, dsDiskInPlace, posted>>
    BY <1>23, <2>1 DEF KeyFlag, hostVars, sysVars, FirstFloppy
  <2>3. ActiveOn /\ \A o \in Processes : LoopsOn(o)
    BY <2>2 DEF ActiveOn, LoopsOn
  <2>4. ASSUME NEW x \in Ids PROVE FlagOf(x)' /\ OnceOf(x)'
    <3>1. CASE x # d
      <4>1. FlagKept(x)
        BY <1>0, <2>1, <2>2, <2>4, <3>1 DEF FlagKept, DisksTypeOK
      <4>2. QED
        BY <2>2, <2>4, <4>1, FlagKeptStep DEF EventInv
    <3>2. CASE x = d
      <4>1. x \in FirstFloppy'
        BY <2>1, <2>2, <3>2 DEF FirstFloppy, Ids
      <4>2. status[d] = "new" => dsDiskInPlace[d] > 0 \/ d \in hasty'
        <5>1. dsDiskInPlace[d] \in {0, 1, 2, 8}
          BY <1>0, <2>2 DEF DisksTypeOK
        <5>2. status[d] = "new" /\ dsDiskInPlace[d] = 0 => d \in hasty'
          BY <2>1 DEF InPlace
        <5>3. QED
          BY <5>1, <5>2
      <4>3. QED
        BY <2>2, <3>2, <4>1, <4>2 DEF FlagOf, OnceOf
    <3>3. QED
      BY <3>1, <3>2
  <2>5. Numbered'
    <3>1. SUFFICES ASSUME cpu.task.at = "alloc", to_be_mounted'[cpu.task.d] PROVE cpu.task.d \in hasty'
      BY <2>2 DEF Numbered
    <3>2. cpu.task.op = "open" /\ cpu.task.d \in Ids
      BY <1>0, <3>1 DEF CursorTypes, Cursors, Idle
    <3>3. status[cpu.task.d] # "new"
      BY <3>1, <3>2 DEF EventInv, Fresh, NotYet
    <3>4. CASE cpu.task.d = d
      BY <2>1, <3>3, <3>4 DEF InPlace
    <3>5. CASE cpu.task.d # d
      BY <1>0, <2>1, <3>1, <3>2, <3>5 DEF EventInv, Numbered, DisksTypeOK
    <3>6. QED
      BY <3>4, <3>5
  <2>6. QED
    BY <1>0, <2>2, <2>3, <2>4, <2>5, LoopStep DEF EventInv, Ids
<1>24. CASE Restart
  <2>1. drives' = drives /\ cpu' = cpu /\ cpu.task = Idle /\ cpu.irq = Idle
          /\ \A x \in Ids : status'[x] # "new"
    BY <1>24 DEF Restart, AtTask, hostVars
  <2>2. Active' /\ Fresh' /\ Numbered'
    BY <2>1 DEF Active, Fresh, Numbered, Idle, Ids
  <2>3. \A x \in Ids : FlagOf(x)' /\ OnceOf(x)'
    BY <2>1 DEF FlagOf, OnceOf
  <2>4. QED
    BY <2>1, <2>2, <2>3 DEF EventInv, Ids
<1>25. QED
  BY <1>1, <1>2, <1>3, <1>4, <1>5, <1>6, <1>7, <1>8, <1>9, <1>10, <1>11, <1>12, <1>13, <1>14, <1>15,
     <1>16, <1>17, <1>18, <1>19, <1>20, <1>21, <1>22, <1>23, <1>24
  DEF DisksNext, TaskStep, MountStep, Processes

LEMMA EventInvariant == DisksSpec => [](DInv /\ EventInv)
BY InitDisks, DisksStep, InitEvents, EventStep, PTL DEF DisksSpec

\* Only PostEvent() leads from the test of the flag to its clearing.
LEMMA PostsByPostEvent ==
  ASSUME DInv, DisksNext, NEW p \in Processes, At(p, "post"), cpu'[p].at = "clear"
  PROVE  PostEvent(p)
<1>0. /\ drives \in Setups /\ CursorTypes /\ cpu[p].at = "post" /\ ~AtTask
      /\ cpu[p].op \in {"accRun", "irq"} /\ cpu[p] # cpu'[p]
  <2>1. drives \in Setups /\ CursorTypes /\ cpu[p].at = "post"
    BY DEF DInv, DisksTypeOK, CursorTypes, At
  <2>2. QED
    BY <2>1, CursorIs DEF AtTask, Processes, Idle
<1>1. ASSUME NEW q \in Processes, NEW at, At(q, at), at # "idle" PROVE q = p
  BY <1>0, <1>1, CursorIs DEF At, Processes, Idle
<1>2. ~NumberDrive /\ ~AllocFails /\ ~SetUpDrive /\ ~EndEject
  BY <1>0 DEF At, NumberDrive, AllocFails, SetUpDrive, EndEject, Processes, Idle
<1>3. ~Interrupt1Hz
  BY <1>0 DEF Interrupt1Hz, At, Processes, Idle
<1>4. /\ \A drv \in Drivers : ~Open(drv) /\ ~AccRun(drv)
      /\ \A d \in Ids : ~SonyPrime(d) /\ ~Eject(d) /\ ~MountEvent(d)
      /\ \A d \in Ids, b \in BOOLEAN : ~ModifyPostEvent(d, b) /\ ~SetUserEject(d, b)
      /\ ~Restart
  BY <1>0 DEF Open, AccRun, SonyPrime, Eject, MountEvent, ModifyPostEvent, SetUserEject, Restart
<1>5. /\ \A d \in Ids : ~Remove(d) /\ \A disc \in Discs : ~Insert(d, disc)
      /\ ~SysMountFirstFloppy /\ ~KeyPlace /\ ~KeyFlag
  BY <1>0 DEF Remove, Insert, SysMountFirstFloppy, KeyPlace, KeyFlag
<1>6. ASSUME NEW q \in Processes, MountStep(q) PROVE PostEvent(p)
  <2>1. ~PreventRemoval(q) /\ ~CheckDrive(q) /\ ~ClearFlag(q)
    BY <1>0, <1>1 DEF PreventRemoval, CheckDrive, ClearFlag, At
  <2>2. ~NothingToMount(q)
    <3>1. SUFFICES ASSUME NothingToMount(q) PROVE FALSE
      OBVIOUS
    <3>2. q = p /\ NextDrive(p) /\ drives' = drives
      BY <1>1, <3>1 DEF NothingToMount, hostVars
    <3>3. cpu'[p].at \in {"idle", "number", "check"}
      BY <1>0, <3>2, NextDriveLoops
    <3>4. QED
      BY <3>3
  <2>3. PostEvent(q)
    BY <1>6, <2>1, <2>2 DEF MountStep
  <2>4. QED
    BY <1>1, <2>3 DEF PostEvent
<1>7. QED
  BY <1>2, <1>3, <1>4, <1>5, <1>6 DEF DisksNext, TaskStep, Processes

\* A disk event is posted only if there is a disk in place, or the user was there,
\* however accRun, the interrupt, the key and the calls of MacOS are interleaved.
THEOREM EventsForDisks == DisksSpec => EventForDisk
<1>1. ASSUME DInv, EventInv, [DisksNext]_disksVars, NEW p \in Processes, NEW d \in Ids,
             PostsFor(p, d), status[d] = "new"
      PROVE  dsDiskInPlace[d] > 0 \/ d \in hasty
  <2>1. DisksNext
    BY <1>1 DEF PostsFor, At, disksVars
  <2>2. PostEvent(p)
    BY <1>1, <2>1, PostsByPostEvent DEF PostsFor
  <2>3. to_be_mounted[d]
    BY <1>1, <2>2 DEF PostEvent, PostsFor
  <2>4. QED
    BY <1>1, <2>3 DEF EventInv, FlagOf
<1>2. DInv /\ EventInv /\ [DisksNext]_disksVars =>
        [\A p \in Processes, d \in Ids :
           PostsFor(p, d) /\ status[d] = "new" => dsDiskInPlace[d] > 0 \/ d \in hasty]_disksVars
  BY <1>1
<1>3. QED
  BY <1>2, EventInvariant, PTL DEF DisksSpec, EventForDisk

\* An event is posted once for a disk: the other process may find the flag set while
\* PostEvent() runs 68k code, but it does not look at this drive.
THEOREM OneEventEach == DisksSpec => OneEventPerDisk
<1>1. ASSUME DInv, EventInv, [DisksNext]_disksVars, NEW p \in Processes, NEW d \in Ids,
             PostsFor(p, d), status[d] = "new", DISK_INSERT_CHECK(d), d \notin FirstFloppy,
             d \in posted
      PROVE  FALSE
  <2>0. CursorTypes
    BY <1>1 DEF DInv, DisksTypeOK, CursorTypes
  <2>1. DisksNext
    BY <1>1 DEF PostsFor, At, disksVars
  <2>2. PostEvent(p)
    BY <1>1, <2>1, PostsByPostEvent DEF PostsFor
  <2>3. to_be_mounted[d] /\ cpu[p].d = d /\ cpu[p].at = "post"
    BY <1>1, <2>2 DEF PostEvent, PostsFor, At
  <2>4. PICK q \in Processes : cpu[q].at = "clear" /\ cpu[q].d = d
    BY <1>1, <2>3 DEF EventInv, OnceOf, Clearing
  <2>5. q # p /\ cpu[p].op \in {"accRun", "irq"} /\ cpu[q].op \in {"accRun", "irq"}
    BY <2>0, <2>3, <2>4, CursorIs
  <2>6. cpu.irq.op = "irq" /\ cpu.irq.d = d /\ cpu.task.d = d
    BY <2>0, <2>3, <2>4, <2>5 DEF CursorTypes, IrqKind, Processes
  <2>7. cpu.task.op = "accRun"
    BY <1>1, <2>5 DEF EventInv, Active, Processes
  <2>8. QED
    BY <1>1, <2>6, <2>7, Elsewhere
<1>2. DInv /\ EventInv /\ [DisksNext]_disksVars =>
        [\A p \in Processes, d \in Ids :
           PostsFor(p, d) /\ status[d] = "new" /\ DISK_INSERT_CHECK(d) /\ d \notin FirstFloppy =>
             d \notin posted]_disksVars
  BY <1>1
<1>3. QED
  BY <1>2, EventInvariant, PTL DEF DisksSpec, OneEventPerDisk

-----------------------------------------------------------------------------
(* What is announced, or need not be.                                      *)

\* A drive that looks for disks, and is found by its number, has a disk in place.
InDrive(d) ==
  /\ status[d] = "new" /\ DISK_INSERT_CHECK(d) /\ drives[d].medium # "floppy"
  /\ dsDiskInPlace[d] # 0 /\ get_drive_info(d) = d

Announced(d) == to_be_mounted[d] \/ d \in events \/ volume[d] # "none"
BeingEjected(d) == cpu.task.op = "eject" /\ cpu.task.d = d

\* Nothing will look for the disk again, so MacOS is told, or has been, or is not to be.
Told(d) ==
  InDrive(d) => Announced(d) \/ Excused(d, media[d]) \/ BeingEjected(d)
NoDiskForgotten == \A d \in Ids : Told(d)

\* A drive with a status record is known to MacOS, so that events for it arrive;
\* the flag that is to be cleared has had its event; MacOS alone declines events;
\* images are not taken out.
Entered ==
  \A d \in Ids : status[d] = "new" =>
    d \in drive_queue \/ (cpu.task.at = "lock" /\ cpu.task.op = "open" /\ cpu.task.d = d)
Sent ==
  \A p \in Processes, d \in Ids :
    cpu[p].at = "clear" /\ cpu[p].d = d /\ status[d] = "new" => d \in events
Asked == \A d \in Ids : mount_non_hfs[d] \/ d \in quiet
Images == \A d \in Ids : IsFile(d) => media[d] \in HFS

EntryInv == Entered /\ Sent /\ Asked /\ Images

\* Steps by which no drive gets a status record and no event is taken.
Calm ==
  /\ UNCHANGED <<drives, num, status>>
  /\ drive_queue \subseteq drive_queue' /\ events \subseteq events'
  /\ \A d \in Ids : mount_non_hfs[d] \/ d \in quiet => mount_non_hfs'[d] \/ d \in quiet'
  /\ cpu.task.at = "lock" /\ cpu.task.op = "open" =>
       cpu'.task = cpu.task \/ cpu.task.d \in drive_queue'
  /\ \A p \in Processes : cpu'[p].at = "clear" =>
       \/ cpu'[p] = cpu[p]
       \/ \A d \in Ids : cpu'[p].d = d /\ status[d] = "new" => d \in events'

LEMMA CalmEntries ==
  ASSUME EntryInv, Calm, \A d \in Ids : IsFile(d) => media'[d] = media[d]
  PROVE  EntryInv'
<1>1. Entered' /\ Sent' /\ Asked' /\ Images'
  BY DEF EntryInv, Calm, Entered, Sent, Asked, Images, IsFile, Ids
<1>2. QED
  BY <1>1 DEF EntryInv

\* What is known of the disk in d stays, or it is gone.
Remembered(d) ==
  /\ status'[d] = "new" => status[d] = "new"
  /\ dsDiskInPlace'[d] # 0 => dsDiskInPlace[d] # 0
  /\ Announced(d) => Announced(d)'
  /\ Excused(d, media[d]) => Excused(d, media[d])'
  /\ BeingEjected(d) => BeingEjected(d)'

LEMMA RememberedStep ==
  ASSUME UNCHANGED <<drives, num>>, NEW d \in Ids, Told(d), Remembered(d)
  PROVE  Told(d)'
<1>1. get_drive_info(d)' = get_drive_info(d) /\ (DISK_INSERT_CHECK(d)' <=> DISK_INSERT_CHECK(d))
  BY DEF get_drive_info, DrivesOf, Driver, Ids, DISK_INSERT_CHECK
<1>2. InDrive(d)' => InDrive(d)
  BY <1>1 DEF InDrive, Remembered
<1>3. QED
  BY <1>2 DEF Told, Remembered

\* A disc in a CD-ROM drive that is not let go stays there.
LEMMA DiscStays ==
  ASSUME DInv, EntryInv, NEW d \in Ids, InDrive(d), ~LetGo(d), ~BeingEjected(d)
  PROVE  media[d] # "none" /\ (IsFile(d) \/ d \in door)
<1>1. drives[d] \in DriveInfo /\ d \in Ids
  <2>1. drives \in Seq(DriveInfo)
    BY DrivesAssumption DEF DrivesAssumption, DInv, DisksTypeOK
  <2>2. QED
    BY <2>1 DEF Ids
<1>2. CASE IsFile(d)
  BY <1>2, DrivesAssumption DEF EntryInv, Images, DrivesAssumption
<1>3. CASE ~IsFile(d)
  <2>1. IsCDROM(d)
    BY <1>1, <1>3 DEF IsFile, IsCDROM, InDrive, DriveInfo
  <2>2. Locked(d)
    BY <2>1 DEF DInv, LockedIn, InDrive, BeingEjected
  <2>3. QED
    BY <2>2 DEF Locked
<1>4. QED
  BY <1>2, <1>3

LEMMA InitEntries == DisksInit => EntryInv /\ NoDiskForgotten
<1> SUFFICES ASSUME DisksInit PROVE EntryInv /\ NoDiskForgotten
  OBVIOUS
<1>1. EntryInv
  BY DEF DisksInit, EntryInv, Entered, Sent, Asked, Images, Idle, Processes
<1>2. NoDiskForgotten
  BY DEF DisksInit, NoDiskForgotten, Told, InDrive
<1>3. QED
  BY <1>1, <1>2

\* A step that is calm and by which no disk comes, no event goes and no excuse ends.
LEMMA RememberedCalm ==
  ASSUME EntryInv, NoDiskForgotten, Calm, \A d \in Ids : IsFile(d) => media'[d] = media[d],
         \A d \in Ids : Remembered(d) \/ Told(d)'
  PROVE  EntryInv' /\ NoDiskForgotten'
<1>1. EntryInv'
  BY CalmEntries
<1>2. UNCHANGED <<drives, num>> /\ Ids' = Ids
  BY DEF Calm, Ids
<1>3. ASSUME NEW d \in Ids PROVE Told(d)'
  BY <1>2, <1>3, RememberedStep DEF NoDiskForgotten
<1>4. QED
  BY <1>1, <1>2, <1>3 DEF NoDiskForgotten

\* All that a drive's disk is known by.
recordVars == <<status, dsDiskInPlace, to_be_mounted, events, volume, media, quiet>>

LEMMA RecordKept ==
  ASSUME UNCHANGED recordVars, \A d \in Ids : LetGo(d) => LetGo(d)', NEW d \in Ids,
         BeingEjected(d) => BeingEjected(d)'
  PROVE  Remembered(d)
BY DEF recordVars, Remembered, Announced, Excused, LetGo

LEMMA EntryStep ==
  DInv /\ EventInv /\ EntryInv /\ NoDiskForgotten /\ [DisksNext]_disksVars =>
    EntryInv' /\ NoDiskForgotten'
<1> SUFFICES ASSUME DInv, EventInv, EntryInv, NoDiskForgotten, [DisksNext]_disksVars
             PROVE  EntryInv' /\ NoDiskForgotten'
  OBVIOUS
<1>0. /\ DInv /\ EventInv /\ DisksTypeOK /\ CursorTypes /\ drives \in Setups
      /\ EntryInv /\ NoDiskForgotten /\ "task" \in Processes /\ "irq" \in Processes
  BY DEF DInv, DisksTypeOK, CursorTypes, Processes
<1>1. CASE AllocFails
  <2>1. cpu["task"].op = "open" /\ cpu["task"].at = "alloc" /\ NextDrive("task") /\ drives' = drives
    BY <1>1, <1>0, CursorIs DEF AllocFails, At, hostVars
  <2>2. cpu'["task"].at \in {"idle", "number", "check"} /\ cpu'.irq = cpu.irq
    BY <1>0, <2>1, NextDriveLoops DEF Processes
  <2>3. Calm /\ media' = media
    BY <1>1, <2>1, <2>2 DEF AllocFails, Calm, hostVars, driverVars, sysVars, pastVars, Processes
  <2>4. ASSUME NEW d \in Ids PROVE Remembered(d)
    BY <1>1, <2>1, <2>4, RecordKept DEF AllocFails, recordVars, hostVars, driverVars, sysVars, pastVars, LetGo, BeingEjected
  <2>5. QED
    BY <1>0, <2>3, <2>4, RememberedCalm
<1>2. ASSUME NEW p \in Processes, NothingToMount(p) PROVE EntryInv' /\ NoDiskForgotten'
  <2>1. cpu[p].op \in {"accRun", "irq"} /\ cpu[p].at = "post" /\ NextDrive(p) /\ drives' = drives
    BY <1>2, <1>0, CursorIs DEF NothingToMount, At, hostVars
  <2>2. cpu'[p].at \in {"idle", "number", "check"} /\ \A o \in Processes \ {p} : cpu'[o] = cpu[o]
    BY <1>0, <2>1, NextDriveLoops
  <2>3. Calm /\ media' = media
    BY <1>2, <2>1, <2>2 DEF NothingToMount, Calm, hostVars, driverVars, sysVars, pastVars, Processes
  <2>4. ASSUME NEW d \in Ids PROVE Remembered(d)
    BY <1>2, <2>1, <2>2, <2>4, RecordKept DEF NothingToMount, recordVars, hostVars, sysVars, pastVars, LetGo,
       BeingEjected, Processes
  <2>5. QED
    BY <1>0, <2>3, <2>4, RememberedCalm
<1>3. ASSUME NEW drv \in Drivers, Open(drv) \/ AccRun(drv) PROVE EntryInv' /\ NoDiskForgotten'
  <2>1. PICK c \in [op : {"open", "accRun"}, d : Nat, at : {"number", "check"}] :
          cpu.task = Idle /\ cpu' = [cpu EXCEPT !.task = c]
    <3>1. DrivesOf(drv) # {} /\ DrivesOf(drv) \subseteq Nat
      BY <1>0, <1>3, DrivesAre DEF Open, AccRun, DInv, Queue, DrivesOf
    <3>2. Least(DrivesOf(drv)) \in Nat
      BY <3>1, LeastOf
    <3>3. QED
      BY <1>3, <3>2 DEF Open, AccRun, AtTask
  <2>2. cpu'.task.at \in {"number", "check"} /\ cpu'.irq = cpu.irq
    BY <1>0, <2>1 DEF CursorTypes
  <2>3. Calm /\ media' = media
    BY <1>3, <2>1, <2>2 DEF Open, AccRun, Calm, hostVars, driverVars, sysVars, pastVars, Processes, Idle
  <2>4. ASSUME NEW d \in Ids PROVE Remembered(d)
    <3>1. UNCHANGED recordVars /\ UNCHANGED <<allowed, slipped>>
      BY <1>3 DEF Open, AccRun, recordVars, hostVars, driverVars, sysVars, pastVars
    <3>2. QED
      BY <2>1, <2>4, <3>1, RecordKept DEF LetGo, BeingEjected, Idle
  <2>5. QED
    BY <1>0, <2>3, <2>4, RememberedCalm
<1>4. CASE Interrupt1Hz
  <2>1. PICK n : cpu' = [cpu EXCEPT !.irq = [op |-> "irq", d |-> n, at |-> "check"]]
    BY <1>4 DEF Interrupt1Hz
  <2>2. cpu'.irq.at = "check" /\ cpu'.task = cpu.task
    BY <1>0, <2>1 DEF CursorTypes
  <2>3. Calm /\ media' = media
    BY <1>4, <2>2 DEF Interrupt1Hz, Calm, hostVars, driverVars, sysVars, pastVars, Processes
  <2>4. ASSUME NEW d \in Ids PROVE Remembered(d)
    BY <1>4, <2>2, <2>4, RecordKept DEF Interrupt1Hz, recordVars, hostVars, driverVars, sysVars, pastVars,
       LetGo, BeingEjected
  <2>5. QED
    BY <1>0, <2>3, <2>4, RememberedCalm
<1>5. ASSUME \/ SysMountFirstFloppy \/ UNCHANGED disksVars
             \/ \E d \in Ids, b \in BOOLEAN : SetUserEject(d, b)
      PROVE  EntryInv' /\ NoDiskForgotten'
  <2>1. Calm /\ media' = media /\ cpu' = cpu
    BY <1>5 DEF SysMountFirstFloppy, disksVars, SetUserEject, Calm, hostVars, driverVars, sysVars, pastVars
  <2>2. UNCHANGED recordVars /\ \A d \in Ids : LetGo(d) => LetGo(d)'
    <3>1. CASE SysMountFirstFloppy \/ UNCHANGED disksVars
      BY <3>1 DEF SysMountFirstFloppy, disksVars, recordVars, hostVars, driverVars, sysVars, pastVars, LetGo
    <3>2. ASSUME NEW d \in Ids, NEW b \in BOOLEAN, SetUserEject(d, b)
          PROVE  UNCHANGED recordVars /\ \A x \in Ids : LetGo(x) => LetGo(x)'
      BY <3>2 DEF SetUserEject, recordVars, driverVars, sysVars, LetGo
    <3>3. QED
      BY <1>5, <3>1, <3>2
  <2>3. ASSUME NEW d \in Ids PROVE Remembered(d)
    BY <2>1, <2>2, <2>3, RecordKept DEF BeingEjected
  <2>4. QED
    BY <1>0, <2>1, <2>3, RememberedCalm
<1>6. CASE KeyFlag
  <2>1. PICK d \in FirstFloppy : to_be_mounted' = [to_be_mounted EXCEPT ![d] = TRUE]
    BY <1>6 DEF KeyFlag
  <2>2. Calm /\ media' = media
    BY <1>6 DEF KeyFlag, Calm, hostVars, sysVars
  <2>3. ASSUME NEW x \in Ids PROVE Remembered(x)
    BY <1>0, <1>6, <2>1, <2>3 DEF KeyFlag, Remembered, Announced, Excused, BeingEjected, hostVars, sysVars, DisksTypeOK
  <2>4. QED
    BY <1>0, <2>2, <2>3, RememberedCalm
<1>7. CASE KeyPlace
  <2>1. PICK d \in FirstFloppy : SetInPlace(d, 1)
    BY <1>7 DEF KeyPlace
  <2>2. Calm /\ media' = media /\ drives' = drives /\ d \in Ids /\ drives[d].medium = "floppy"
    BY <1>7, <2>1 DEF KeyPlace, Calm, hostVars, sysVars, pastVars, FirstFloppy
  <2>3. ASSUME NEW x \in Ids PROVE Remembered(x) \/ Told(x)'
    <3>1. CASE x = d
      BY <2>2, <3>1 DEF Told, InDrive
    <3>2. CASE x # d
      <4>1. dsDiskInPlace'[x] = dsDiskInPlace[x]
        BY <1>0, <2>1, <2>2, <2>3, <3>2, SetInPlaceStep
      <4>2. QED
        BY <1>7, <4>1 DEF KeyPlace, Remembered, Announced, Excused, BeingEjected, hostVars, sysVars, pastVars
    <3>3. QED
      BY <3>1, <3>2
  <2>4. QED
    BY <1>0, <2>2, <2>3, RememberedCalm
<1>8. ASSUME NEW d \in Ids, SonyPrime(d) PROVE EntryInv' /\ NoDiskForgotten'
  <2>1. PICK e : e = get_drive_info(d)
    OBVIOUS
  <2>2. e \in Ids /\ Driver(e) = "sony" /\ SetInPlace(e, 2)
    BY <1>0, <1>8, <2>1, InfoFound DEF SonyPrime
  <2>3. Calm /\ media' = media /\ drives' = drives
    BY <1>8 DEF SonyPrime, Calm, hostVars, sysVars, pastVars
  <2>4. ASSUME NEW x \in Ids PROVE Remembered(x) \/ Told(x)'
    <3>1. CASE x = e
      BY <2>2, <2>3, <3>1 DEF Told, InDrive, DISK_INSERT_CHECK, Driver
    <3>2. CASE x # e
      <4>1. dsDiskInPlace'[x] = dsDiskInPlace[x]
        BY <1>0, <2>2, <2>4, <3>2, SetInPlaceStep
      <4>2. QED
        BY <1>8, <4>1 DEF SonyPrime, Remembered, Announced, Excused, BeingEjected, hostVars, sysVars, pastVars
    <3>3. QED
      BY <3>1, <3>2
  <2>5. QED
    BY <1>0, <2>3, <2>4, RememberedCalm
<1>9. ASSUME NEW d \in Ids, NEW disc \in Discs, Insert(d, disc) PROVE EntryInv' /\ NoDiskForgotten'
  <2>1. Calm /\ cpu' = cpu /\ \A x \in Ids : IsFile(x) => media'[x] = media[x]
    BY <1>9, <1>0 DEF Insert, Calm, driverVars, sysVars, pastVars, DisksTypeOK
  <2>2. UNCHANGED <<drives, num, status, dsDiskInPlace, to_be_mounted, events, volume, quiet, allowed, slipped>>
    BY <1>9 DEF Insert, driverVars, sysVars, pastVars
  <2>3. ASSUME NEW x \in Ids PROVE Remembered(x) \/ Told(x)'
    <3>1. CASE x # d
      <4>1. media'[x] = media[x]
        BY <1>9, <1>0, <2>3, <3>1 DEF Insert, DisksTypeOK
      <4>2. QED
        BY <2>1, <2>2, <4>1 DEF Remembered, Announced, Excused, BeingEjected
    <3>2. CASE x = d /\ (LetGo(d) \/ BeingEjected(d))
      BY <2>1, <2>2, <3>2 DEF Told, Excused, BeingEjected, LetGo
    <3>3. CASE x = d /\ ~LetGo(d) /\ ~BeingEjected(d)
      <4>1. ~InDrive(d)
        BY <1>9, <1>0, <3>3, DiscStays DEF Insert
      <4>2. ~InDrive(d)'
        BY <2>2, <4>1 DEF InDrive, get_drive_info, DrivesOf, Driver, Ids, DISK_INSERT_CHECK
      <4>3. QED
        BY <3>3, <4>2 DEF Told
    <3>4. QED
      BY <3>1, <3>2, <3>3
  <2>4. QED
    BY <1>0, <2>1, <2>3, RememberedCalm
<1>10. ASSUME NEW d \in Ids, Remove(d) PROVE EntryInv' /\ NoDiskForgotten'
  <2>1. Calm /\ cpu' = cpu /\ \A x \in Ids : IsFile(x) => media'[x] = media[x]
    BY <1>10, <1>0 DEF Remove, Calm, driverVars, sysVars, pastVars, DisksTypeOK
  <2>2. UNCHANGED <<drives, num, status, dsDiskInPlace, to_be_mounted, events, volume, quiet, allowed, slipped>>
    BY <1>10 DEF Remove, driverVars, sysVars, pastVars
  <2>3. ASSUME NEW x \in Ids PROVE Remembered(x)
    <3>1. "none" \notin HFS /\ media'[x] \in {media[x], "none"}
      BY <1>10, <1>0, <2>3, DrivesAssumption DEF Remove, DisksTypeOK, DrivesAssumption
    <3>2. QED
      BY <2>1, <2>2, <3>1 DEF Remembered, Announced, Excused, BeingEjected
  <2>4. QED
    BY <1>0, <2>1, <2>3, RememberedCalm
<1>11. ASSUME NEW d \in Ids, NEW b \in BOOLEAN, ModifyPostEvent(d, b) PROVE EntryInv' /\ NoDiskForgotten'
  <2>1. PICK e : /\ mount_non_hfs' = [mount_non_hfs EXCEPT ![e] = b]
                 /\ quiet' = IF b THEN quiet ELSE quiet \cup {e}
    BY <1>11 DEF ModifyPostEvent
  <2>2. UNCHANGED <<drives, num, status, dsDiskInPlace, to_be_mounted, drive_queue, events, volume, media,
                    cpu, allowed, slipped>>
    BY <1>11 DEF ModifyPostEvent, hostVars, sysVars
  <2>3. Calm
    BY <1>0, <2>1, <2>2 DEF Calm, DisksTypeOK
  <2>4. ASSUME NEW x \in Ids PROVE Remembered(x)
    BY <2>1, <2>2 DEF Remembered, Announced, Excused, BeingEjected
  <2>5. QED
    BY <1>0, <2>2, <2>3, <2>4, RememberedCalm
<1>12. ASSUME NEW p \in Processes, CheckDrive(p) PROVE EntryInv' /\ NoDiskForgotten'
  <2>0. PICK d : d = cpu[p].d
    OBVIOUS
  <2>1. /\ cpu[p].op \in {"accRun", "irq"} /\ d \in Ids /\ cpu[p].at = "check"
        /\ UNCHANGED <<drives, num, status, mount_non_hfs, drive_queue, events, volume, media, allowed,
                       slipped, quiet>>
    BY <2>0, <1>12, <1>0, CursorIs DEF CheckDrive, At, Idle, hostVars, sysVars
  <2>2. PICK at \in {"lock", "post"} : Goto(p, at)
    BY <1>12 DEF CheckDrive
  <2>3. /\ \A o \in Processes \ {p} : cpu'[o] = cpu[o]
        /\ cpu'[p].op = cpu[p].op /\ cpu'[p].at \in {"lock", "post"}
    BY <2>0, <1>0, <2>1, <2>2, GotoStep
  <2>4. Calm
    BY <2>1, <2>3 DEF Calm, Processes
  <2>5. \/ UNCHANGED <<dsDiskInPlace, to_be_mounted>>
        \/ SetInPlace(d, 1) /\ to_be_mounted' = [to_be_mounted EXCEPT ![d] = TRUE]
    BY <2>0, <1>12 DEF CheckDrive
  <2>6. ASSUME NEW x \in Ids PROVE Remembered(x) \/ Told(x)'
    <3>1. BeingEjected(x) => BeingEjected(x)'
      BY <2>1, <2>3 DEF BeingEjected, Processes
    <3>2. CASE dsDiskInPlace'[x] = dsDiskInPlace[x] /\ to_be_mounted'[x] = to_be_mounted[x]
      BY <2>1, <3>1, <3>2 DEF Remembered, Announced, Excused
    <3>3. CASE x = d /\ to_be_mounted'[x]
      BY <3>3 DEF Told, Announced
    <3>4. QED
      BY <1>0, <2>1, <2>5, <2>6, <3>2, <3>3, SetInPlaceStep DEF DisksTypeOK
  <2>7. QED
    BY <1>0, <2>1, <2>4, <2>6, RememberedCalm
<1>13. ASSUME NEW p \in Processes, PostEvent(p) PROVE EntryInv' /\ NoDiskForgotten'
  <2>0. PICK d : d = cpu[p].d
    OBVIOUS
  <2>1. /\ cpu[p].op \in {"accRun", "irq"} /\ d \in Ids /\ cpu[p].at = "post" /\ Goto(p, "clear")
        /\ UNCHANGED <<drives, num, status, dsDiskInPlace, to_be_mounted, mount_non_hfs, drive_queue, volume,
                       media, allowed, slipped, quiet>>
        /\ PostDiskEvent(d)
    BY <2>0, <1>13, <1>0, CursorIs DEF PostEvent, At, Idle, hostVars, driverVars
  <2>2. /\ \A o \in Processes \ {p} : cpu'[o] = cpu[o]
        /\ cpu'[p].op = cpu[p].op /\ cpu'[p].d = d /\ cpu'[p].at = "clear"
    BY <2>0, <1>0, <2>1, GotoStep
  <2>3. status[d] = "new" => d \in drive_queue
    <3>1. ASSUME cpu.task.op = "open" PROVE cpu.task.d # d
      <4>1. cpu.irq.op = "irq" /\ cpu.irq.d = d
        BY <1>0, <2>0, <2>1, <3>1 DEF CursorTypes, IrqKind, Processes
      <4>2. QED
        BY <1>0, <3>1, <4>1, Elsewhere
    <3>2. QED
      BY <1>0, <2>1, <3>1 DEF EntryInv, Entered
  <2>4. events \subseteq events' /\ (status[d] = "new" => d \in events')
    BY <2>1, <2>3 DEF PostDiskEvent
  <2>5. Calm
    BY <2>1, <2>2, <2>4 DEF Calm, Processes
  <2>6. ASSUME NEW x \in Ids PROVE Remembered(x)
    <3>1. BeingEjected(x) => BeingEjected(x)'
      BY <2>1, <2>2 DEF BeingEjected, Processes
    <3>2. QED
      BY <2>1, <2>4, <3>1 DEF Remembered, Announced, Excused
  <2>7. QED
    BY <1>0, <2>1, <2>5, <2>6, RememberedCalm
<1>14. ASSUME NEW p \in Processes, ClearFlag(p) PROVE EntryInv' /\ NoDiskForgotten'
  <2>0. PICK d : d = cpu[p].d
    OBVIOUS
  <2>1. /\ cpu[p].op \in {"accRun", "irq"} /\ d \in Ids /\ cpu[p].at = "clear" /\ NextDrive(p)
        /\ UNCHANGED <<drives, num, status, dsDiskInPlace, mount_non_hfs, drive_queue, events, volume,
                       media, allowed, slipped, quiet>>
        /\ to_be_mounted' = [to_be_mounted EXCEPT ![d] = FALSE]
    BY <2>0, <1>14, <1>0, CursorIs DEF ClearFlag, At, Idle, hostVars, sysVars
  <2>2. cpu'[p].at \in {"idle", "number", "check"} /\ \A o \in Processes \ {p} : cpu'[o] = cpu[o]
    BY <1>0, <2>1, NextDriveLoops
  <2>3. Calm
    BY <2>1, <2>2 DEF Calm, Processes
  <2>4. ASSUME NEW x \in Ids PROVE Remembered(x) \/ Told(x)'
    <3>1. BeingEjected(x) => BeingEjected(x)'
      BY <2>1, <2>2 DEF BeingEjected, Processes
    <3>2. CASE x # d
      BY <1>0, <2>1, <2>4, <3>1, <3>2 DEF Remembered, Announced, Excused, DisksTypeOK
    <3>3. CASE x = d
      BY <1>0, <2>0, <2>1, <3>3 DEF EntryInv, Sent, Told, InDrive, Announced
    <3>4. QED
      BY <3>2, <3>3
  <2>5. QED
    BY <1>0, <2>1, <2>3, <2>4, RememberedCalm
<1>15. ASSUME NEW p \in Processes, PreventRemoval(p) PROVE EntryInv' /\ NoDiskForgotten'
  <2>0. PICK d : d = cpu[p].d
    OBVIOUS
  <2>1. /\ cpu[p].op \in {"open", "accRun", "irq"} /\ d \in Ids /\ cpu[p].at = "lock"
        /\ UNCHANGED <<drives, num, status, mount_non_hfs, events, volume, media, quiet>>
        /\ SetInPlace(d, 1)
        /\ \A x \in Ids \ {d} : LetGo(x) => LetGo(x)'
        /\ drive_queue \subseteq drive_queue' /\ (cpu[p].op = "open" => d \in drive_queue')
        /\ IF cpu[p].op = "open" THEN NextDrive(p) ELSE Goto(p, "post")
    BY <2>0, <1>15, <1>0, CursorIs DEF PreventRemoval, At, Idle, LetGo
  <2>2. /\ \A x \in Ids \ {d} : to_be_mounted'[x] = to_be_mounted[x]
        /\ to_be_mounted'[d] \/ (media[d] \notin HFS /\ ~mount_non_hfs[d])
    BY <2>0, <1>15, <1>0, <2>1 DEF PreventRemoval, DisksTypeOK
  <2>3. cpu'[p].at \in {"idle", "number", "check", "post"} /\ \A o \in Processes \ {p} : cpu'[o] = cpu[o]
    <3>1. CASE cpu[p].op = "open"
      BY <1>0, <2>1, <3>1, NextDriveLoops
    <3>2. CASE cpu[p].op # "open"
      BY <1>0, <2>1, <3>2, GotoStep
    <3>3. QED
      BY <3>1, <3>2
  <2>4. Calm
    <3>1. cpu.task.at = "lock" /\ cpu.task.op = "open" => cpu'.task = cpu.task \/ cpu.task.d \in drive_queue'
      BY <2>0, <2>1, <2>3 DEF Processes
    <3>2. QED
      BY <2>1, <2>3, <3>1 DEF Calm, Processes
  <2>5. ASSUME NEW x \in Ids PROVE Remembered(x) \/ Told(x)'
    <3>1. BeingEjected(x) => BeingEjected(x)'
      BY <2>1, <2>3 DEF BeingEjected, Processes
    <3>2. CASE x # d
      BY <1>0, <2>1, <2>2, <2>5, <3>1, <3>2, SetInPlaceStep DEF Remembered, Announced, Excused, LetGo
    <3>3. CASE x = d
      <4>1. to_be_mounted'[d] \/ (media'[d] \notin HFS /\ d \in quiet')
        BY <1>0, <2>1, <2>2 DEF EntryInv, Asked
      <4>2. QED
        BY <3>3, <4>1 DEF Told, Announced, Excused
    <3>4. QED
      BY <3>2, <3>3
  <2>6. QED
    BY <1>0, <2>1, <2>4, <2>5, RememberedCalm
<1>16. CASE EndEject
  <2>0. PICK d : d = cpu.task.d
    OBVIOUS
  <2>1. /\ d \in Ids /\ cpu["task"].at = "ejected" /\ SetInPlace(d, 0) /\ cpu' = [cpu EXCEPT !.task = Idle]
        /\ UNCHANGED <<drives, num, status, to_be_mounted, mount_non_hfs, drive_queue, events, volume, media,
                       allowed, slipped, quiet>>
    BY <2>0, <1>16, <1>0, CursorIs DEF EndEject, At, Idle, hostVars, sysVars
  <2>2. cpu'.irq = cpu.irq /\ cpu'.task = Idle
    BY <1>0, <2>1 DEF CursorTypes
  <2>3. Calm
    BY <2>1, <2>2 DEF Calm, Processes, Idle
  <2>4. ASSUME NEW x \in Ids PROVE Remembered(x) \/ Told(x)'
    <3>1. CASE x # d
      BY <1>0, <2>0, <2>1, <2>4, <3>1, SetInPlaceStep DEF Remembered, Announced, Excused, BeingEjected
    <3>2. CASE x = d
      BY <1>0, <2>1, <3>2, SetInPlaceStep DEF Told, InDrive
    <3>3. QED
      BY <3>1, <3>2
  <2>5. QED
    BY <1>0, <2>1, <2>3, <2>4, RememberedCalm
<1>17. CASE NumberDrive
  <2>0. PICK d : d = cpu.task.d
    OBVIOUS
  <2>1. /\ d \in Ids /\ cpu["task"].op = "open" /\ cpu["task"].at = "number" /\ Goto("task", "alloc")
        /\ UNCHANGED <<drives, status, dsDiskInPlace, drive_queue, events, volume, media, allowed, slipped>>
        /\ \A x \in Ids \ {d} : num'[x] = num[x] /\ to_be_mounted'[x] = to_be_mounted[x]
        /\ mount_non_hfs' = [mount_non_hfs EXCEPT ![d] = TRUE] /\ quiet' = quiet \ {d}
    <3>1. d \in Ids /\ cpu["task"].op = "open" /\ cpu["task"].at = "number"
      BY <2>0, <1>17, <1>0, CursorIs DEF NumberDrive, At, Idle
    <3>2. /\ UNCHANGED <<drives, status, dsDiskInPlace, drive_queue, events, volume, media, allowed, slipped>>
          /\ mount_non_hfs' = [mount_non_hfs EXCEPT ![d] = TRUE] /\ quiet' = quiet \ {d}
          /\ Goto("task", "alloc")
      BY <2>0, <1>17 DEF NumberDrive, hostVars, sysVars
    <3>3. PICK n : num' = [num EXCEPT ![d] = n] /\ to_be_mounted' = [to_be_mounted EXCEPT ![d] = FALSE]
      BY <2>0, <1>17 DEF NumberDrive
    <3>4. \A x \in Ids \ {d} : num'[x] = num[x] /\ to_be_mounted'[x] = to_be_mounted[x]
      BY <1>0, <3>3 DEF DisksTypeOK
    <3>5. QED
      BY <3>1, <3>2, <3>4
  <2>2. cpu'.irq = cpu.irq /\ cpu'.task.at = "alloc" /\ cpu'.task.op = "open"
    BY <1>0, <2>1, GotoStep DEF Processes
  <2>3. \A x \in Ids : status[x] = "new" => ~NotYet(x)
    BY <1>0, <2>1 DEF EventInv, Fresh
  <2>4. EntryInv'
    <3>1. Entered'
      BY <1>0, <2>1 DEF EntryInv, Entered, Ids
    <3>2. Sent'
      BY <1>0, <2>1, <2>2 DEF EntryInv, Sent, Ids, Processes
    <3>3. Asked' /\ Images'
      BY <1>0, <2>1 DEF EntryInv, Asked, Images, IsFile, Ids, DisksTypeOK
    <3>4. QED
      BY <3>1, <3>2, <3>3 DEF EntryInv
  <2>5. ASSUME NEW x \in Ids PROVE Told(x)'
    <3>1. SUFFICES ASSUME InDrive(x)' PROVE (Announced(x) \/ Excused(x, media[x]) \/ BeingEjected(x))'
      BY DEF Told
    <3>2. ~NotYet(x) /\ x # d
      <4>1. ~NotYet(x)
        BY <2>1, <2>3, <3>1 DEF InDrive
      <4>2. NotYet(d)
        BY <2>0, <2>1 DEF NotYet
      <4>3. QED
        BY <4>1, <4>2
    <3>3. get_drive_info(x) = x
      <4> DEFINE S == {e \in DrivesOf(Driver(x)) : num[e] = num[x]}
      <4>1. DrivesOf(Driver(x))' = DrivesOf(Driver(x)) /\ Ids \subseteq Nat /\ get_drive_info(x)' = x
        BY <1>0, <2>1, <3>1, DrivesAre DEF DrivesOf, Driver, Ids, InDrive
      <4>2. get_drive_info(x)' = Least({e \in DrivesOf(Driver(x)) : num'[e] = num'[x]})
        BY <4>1 DEF get_drive_info, Least
      <4>3. ASSUME NEW y \in S PROVE x <= y
        <5>1. CASE y # d
          <6>1. y \in {e \in DrivesOf(Driver(x)) : num'[e] = num'[x]}
            BY <2>1, <3>2, <5>1 DEF DrivesOf
          <6>2. {e \in DrivesOf(Driver(x)) : num'[e] = num'[x]} \subseteq Nat
            BY <4>1 DEF DrivesOf
          <6>3. QED
            BY <4>1, <4>2, <6>1, <6>2, LeastOf
        <5>2. CASE y = d
          <6>1. Driver(x) = Driver(d)
            BY <5>2 DEF DrivesOf
          <6>2. ~(x > d) /\ x \in Nat /\ d \in Nat
            BY <2>0, <2>1, <3>2, <4>1, <6>1 DEF NotYet
          <6>3. QED
            BY <5>2, <6>2
        <5>3. QED
          BY <5>1, <5>2
      <4>4. x \in S /\ S \subseteq Nat
        BY <4>1 DEF DrivesOf
      <4>5. Least(S) \in S /\ Least(S) <= x
        BY <4>4, LeastOf
      <4>6. Least(S) = x
        <5>1. Least(S) \in Nat /\ x <= Least(S) /\ x \in Nat
          BY <4>3, <4>4, <4>5
        <5>2. QED
          BY <4>5, <5>1
      <4>7. QED
        BY <4>6 DEF get_drive_info
    <3>4. InDrive(x)
      BY <2>1, <3>1, <3>3 DEF InDrive, DISK_INSERT_CHECK, Driver
    <3>5. Announced(x) \/ Excused(x, media[x])
      BY <1>0, <2>1, <3>4 DEF NoDiskForgotten, Told, BeingEjected
    <3>6. QED
      BY <2>1, <3>2, <3>5 DEF Announced, Excused
  <2>6. QED
    BY <2>1, <2>4, <2>5 DEF NoDiskForgotten, Ids
<1>18. CASE SetUpDrive
  <2>0. PICK d : d = cpu.task.d
    OBVIOUS
  <2>1. /\ d \in Ids /\ cpu["task"].op = "open" /\ cpu["task"].at = "alloc" /\ cpu.irq = Idle
        /\ UNCHANGED <<drives, num, mount_non_hfs, events, volume, media, allowed, slipped, quiet>>
        /\ status' = [status EXCEPT ![d] = "new"]
        /\ drive_queue \subseteq drive_queue'
        /\ Goto("task", "lock") \/ (NextDrive("task") /\ d \in drive_queue')
    BY <2>0, <1>18, <1>0, CursorIs DEF SetUpDrive, At, Idle, hostVars
  <2>2. PICK place \in {0, 1, 8} :
          /\ dsDiskInPlace' = [dsDiskInPlace EXCEPT ![d] = place]
          /\ to_be_mounted' = [to_be_mounted EXCEPT ![d] = @ \/ place # 0]
    BY <2>0, <1>18 DEF SetUpDrive
  <2>3. cpu'.irq = Idle
          /\ \/ cpu'.task.at = "lock" /\ cpu'.task.op = "open" /\ cpu'.task.d = d
             \/ cpu'.task.at # "clear" /\ d \in drive_queue'
    <3>1. CASE Goto("task", "lock")
      BY <1>0, <2>0, <2>1, <3>1, GotoStep DEF Processes
    <3>2. CASE NextDrive("task") /\ d \in drive_queue'
      BY <1>0, <2>1, <3>2, NextDriveLoops DEF Processes
    <3>3. QED
      BY <2>1, <3>1, <3>2
  <2>4. EntryInv'
    <3>1. Entered'
      BY <1>0, <2>1, <2>3 DEF EntryInv, Entered, Ids, DisksTypeOK
    <3>2. Sent'
      BY <2>3 DEF Sent, Processes, Idle
    <3>3. Asked' /\ Images'
      BY <1>0, <2>1 DEF EntryInv, Asked, Images, IsFile, Ids
    <3>4. QED
      BY <3>1, <3>2, <3>3 DEF EntryInv
  <2>5. ASSUME NEW x \in Ids PROVE Told(x)'
    <3>1. CASE x = d
      BY <1>0, <2>1, <2>2, <3>1 DEF Told, InDrive, Announced, DisksTypeOK
    <3>2. CASE x # d
      <4>1. Remembered(x)
        BY <1>0, <2>1, <2>2, <2>5, <3>2 DEF Remembered, Announced, Excused, BeingEjected, DisksTypeOK
      <4>2. QED
        BY <1>0, <2>1, <2>5, <4>1, RememberedStep DEF NoDiskForgotten
    <3>3. QED
      BY <3>1, <3>2
  <2>6. QED
    BY <2>1, <2>4, <2>5 DEF NoDiskForgotten, Ids
<1>19. ASSUME NEW d \in Ids, Eject(d) PROVE EntryInv' /\ NoDiskForgotten'
  <2>0. PICK e : e = get_drive_info(d)
    OBVIOUS
  <2>1. /\ e \in Ids /\ d \in drive_queue /\ cpu.task = Idle /\ cpu.irq = Idle
        /\ UNCHANGED <<drives, num, status, dsDiskInPlace, to_be_mounted, mount_non_hfs, drive_queue,
                       allowed, slipped, quiet>>
        /\ volume' = [volume EXCEPT ![d] = "none"]
    BY <2>0, <1>19, <1>0, InfoFound DEF Eject, AtTask, driverVars, pastVars
  <2>2. PICK place \in InPlace(e) :
          \/ place = 8 /\ PostDiskEvent(e) /\ UNCHANGED <<media, cpu>>
          \/ /\ cpu' = [cpu EXCEPT !.task = [op |-> "eject", d |-> e, at |-> "ejected"]]
             /\ events' = events
             /\ \E out \in BOOLEAN : (IsFile(e) => ~out)
                  /\ media' = IF out THEN [media EXCEPT ![e] = "none"] ELSE media
    BY <2>0, <1>19 DEF Eject
  <2>3. events \subseteq events' /\ \A x \in Ids : IsFile(x) \/ x # e => media'[x] = media[x]
    <3>1. events \subseteq events'
      BY <2>2 DEF PostDiskEvent
    <3>2. ASSUME NEW x \in Ids, IsFile(x) \/ x # e PROVE media'[x] = media[x]
      BY <1>0, <2>2, <3>2 DEF DisksTypeOK
    <3>3. QED
      BY <3>1, <3>2
  <2>4. \/ cpu' = cpu /\ media' = media /\ e \in Ids /\ PostDiskEvent(e)
        \/ cpu'.irq = Idle /\ cpu'.task.op = "eject" /\ cpu'.task.d = e /\ cpu'.task.at = "ejected"
    BY <1>0, <2>1, <2>2 DEF CursorTypes
  <2>5. Calm
    BY <2>1, <2>3, <2>4 DEF Calm, Processes, Idle
  <2>6. ASSUME NEW x \in Ids PROVE Remembered(x) \/ Told(x)'
    <3>1. CASE BeingEjected(x)'
      BY <3>1 DEF Told
    <3>2. CASE ~BeingEjected(x)' /\ x # d
      <4>1. media'[x] = media[x]
        BY <2>3, <2>4, <2>6, <3>2 DEF BeingEjected
      <4>2. volume'[x] = volume[x]
        BY <1>0, <2>1, <2>6, <3>2 DEF DisksTypeOK
      <4>3. QED
        BY <2>1, <2>3, <4>1, <4>2 DEF Remembered, Announced, Excused, BeingEjected, Idle
    <3>3. CASE ~BeingEjected(x)' /\ x = d
      <4>1. get_drive_info(x)' = get_drive_info(x)
        BY <2>1 DEF get_drive_info, DrivesOf, Driver, Ids, Least
      <4>2. SUFFICES ASSUME InDrive(x)' PROVE Announced(x)'
        BY DEF Told
      <4>3. e = d
        BY <2>0, <3>3, <4>1, <4>2 DEF InDrive
      <4>4. PostDiskEvent(d)
        BY <2>4, <3>3, <4>3 DEF BeingEjected
      <4>5. QED
        BY <2>1, <3>3, <4>4 DEF PostDiskEvent, Announced
    <3>4. QED
      BY <3>1, <3>2, <3>3
  <2>7. QED
    BY <1>0, <2>3, <2>5, <2>6, RememberedCalm
<1>20. ASSUME NEW d \in Ids, MountEvent(d) PROVE EntryInv' /\ NoDiskForgotten'
  <2>1. /\ cpu.task = Idle /\ cpu.irq = Idle /\ events' = events \ {d}
        /\ UNCHANGED <<drives, num, status, dsDiskInPlace, to_be_mounted, mount_non_hfs, drive_queue, media,
                       cpu, allowed, slipped, quiet>>
    BY <1>20 DEF MountEvent, AtTask, hostVars, driverVars, pastVars
  <2>2. PICK place \in InPlace(get_drive_info(d)) :
          volume' = IF place # 0 /\ volume[d] = "none"
                    THEN [volume EXCEPT ![d] = media[get_drive_info(d)]] ELSE volume
    BY <1>20 DEF MountEvent
  <2>3. EntryInv'
    <3>1. Entered' /\ Asked' /\ Images'
      BY <1>0, <2>1 DEF EntryInv, Entered, Asked, Images, IsFile, Ids
    <3>2. Sent'
      BY <2>1 DEF Sent, Processes, Idle
    <3>3. QED
      BY <3>1, <3>2 DEF EntryInv
  <2>4. ASSUME NEW x \in Ids PROVE Told(x)'
    <3>1. CASE x # d
      <4>1. volume'[x] = volume[x]
        BY <1>0, <2>2, <2>4, <3>1 DEF DisksTypeOK
      <4>2. Remembered(x)
        BY <2>1, <3>1, <4>1 DEF Remembered, Announced, Excused, BeingEjected
      <4>3. QED
        BY <1>0, <2>1, <2>4, <4>2, RememberedStep DEF NoDiskForgotten
    <3>2. CASE x = d
      <4>1. get_drive_info(d)' = get_drive_info(d) /\ ~BeingEjected(d)
        BY <2>1 DEF get_drive_info, DrivesOf, Driver, Ids, Least, BeingEjected, Idle
      <4>2. SUFFICES ASSUME InDrive(d)', ~LetGo(d)' PROVE Announced(d)'
        BY <3>2 DEF Told, Excused, LetGo
      <4>3. InDrive(d) /\ ~LetGo(d)
        BY <2>1, <4>1, <4>2 DEF InDrive, LetGo, DISK_INSERT_CHECK, Driver
      <4>4. media[d] # "none" /\ get_drive_info(d) = d /\ place # 0
        BY <1>0, <2>2, <4>1, <4>3, DiscStays DEF InDrive, InPlace
      <4>5. volume'[d] # "none"
        BY <1>0, <2>2, <4>4 DEF DisksTypeOK
      <4>6. QED
        BY <4>5 DEF Announced
    <3>3. QED
      BY <3>1, <3>2
  <2>5. QED
    BY <2>1, <2>3, <2>4 DEF NoDiskForgotten, Ids
<1>21. CASE Restart
  <2>1. cpu' = cpu /\ drives' = drives /\ UNCHANGED <<mount_non_hfs, quiet, media>>
          /\ \A x \in Ids : status'[x] # "new"
    BY <1>21 DEF Restart, hostVars, pastVars
  <2>2. EntryInv'
    BY <1>0, <2>1 DEF EntryInv, Entered, Sent, Asked, Images, IsFile, Ids
  <2>3. NoDiskForgotten'
    BY <2>1 DEF NoDiskForgotten, Told, InDrive, Ids
  <2>4. QED
    BY <2>2, <2>3
<1>22. QED
  BY <1>1, <1>2, <1>3, <1>4, <1>5, <1>6, <1>7, <1>8, <1>9, <1>10, <1>11, <1>12, <1>13, <1>14, <1>15,
     <1>16, <1>17, <1>18, <1>19, <1>20, <1>21
  DEF DisksNext, TaskStep, MountStep, Processes

\* No disk that a driver has found is forgotten: as long as it counts as in place
\* MacOS has an event for it to come, has it, has mounted it, wanted none, or has let
\* the user have it; however accRun, the interrupt, the user and MacOS's calls are
\* interleaved.
THEOREM DisksNotForgotten == DisksSpec => []NoDiskForgotten
BY InitDisks, DisksStep, InitEvents, EventStep, InitEntries, EntryStep, PTL DEF DisksSpec

\* Drive numbers are not given twice, and lead back to the drive, for any drives
\* of the three drivers and however often MacOS is restarted: a drive with the same
\* number that has a status record would be in the queue itself, or be the one that is
\* being opened, whose number is still free.
THEOREM NumbersLead == DisksSpec => []DrivesFound
<1>1. ASSUME DInv, EntryInv PROVE DrivesFound
  <2>1. SUFFICES ASSUME NEW d \in drive_queue
                 PROVE  /\ \A e \in drive_queue : num[e] = num[d] => e = d
                        /\ get_drive_info(d) = d \/ status[get_drive_info(d)] # "new"
    BY DEF DrivesFound
  <2>2. PICK e : e = get_drive_info(d)
    OBVIOUS
  <2>3. e \in Ids /\ num[e] = num[d]
    BY <1>1, <2>1, <2>2, InfoFound DEF DInv, DisksTypeOK
  <2>4. e \in drive_queue => e = d
    BY <1>1, <2>1, <2>3 DEF DInv, Numbers
  <2>5. ~(cpu.task.at = "lock" /\ cpu.task.op = "open" /\ cpu.task.d = e)
    BY <1>1, <2>1, <2>3 DEF DInv, Opening
  <2>6. status[e] = "new" => e \in drive_queue
    BY <1>1, <2>3, <2>5 DEF EntryInv, Entered
  <2>7. QED
    BY <1>1, <2>1, <2>2, <2>4, <2>6 DEF DInv, Numbers
<1>2. QED
  BY <1>1, InitDisks, DisksStep, InitEvents, EventStep, InitEntries, EntryStep, PTL DEF DisksSpec

-----------------------------------------------------------------------------
(* The two drivers in one emulator.                                        *)

\* Each driver behaves as it does alone.
THEOREM DriversApart == DevicesSpec => Spec /\ DisksSpec
<1>1. DevicesInit => Init /\ DisksInit
  BY DEF DevicesInit
<1>2. [DevicesNext]_<<vars, disksVars>> => [Next]_vars /\ [DisksNext]_disksVars
  BY DEF DevicesNext
<1>3. QED
  BY <1>1, <1>2, PTL DEF DevicesSpec, Spec, DisksSpec

\* Every variable keeps its type, however the two are interleaved.
THEOREM TypesCorrect == DevicesSpec => []TypesOK
<1>1. TypeOK /\ DisksTypeOK => TypesOK
  BY DEF TypesOK
<1>2. QED
  BY <1>1, DriversApart, EtherTypes, DisksTypes, PTL
=============================================================================
