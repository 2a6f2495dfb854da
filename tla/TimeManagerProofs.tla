------------------------- MODULE TimeManagerProofs -------------------------
(***************************************************************************)
(* Proofs about TimeManager, for all tasks, delays, tables and units: the  *)
(* arithmetic of host and Mac times, the descriptor table, the time left,  *)
(* and the refinement of Alarms.                                           *)
(***************************************************************************)
EXTENDS TimeManager, SequenceTheorems, WellFoundedInduction, TLAPS

USE ClockAssumption

-----------------------------------------------------------------------------
(* The arithmetic of times.                                                *)

LEMMA MillionType == Million \in Nat \ {0} /\ Million >= Milli
<1>1. Milli >= 1 /\ Milli * Milli >= Milli * 1
  BY Z3
<1>. QED BY <1>1, Z3 DEF Million

\* Division with remainder.
LEMMA DivMod ==
  ASSUME NEW x \in Nat, NEW y \in Nat \ {0}
  PROVE  /\ x \div y \in Nat
         /\ x % y \in 0 .. y - 1
         /\ x = y * (x \div y) + (x % y)
  BY Z3

\* The quotient is the only one that leaves such a remainder.
LEMMA DivUnique ==
  ASSUME NEW y \in Nat \ {0}, NEW q \in Int, NEW r \in 0 .. y - 1,
         NEW x \in Nat, x = y * q + r
  PROVE  x \div y = q /\ x % y = r
  BY Z3

LEMMA HostTimeType ==
  ASSUME NEW usec \in Nat
  PROVE  HostTime(usec) \in HostTimes /\ Usecs(HostTime(usec)) = usec
<1>1. /\ usec \div Million \in Nat
      /\ usec % Million \in 0 .. Million - 1
      /\ usec = Million * (usec \div Million) + (usec % Million)
  <2>1. Million \in Nat \ {0}
    BY MillionType
  <2>. QED BY <2>1, DivMod
<1>2. (usec \div Million) * Million + (usec % Million) = usec
  BY <1>1, MillionType, Z3
<1>. QED BY <1>1, <1>2 DEF HostTime, HostTimes, Usecs

LEMMA AddTime ==
  ASSUME NEW a \in HostTimes, NEW b \in HostTimes
  PROVE  /\ timer_add_time(a, b) \in HostTimes
         /\ Usecs(timer_add_time(a, b)) = Usecs(a) + Usecs(b)
<1>1. a.tv_sec \in Nat /\ b.tv_sec \in Nat /\ a.tv_usec \in 0 .. Million - 1
        /\ b.tv_usec \in 0 .. Million - 1
  BY DEF HostTimes
<1>2. (a.tv_sec + b.tv_sec) * Million = a.tv_sec * Million + b.tv_sec * Million
  BY <1>1, MillionType, Z3
<1>3. (a.tv_sec + b.tv_sec + 1) * Million = a.tv_sec * Million + b.tv_sec * Million + Million
  BY <1>1, MillionType, Z3
<1>. QED BY <1>1, <1>2, <1>3, MillionType, Z3 DEF timer_add_time, HostTimes, Usecs

LEMMA SubTime ==
  ASSUME NEW a \in HostTimes, NEW b \in HostTimes
  PROVE  /\ timer_sub_time(a, b) \in [tv_sec : Int, tv_usec : 0 .. Million - 1]
         /\ Usecs(timer_sub_time(a, b)) = Usecs(a) - Usecs(b)
<1>1. a.tv_sec \in Nat /\ b.tv_sec \in Nat /\ a.tv_usec \in 0 .. Million - 1
        /\ b.tv_usec \in 0 .. Million - 1
  BY DEF HostTimes
<1>2. (a.tv_sec - b.tv_sec) * Million = a.tv_sec * Million - b.tv_sec * Million
  BY <1>1, MillionType, Z3
<1>3. (a.tv_sec - b.tv_sec - 1) * Million = a.tv_sec * Million - b.tv_sec * Million - Million
  BY <1>1, MillionType, Z3
<1>. QED BY <1>1, <1>2, <1>3, MillionType, Z3 DEF timer_sub_time, HostTimes, Usecs

\* A Mac time becomes a host time of the same duration.
LEMMA MacToHost ==
  ASSUME NEW m \in MacTimes
  PROVE  /\ timer_mac2host_time(m) \in HostTimes
         /\ Usecs(timer_mac2host_time(m)) = Duration(m)
<1>0. m \in Int
  BY DEF MacTimes
<1>1. CASE m > 0
  <2>1. m \div Milli \in Nat /\ m % Milli \in 0 .. Milli - 1
          /\ m = Milli * (m \div Milli) + (m % Milli)
    <3>1. m \in Nat /\ Milli \in Nat \ {0}
      BY <1>0, <1>1
    <3>. QED BY <3>1, DivMod
  <2>2. (m % Milli) * Milli <= (Milli - 1) * Milli /\ (m % Milli) * Milli >= 0
    BY <2>1, Z3
  <2>3. (m % Milli) * Milli \in 0 .. Million - 1
    BY <2>1, <2>2, Z3 DEF Million
  <2>4. (m \div Milli) * Million + (m % Milli) * Milli = m * Milli
    BY <2>1, Z3 DEF Million
  <2>5. timer_mac2host_time(m) = [tv_sec |-> m \div Milli, tv_usec |-> (m % Milli) * Milli]
    BY <1>1 DEF timer_mac2host_time
  <2>. QED BY <1>1, <2>1, <2>3, <2>4, <2>5 DEF HostTimes, Usecs, Duration
<1>2. CASE ~(m > 0)
  <2>. DEFINE u == -m
  <2>1. u \in Nat
    BY <1>0, <1>2
  <2>2. u \div Million \in Nat /\ u % Million \in 0 .. Million - 1
          /\ u = Million * (u \div Million) + (u % Million)
    BY <2>1, MillionType, DivMod
  <2>3. (u \div Million) * Million + (u % Million) = u
    BY <2>1, <2>2, MillionType, Z3
  <2>4. timer_mac2host_time(m) = [tv_sec |-> u \div Million, tv_usec |-> u % Million]
    BY <1>2 DEF timer_mac2host_time
  <2>5. Duration(m) = u
    BY <1>0, <1>2 DEF Duration
  <2>. HIDE DEF u
  <2>. QED BY <2>2, <2>3, <2>4, <2>5 DEF HostTimes, Usecs
<1>. QED BY <1>0, <1>1, <1>2

\* What is left of a time: a duration that is not later, and less than a
\* millisecond shorter.
LEMMA HostToMac ==
  ASSUME NEW t \in [tv_sec : Int, tv_usec : 0 .. Million - 1],
         Usecs(t) <= INT_MAX * Milli
  PROVE  /\ timer_host2mac_time(t) \in MacTimes
         /\ IF Usecs(t) <= 0
              THEN Duration(timer_host2mac_time(t)) = 0
              ELSE Usecs(t) - Duration(timer_host2mac_time(t)) \in 0 .. Milli - 1
<1>. DEFINE u == Usecs(t)
<1>0. t.tv_sec \in Int /\ t.tv_usec \in 0 .. Million - 1
  OBVIOUS
<1>1. u \in Int /\ u = t.tv_sec * Million + t.tv_usec
  BY <1>0, MillionType DEF Usecs
<1>2. t.tv_sec < 0 <=> u < 0
  BY <1>0, <1>1, MillionType, Z3
<1>. HIDE DEF u
<1>3. timer_host2mac_time(t) = IF t.tv_sec < 0 THEN 0
                               ELSE IF u > INT_MAX THEN Int32(u \div Milli) ELSE -u
  BY <1>1 DEF timer_host2mac_time
<1>4. CASE t.tv_sec < 0
  <2>1. timer_host2mac_time(t) = 0
    BY <1>3, <1>4
  <2>2. Duration(0) = 0 /\ 0 \in MacTimes
    <3>1. Duration(0) = 0
      BY DEF Duration
    <3>2. 0 \in MacTimes
      BY Z3 DEF MacTimes
    <3>. QED BY <3>1, <3>2
  <2>. QED BY <1>1, <1>2, <1>4, <2>1, <2>2 DEF u
<1>5. CASE t.tv_sec >= 0 /\ u <= INT_MAX
  BY <1>1, <1>2, <1>3, <1>5 DEF Duration, MacTimes, u
<1>6. CASE t.tv_sec >= 0 /\ u > INT_MAX
  <2>. DEFINE q == u \div Milli
  <2>1. q \in Nat /\ u % Milli \in 0 .. Milli - 1 /\ u = Milli * q + (u % Milli)
    <3>1. u \in Nat /\ Milli \in Nat \ {0}
      BY <1>1, <1>6
    <3>. QED BY <3>1, DivMod
  <2>. HIDE DEF q
  <2>2. u <= INT_MAX * Milli
    BY DEF u
  <2>3. q <= INT_MAX
    BY <1>1, <2>1, <2>2, Z3
  <2>4. Int32(q) = q
    <3>. DEFINE w == 2 * (INT_MAX + 1)
                x == q + INT_MAX + 1
    <3>1. x \in 0 .. w - 1 /\ w \in Nat \ {0} /\ x = w * 0 + x
      BY <2>1, <2>3
    <3>2. x % w = x
      <4>. HIDE DEF w, x
      <4>. QED BY <3>1, DivUnique
    <3>. QED BY <2>1, <3>2 DEF Int32
  <2>5. timer_host2mac_time(t) = q
    BY <1>3, <1>6, <2>4 DEF q
  <2>6. Duration(q) = q * Milli
    BY <2>1 DEF Duration
  <2>7. u - q * Milli = u % Milli
    BY <1>1, <2>1, Z3
  <2>. QED BY <1>1, <1>6, <2>1, <2>3, <2>5, <2>6, <2>7 DEF MacTimes, u
<1>. QED BY <1>0, <1>1, <1>4, <1>5, <1>6

LEMMA HostToMacType ==
  ASSUME NEW t \in [tv_sec : Int, tv_usec : 0 .. Million - 1]
  PROVE  timer_host2mac_time(t) \in -INT_MAX - 1 .. INT_MAX
<1>. DEFINE u == Usecs(t)
<1>1. t.tv_sec \in Int /\ t.tv_usec \in 0 .. Million - 1
  OBVIOUS
<1>2. u \in Int /\ u = t.tv_sec * Million + t.tv_usec
  BY <1>1, MillionType DEF Usecs
<1>3. t.tv_sec >= 0 => u >= 0
  BY <1>1, <1>2, MillionType, Z3
<1>. HIDE DEF u
<1>4. \A x \in Nat : Int32(x) \in -INT_MAX - 1 .. INT_MAX
  <2>. SUFFICES ASSUME NEW x \in Nat PROVE Int32(x) \in -INT_MAX - 1 .. INT_MAX
    OBVIOUS
  <2>. DEFINE w == 2 * (INT_MAX + 1)
              y == x + INT_MAX + 1
  <2>1. w \in Nat \ {0} /\ y \in Nat
    OBVIOUS
  <2>2. y % w \in 0 .. w - 1
    <3>. HIDE DEF w, y
    <3>. QED BY <2>1, DivMod
  <2>. QED BY <2>2 DEF Int32
<1>5. u > INT_MAX => u \div Milli \in Nat
  <2>1. u > INT_MAX => u \in Nat
    BY <1>2
  <2>2. Milli \in Nat \ {0}
    OBVIOUS
  <2>. QED BY <2>1, <2>2, DivMod
<1>6. timer_host2mac_time(t) = IF t.tv_sec < 0 THEN 0
                               ELSE IF u > INT_MAX THEN Int32(u \div Milli) ELSE -u
  BY <1>2 DEF timer_host2mac_time
<1>7. CASE t.tv_sec < 0
  BY <1>6, <1>7
<1>8. CASE t.tv_sec >= 0 /\ u > INT_MAX
  BY <1>1, <1>4, <1>5, <1>6, <1>8
<1>9. CASE t.tv_sec >= 0 /\ u <= INT_MAX
  BY <1>1, <1>2, <1>3, <1>6, <1>9
<1>. QED BY <1>1, <1>2, <1>7, <1>8, <1>9

-----------------------------------------------------------------------------
(* The descriptor table.                                                   *)

LEMMA FirstOf ==
  ASSUME NEW S, S \subseteq Nat, S # {}
  PROVE  First(S) \in S
<1>1. PICK x \in S : \A y \in S : ~(<<y, x>> \in OpToRel(<, Nat))
  BY NatLessThanWellFounded, WFMin
<1>2. \A y \in S : x <= y
  <2>. SUFFICES ASSUME NEW y \in S PROVE x <= y
    OBVIOUS
  <2>1. x \in Nat /\ y \in Nat
    OBVIOUS
  <2>2. ~(y < x)
    BY <1>1, <2>1 DEF OpToRel
  <2>. QED BY <2>1, <2>2
<1>. QED BY <1>2 DEF First

\* The descriptor found is one of the task, and the one allocated is free.
LEMMA FindDesc ==
  ASSUME in_use \subseteq Slots, NEW t, Found(t) # {}
  PROVE  find_desc(t) \in in_use /\ find_desc(t) \in Slots /\ task[find_desc(t)] = t
<1>0. Slots \subseteq Nat
  BY ConstantsAssumption DEF Slots
<1>1. Found(t) \subseteq in_use /\ Found(t) \subseteq Nat
  BY <1>0 DEF Found
<1>2. find_desc(t) \in Found(t)
  BY <1>1, FirstOf DEF find_desc
<1>. QED BY <1>1, <1>2 DEF Found

LEMMA AllocDesc ==
  ASSUME Free # {}
  PROVE  First(Free) \in Slots /\ First(Free) \notin in_use
<1>1. Free \subseteq Nat
  BY ConstantsAssumption DEF Free, Slots
<1>. QED BY <1>1, FirstOf DEF Free

-----------------------------------------------------------------------------
(* The invariant.                                                          *)

TMInv == TypeOK /\ OneDescriptor /\ AllInstalled

LEMMA InitTM == Init => TMInv
<1>. SUFFICES ASSUME Init PROVE TMInv
  OBVIOUS
<1>1. TypeOK
  <2>1. now \in HostTimes
    BY ConstantsAssumption, HostTimeType DEF Init
  <2>2. wakeup \in [Slots -> HostTimes]
    <3>1. HostTime(0) \in HostTimes
      BY HostTimeType
    <3>. QED BY <3>1 DEF Init
  <2>3. scan \in Seq(Frames) /\ Len(scan) <= MaxNesting
    BY ConstantsAssumption, EmptySeq DEF Init
  <2>4. tmCount \in [Tasks -> -INT_MAX - 1 .. INT_MAX]
    BY DEF Init
  <2>. QED BY <2>1, <2>2, <2>3, <2>4 DEF Init, TypeOK
<1>2. OneDescriptor /\ AllInstalled
  BY DEF Init, OneDescriptor, AllInstalled, Installed
<1>. QED BY <1>1, <1>2 DEF TMInv

LEMMA InsTimeTM ==
  ASSUME TMInv, NEW t \in Tasks, NEW trap \in Traps, InsTime(t, trap),
         UNCHANGED <<now, scan, rung>>
  PROVE  TMInv'
<1>. USE DEF TMInv
<1>1. CASE Found(t) # {}
  <2>1. UNCHANGED <<in_use, task, wakeup, scheduled, tmCount>>
    BY <1>1 DEF InsTime
  <2>2. wanted' = wanted \cup {t} /\ refused' = refused \ {t}
    BY <1>1 DEF InsTime, Wanted
  <2>3. active' \subseteq Tasks /\ extended' \subseteq Tasks
    BY DEF InsTime, SetType, TypeOK
  <2>4. t \in Installed /\ Installed' = Installed
    BY <1>1, <2>1 DEF Found, Installed
  <2>5. TypeOK'
    BY <2>1, <2>2, <2>3 DEF TypeOK
  <2>6. OneDescriptor' /\ AllInstalled'
    BY <2>1, <2>2, <2>4 DEF OneDescriptor, AllInstalled
  <2>. QED BY <2>5, <2>6
<1>2. CASE Found(t) = {} /\ Free = {}
  <2>1. UNCHANGED <<in_use, task, wakeup, scheduled, tmCount>>
    BY <1>2 DEF InsTime, alloc_desc
  <2>2. wanted' = wanted \cup {t} /\ refused' = refused \cup {t}
    BY <1>2 DEF InsTime, Wanted
  <2>3. active' \subseteq Tasks /\ extended' \subseteq Tasks
    BY DEF InsTime, SetType, TypeOK
  <2>4. Installed' = Installed
    BY <2>1 DEF Installed
  <2>5. TypeOK'
    BY <2>1, <2>2, <2>3 DEF TypeOK
  <2>6. OneDescriptor' /\ AllInstalled'
    BY <2>1, <2>2, <2>4 DEF OneDescriptor, AllInstalled
  <2>. QED BY <2>5, <2>6
<1>3. CASE Found(t) = {} /\ Free # {}
  <2>. DEFINE f == First(Free)
  <2>0. f \in Slots /\ f \notin in_use
    BY <1>3, AllocDesc
  <2>1. in_use' = in_use \cup {f} /\ task' = [task EXCEPT ![f] = t]
    BY <1>3 DEF InsTime, alloc_desc
  <2>2. wanted' = wanted \cup {t} /\ refused' = refused \ {t}
    BY <1>3 DEF InsTime, Wanted
  <2>3. active' \subseteq Tasks /\ extended' \subseteq Tasks
    BY DEF InsTime, SetType, TypeOK
  <2>4. UNCHANGED <<wakeup, scheduled, tmCount>>
    BY DEF InsTime
  <2>. HIDE DEF f
  <2>5. TypeOK'
    BY <2>0, <2>1, <2>2, <2>3, <2>4 DEF TypeOK
  <2>6. task'[f] = t /\ \A i \in in_use : task'[i] = task[i] /\ task[i] # t
    BY <1>3, <2>0, <2>1 DEF TypeOK, Found
  <2>7. Installed' = Installed \cup {t}
    BY <2>1, <2>6 DEF Installed
  <2>8. OneDescriptor'
    BY <2>1, <2>2, <2>6, <2>7 DEF OneDescriptor
  <2>9. AllInstalled'
    BY <2>2, <2>7 DEF AllInstalled
  <2>. QED BY <2>5, <2>8, <2>9
<1>. QED BY <1>1, <1>2, <1>3

\* What RmvTime() leaves in tmCount is an int32.
LEMMA RemainingType ==
  ASSUME TypeOK, NEW i \in Slots
  PROVE  Remaining(i) \in -INT_MAX - 1 .. INT_MAX
<1>1. wakeup[i] \in HostTimes /\ now \in HostTimes
  BY DEF TypeOK
<1>. QED BY <1>1, SubTime, HostToMacType DEF Remaining

LEMMA RmvTimeTM ==
  ASSUME TMInv, NEW t \in Tasks, RmvTime(t), UNCHANGED <<now, scan, rung>>
  PROVE  TMInv'
<1>. USE DEF TMInv
<1>0. UNCHANGED <<task, wakeup, extended, scheduled>>
      /\ wanted' = wanted \ {t} /\ refused' = refused \ {t}
  BY DEF RmvTime
<1>1. CASE Found(t) = {}
  <2>1. UNCHANGED <<in_use, active, tmCount>>
    BY <1>1 DEF RmvTime
  <2>2. Installed' = Installed /\ t \notin Installed
    BY <1>0, <1>1, <2>1 DEF Installed, Found
  <2>3. TypeOK'
    BY <1>0, <2>1 DEF TypeOK
  <2>4. OneDescriptor' /\ AllInstalled'
    BY <1>0, <2>1, <2>2 DEF OneDescriptor, AllInstalled
  <2>. QED BY <2>3, <2>4
<1>2. CASE Found(t) # {}
  <2>. DEFINE f == find_desc(t)
  <2>1. f \in in_use /\ f \in Slots /\ task[f] = t
    BY <1>2, FindDesc DEF TypeOK
  <2>2. in_use' = in_use \ {f} /\ active' = active \ {t}
    BY <1>2 DEF RmvTime, free_desc
  <2>3. tmCount' \in [Tasks -> -INT_MAX - 1 .. INT_MAX]
    <3>1. tmCount' = [tmCount EXCEPT ![t] = IF t \in active THEN Remaining(f) ELSE 0]
      BY <1>2 DEF RmvTime
    <3>2. Remaining(f) \in -INT_MAX - 1 .. INT_MAX /\ 0 \in -INT_MAX - 1 .. INT_MAX
      BY <2>1, RemainingType
    <3>. QED BY <3>1, <3>2 DEF TypeOK
  <2>. HIDE DEF f
  <2>4. TypeOK'
    BY <1>0, <2>2, <2>3 DEF TypeOK
  <2>5. Installed' = Installed \ {t}
    BY <1>0, <2>1, <2>2 DEF Installed, OneDescriptor
  <2>6. OneDescriptor' /\ AllInstalled'
    BY <1>0, <2>2, <2>5 DEF OneDescriptor, AllInstalled
  <2>. QED BY <2>4, <2>6
<1>. QED BY <1>1, <1>2

LEMMA PrimeTimeTM ==
  ASSUME TMInv, NEW t \in Tasks, NEW d \in Delays, PrimeTime(t, d),
         UNCHANGED <<now, scan, rung>>
  PROVE  TMInv'
<1>. USE DEF TMInv
<1>0. UNCHANGED <<in_use, task, extended, tmCount, wanted, refused>>
  BY DEF PrimeTime
<1>1. wakeup' \in [Slots -> HostTimes]
  <2>1. CASE Found(t) = {}
    BY <2>1 DEF PrimeTime, TypeOK
  <2>2. CASE Found(t) # {}
    <3>1. find_desc(t) \in Slots
      BY <2>2, FindDesc DEF TypeOK
    <3>2. wakeup[find_desc(t)] \in HostTimes /\ now \in HostTimes
      BY <3>1 DEF TypeOK
    <3>3. timer_mac2host_time(d) \in HostTimes
      BY ConstantsAssumption, MacToHost
    <3>4. Wakeup(t, d) \in HostTimes
      BY <3>2, <3>3, AddTime DEF Wakeup
    <3>. QED BY <2>2, <3>4 DEF PrimeTime, TypeOK
  <2>. QED BY <2>1, <2>2
<1>2. active' \subseteq Tasks /\ scheduled' \subseteq Tasks
  BY DEF PrimeTime, TypeOK
<1>3. TypeOK'
  BY <1>0, <1>1, <1>2 DEF TypeOK
<1>4. OneDescriptor' /\ AllInstalled'
  BY <1>0 DEF OneDescriptor, AllInstalled, Installed
<1>. QED BY <1>3, <1>4

\* The loop's index and time after a step of the innermost activation.
LEMMA LoopScan ==
  ASSUME TypeOK, scan # <<>>, NEW i \in 1 .. NUM_DESCS + 1, NEW calling \in BOOLEAN,
         calling => i <= NUM_DESCS, Loop(i, calling)
  PROVE  scan' \in Seq(Frames) /\ Len(scan') <= MaxNesting
<1>. DEFINE frame == [i |-> i, now |-> Head(scan).now, calling |-> calling]
<1>1. scan \in Seq(Frames) /\ Len(scan) \in Nat /\ Len(scan) <= MaxNesting
  BY LenProperties DEF TypeOK
<1>2. Head(scan) \in Frames /\ Tail(scan) \in Seq(Frames) /\ Len(Tail(scan)) = Len(scan) - 1
  BY <1>1, HeadTailProperties
<1>3. frame \in Frames
  BY <1>2 DEF Frames
<1>. HIDE DEF frame
<1>4. <<frame>> \in Seq(Frames) /\ Len(<<frame>>) = 1
  BY <1>3
<1>5. <<frame>> \o Tail(scan) \in Seq(Frames)
      /\ Len(<<frame>> \o Tail(scan)) = 1 + Len(Tail(scan))
  BY <1>2, <1>4, ConcatProperties
<1>6. scan' = <<frame>> \o Tail(scan)
  BY DEF Loop, frame
<1>. QED BY <1>1, <1>2, <1>5, <1>6, ConstantsAssumption

\* The index of an activation, and its place in rung.
LEMMA HeadFrame ==
  ASSUME TypeOK, scan # <<>>
  PROVE  /\ Head(scan).i \in 1 .. NUM_DESCS + 1
         /\ Head(scan).calling => Head(scan).i <= NUM_DESCS
         /\ Tail(scan) \in Seq(Frames) /\ Len(Tail(scan)) <= MaxNesting
         /\ Nesting \in 1 .. MaxNesting
<1>1. scan \in Seq(Frames) /\ Len(scan) \in Nat \ {0} /\ Len(scan) <= MaxNesting
  BY EmptySeq, LenProperties DEF TypeOK
<1>2. Head(scan) \in Frames /\ Tail(scan) \in Seq(Frames) /\ Len(Tail(scan)) = Len(scan) - 1
  BY <1>1, HeadTailProperties
<1>. QED BY <1>1, <1>2, ConstantsAssumption DEF Frames, Nesting

\* Whatever leaves the table and the program's tasks alone keeps the invariant.
LEMMA TableKept ==
  ASSUME TMInv, UNCHANGED <<in_use, task, wanted, refused>>, TypeOK'
  PROVE  TMInv'
BY DEF TMInv, OneDescriptor, AllInstalled, Installed

LEMMA InterruptTM ==
  ASSUME TMInv, TimerInterrupt \/ Skip \/ Call \/ Return \/ EndInterrupt
  PROVE  TMInv'
<1>0. TypeOK
  BY DEF TMInv
<1>1. CASE TimerInterrupt
  <2>. DEFINE frame == [i |-> 1, now |-> now, calling |-> FALSE]
  <2>1. frame \in Frames
    BY <1>0, ConstantsAssumption DEF TypeOK, Frames
  <2>2. scan' = <<frame>> \o scan /\ Len(scan) < MaxNesting
    BY <1>1 DEF TimerInterrupt, Nesting
  <2>. HIDE DEF frame
  <2>3. <<frame>> \in Seq(Frames) /\ Len(<<frame>>) = 1 /\ scan \in Seq(Frames) /\ Len(scan) \in Nat
    BY <2>1, <1>0, LenProperties DEF TypeOK
  <2>4. scan' \in Seq(Frames) /\ Len(scan') <= MaxNesting
    BY <2>2, <2>3, ConcatProperties, ConstantsAssumption
  <2>5. UNCHANGED <<desc, tm, now, wanted, refused, rung>>
    BY <1>1 DEF TimerInterrupt
  <2>6. TypeOK'
    BY <1>0, <2>4, <2>5 DEF TypeOK, desc, tm
  <2>. QED BY <2>5, <2>6, TableKept DEF desc
<1>2. CASE Skip
  <2>1. scan # <<>> /\ Head(scan).i <= NUM_DESCS /\ Loop(Head(scan).i + 1, FALSE)
    BY <1>2 DEF Skip, Scanning
  <2>2. Head(scan).i + 1 \in 1 .. NUM_DESCS + 1
    BY <1>0, <2>1, HeadFrame, ConstantsAssumption
  <2>3. scan' \in Seq(Frames) /\ Len(scan') <= MaxNesting
    BY <1>0, <2>1, <2>2, LoopScan
  <2>4. UNCHANGED <<desc, tm, now, wanted, refused, rung>>
    BY <1>2 DEF Skip
  <2>5. TypeOK'
    BY <1>0, <2>3, <2>4 DEF TypeOK, desc, tm
  <2>. QED BY <2>4, <2>5, TableKept DEF desc
<1>3. CASE Call
  <2>0. scan # <<>> /\ Head(scan).i <= NUM_DESCS /\ Expired(Head(scan).i, Head(scan).now)
    BY <1>3 DEF Call, Scanning
  <2>1. Head(scan).i \in 1 .. NUM_DESCS + 1 /\ Head(scan).i + 1 \in 1 .. NUM_DESCS + 1
        /\ Nesting \in 1 .. MaxNesting
    BY <1>0, <2>0, HeadFrame, ConstantsAssumption
  <2>2. scan' \in Seq(Frames) /\ Len(scan') <= MaxNesting
    <3>1. CASE Loop(Head(scan).i, TRUE)
      BY <1>0, <2>0, <2>1, <3>1, LoopScan
    <3>2. CASE Loop(Head(scan).i + 1, FALSE)
      BY <1>0, <2>0, <2>1, <3>2, LoopScan
    <3>. QED BY <1>3, <3>1, <3>2 DEF Call
  <2>3. task[Head(scan).i] \in Tasks
    BY <1>0, <2>0 DEF Expired, TypeOK
  <2>4. rung' \in [1 .. MaxNesting -> SUBSET Tasks]
    <3>1. rung' = [rung EXCEPT ![Nesting] = @ \cup {task[Head(scan).i]}]
      BY <1>3 DEF Call
    <3>. QED BY <1>0, <2>1, <2>3, <3>1 DEF TypeOK
  <2>5. active' \subseteq Tasks
    BY <1>0, <1>3 DEF Call, TypeOK
  <2>6. UNCHANGED <<desc, extended, scheduled, tmCount, now, wanted, refused>>
    BY <1>3 DEF Call
  <2>7. TypeOK'
    BY <1>0, <2>2, <2>4, <2>5, <2>6 DEF TypeOK, desc
  <2>. QED BY <2>6, <2>7, TableKept DEF desc
<1>4. CASE Return
  <2>0. scan # <<>> /\ Head(scan).calling /\ Loop(Head(scan).i + 1, FALSE)
    BY <1>4 DEF Return
  <2>1. Head(scan).i + 1 \in 1 .. NUM_DESCS + 1
    BY <1>0, <2>0, HeadFrame, ConstantsAssumption
  <2>2. scan' \in Seq(Frames) /\ Len(scan') <= MaxNesting
    BY <1>0, <2>0, <2>1, LoopScan
  <2>4. UNCHANGED <<desc, tm, now, wanted, refused, rung>>
    BY <1>4 DEF Return
  <2>5. TypeOK'
    BY <1>0, <2>2, <2>4 DEF TypeOK, desc, tm
  <2>. QED BY <2>4, <2>5, TableKept DEF desc
<1>5. CASE EndInterrupt
  <2>0. scan # <<>> /\ scan' = Tail(scan) /\ rung' = [rung EXCEPT ![Nesting] = {}]
    BY <1>5 DEF EndInterrupt
  <2>1. scan' \in Seq(Frames) /\ Len(scan') <= MaxNesting
    BY <1>0, <2>0, HeadFrame
  <2>2. rung' \in [1 .. MaxNesting -> SUBSET Tasks]
    BY <1>0, <2>0, HeadFrame DEF TypeOK
  <2>3. UNCHANGED <<desc, tm, now, wanted, refused>>
    BY <1>5 DEF EndInterrupt
  <2>4. TypeOK'
    BY <1>0, <2>1, <2>2, <2>3 DEF TypeOK, desc, tm
  <2>. QED BY <2>3, <2>4, TableKept DEF desc
<1>. QED BY <1>1, <1>2, <1>3, <1>4, <1>5

\* Every step keeps the invariant.
LEMMA StepTM == TMInv /\ [Next]_vars => TMInv'
<1>. SUFFICES ASSUME TMInv, [Next]_vars PROVE TMInv'
  OBVIOUS
<1>1. CASE Program
  <2>. USE <1>1 DEF Program
  <2>1. UNCHANGED <<now, scan, rung>>
    OBVIOUS
  <2>2. ASSUME NEW t \in Tasks, NEW trap \in Traps, InsTime(t, trap) PROVE TMInv'
    BY <2>1, <2>2, InsTimeTM
  <2>3. ASSUME NEW t \in Tasks, RmvTime(t) PROVE TMInv'
    BY <2>1, <2>3, RmvTimeTM
  <2>4. ASSUME NEW t \in Tasks, NEW d \in Delays, PrimeTime(t, d) PROVE TMInv'
    BY <2>1, <2>4, PrimeTimeTM
  <2>5. ASSUME NEW t \in Tasks, ClearWakeUp(t) PROVE TMInv'
    <3>1. UNCHANGED <<desc, active, extended, tmCount, wanted, refused>>
          /\ scheduled' = scheduled \ {t}
      BY <2>5 DEF ClearWakeUp
    <3>2. TypeOK'
      BY <2>1, <3>1 DEF TMInv, TypeOK, desc
    <3>. QED BY <3>1, <3>2, TableKept DEF desc
  <2>. QED BY <2>2, <2>3, <2>4, <2>5
<1>2. CASE TimerReset
  <2>1. in_use' = {} /\ wanted' = {} /\ refused' = {}
        /\ UNCHANGED <<task, wakeup, tm, now, scan, rung>>
    BY <1>2 DEF TimerReset
  <2>2. TypeOK'
    BY <2>1 DEF TMInv, TypeOK, tm
  <2>3. OneDescriptor' /\ AllInstalled'
    BY <2>1 DEF OneDescriptor, AllInstalled, Installed
  <2>. QED BY <2>2, <2>3 DEF TMInv
<1>3. CASE Tick
  <2>1. now' \in HostTimes
    <3>1. now \in HostTimes /\ Million \in Nat /\ Step \in Nat
      BY MillionType, ConstantsAssumption DEF TMInv, TypeOK
    <3>2. Usecs(now) \in Nat
      BY <3>1 DEF Usecs, HostTimes
    <3>3. Usecs(now) + Step \in Nat
      BY <3>1, <3>2
    <3>. QED BY <1>3, <3>3, HostTimeType DEF Tick
  <2>2. UNCHANGED <<desc, tm, scan, wanted, refused, rung>>
    BY <1>3 DEF Tick
  <2>3. TypeOK'
    BY <2>1, <2>2 DEF TMInv, TypeOK, desc, tm
  <2>. QED BY <2>2, <2>3, TableKept DEF desc
<1>4. CASE UNCHANGED vars
  <2>1. TypeOK'
    BY <1>4 DEF TMInv, TypeOK, vars, desc, tm
  <2>. QED BY <1>4, <2>1, TableKept DEF vars, desc
<1>. QED BY <1>1, <1>2, <1>3, <1>4, InterruptTM DEF Next

LEMMA TMInvariant == Spec => []TMInv
BY InitTM, StepTM, PTL DEF Spec

\* Every variable of the Time Manager keeps its type; the loop of
\* TimerInterrupt() never reads past the table, whatever routines do.
THEOREM TypeCorrect == Spec => []TypeOK
<1>1. TMInv => TypeOK
  BY DEF TMInv
<1>. QED BY <1>1, TMInvariant, PTL

\* InsTime(), RmvTime() and TimerReset(), called in any order and from routines,
\* leave a task at most one descriptor, and none when it has been removed.
THEOREM OneDescriptorEach == Spec => []OneDescriptor
<1>1. TMInv => OneDescriptor
  BY DEF TMInv
<1>. QED BY <1>1, TMInvariant, PTL

\* A task loses its descriptor only to RmvTime() or a reset: it is installed
\* unless InsTime() found the table full.
THEOREM NoneLost == Spec => []AllInstalled
<1>1. TMInv => AllInstalled
  BY DEF TMInv
<1>. QED BY <1>1, TMInvariant, PTL

-----------------------------------------------------------------------------
(* The time that is left.                                                  *)

\* Only RmvTime() of the task itself takes both its descriptor and its alarm.
LEMMA OnlyRmvTime ==
  ASSUME TMInv, [Next]_vars, NEW t \in Tasks,
         t \in Installed \cap active, t \notin Installed' \cup active'
  PROVE  RmvTime(t)
<1>1. CASE Program
  <2>. USE <1>1 DEF Program
  <2>1. ASSUME NEW u \in Tasks, NEW trap \in Traps, InsTime(u, trap) PROVE FALSE
    <3>1. CASE Found(u) # {} \/ Free = {}
      <4>1. UNCHANGED <<in_use, task>>
        BY <2>1, <3>1 DEF InsTime, alloc_desc
      <4>. QED BY <4>1 DEF Installed
    <3>2. CASE Found(u) = {} /\ Free # {}
      <4>1. in_use' = in_use \cup {First(Free)} /\ task' = [task EXCEPT ![First(Free)] = u]
        BY <2>1, <3>2 DEF InsTime, alloc_desc
      <4>2. First(Free) \notin in_use
        BY <3>2, AllocDesc
      <4>3. PICK i \in in_use : task[i] = t
        BY DEF Installed
      <4>4. i \in in_use' /\ task'[i] = t
        BY <4>1, <4>2, <4>3 DEF TMInv, TypeOK
      <4>. QED BY <4>4 DEF Installed
    <3>. QED BY <3>1, <3>2
  <2>2. ASSUME NEW u \in Tasks, RmvTime(u) PROVE RmvTime(t)
    <3>1. t # u => t \in active'
      BY <2>2 DEF RmvTime
    <3>. QED BY <2>2, <3>1
  <2>3. ASSUME NEW u \in Tasks, NEW d \in Delays, PrimeTime(u, d) PROVE FALSE
    BY <2>3 DEF PrimeTime, Installed
  <2>4. ASSUME NEW u \in Tasks, ClearWakeUp(u) PROVE FALSE
    BY <2>4 DEF ClearWakeUp, Installed, desc
  <2>. QED BY <2>1, <2>2, <2>3, <2>4
<1>2. CASE TimerReset
  BY <1>2 DEF TimerReset, tm
<1>3. ASSUME UNCHANGED desc PROVE FALSE
  BY <1>3 DEF Installed, desc
<1>4. CASE Tick \/ TimerInterrupt \/ Skip \/ Call \/ Return \/ EndInterrupt \/ UNCHANGED vars
  BY <1>3, <1>4 DEF Tick, TimerInterrupt, Skip, Call, Return, EndInterrupt, vars
<1>. QED BY <1>1, <1>2, <1>4 DEF Next

LEMMA LeftStep ==
  ASSUME TMInv, [Next]_vars, NEW t \in Tasks,
         t \in Installed \cap active, t \notin Installed' \cup active',
         Left(t) <= INT_MAX * Milli
  PROVE  IF Left(t) <= 0 THEN Again(t) = 0 ELSE Left(t) - Again(t) \in 0 .. Milli - 1
<1>. DEFINE left == timer_sub_time(wakeup[find_desc(t)], now)
            m == timer_host2mac_time(left)
<1>1. Found(t) # {}
  BY DEF Found, Installed
<1>2. find_desc(t) \in Slots
  BY <1>1, FindDesc DEF TMInv, TypeOK
<1>3. wakeup[find_desc(t)] \in HostTimes /\ now \in HostTimes
  BY <1>2 DEF TMInv, TypeOK
<1>4. left \in [tv_sec : Int, tv_usec : 0 .. Million - 1] /\ Usecs(left) = Left(t)
  BY <1>3, SubTime DEF Left
<1>. HIDE DEF left
<1>5. /\ m \in MacTimes
      /\ IF Left(t) <= 0 THEN Duration(m) = 0 ELSE Left(t) - Duration(m) \in 0 .. Milli - 1
  BY <1>4, HostToMac
<1>6. tmCount'[t] = m
  <2>1. tmCount' = [tmCount EXCEPT ![t] = IF t \in active THEN Remaining(find_desc(t)) ELSE 0]
    BY <1>1, OnlyRmvTime DEF RmvTime
  <2>2. Remaining(find_desc(t)) = m
    BY DEF Remaining, left
  <2>. HIDE DEF m
  <2>. QED BY <2>1, <2>2 DEF TMInv, TypeOK
<1>. HIDE DEF m
<1>7. Usecs(timer_mac2host_time(m)) = Duration(m)
  BY <1>5, MacToHost
<1>8. Again(t) = Duration(m)
  BY <1>6, <1>7 DEF Again
<1>. QED BY <1>5, <1>8

\* The time RmvTime() says is left, given to PrimeTime() at once, makes the task
\* ring when it would have rung or less than a millisecond earlier, whatever the
\* tasks, the table and the clock, as long as an int32 can say what is left.
THEOREM LeftIsLeft == Spec => LeftToWait
<1>1. TMInv /\ [Next]_vars =>
        [\A t \in Tasks :
           /\ t \in Installed \cap active /\ t \notin Installed' \cup active'
           /\ Left(t) <= INT_MAX * Milli
           => IF Left(t) <= 0 THEN Again(t) = 0
              ELSE Left(t) - Again(t) \in 0 .. Milli - 1]_vars
  BY LeftStep
<1>. QED BY <1>1, TMInvariant, PTL DEF Spec, LeftToWait
-----------------------------------------------------------------------------
(* The refinement of Alarms.                                               *)

\* No activation of TimerInterrupt() compares with a time to come.
BegunFrames == {f \in Frames : Usecs(f.now) <= Usecs(now)}
Past == scan \in Seq(BegunFrames)

LEMMA UsecsType == ASSUME NEW a \in HostTimes PROVE Usecs(a) \in Nat
<1>1. a.tv_sec \in Nat /\ a.tv_usec \in 0 .. Million - 1 /\ Million \in Nat
  BY MillionType DEF HostTimes
<1>2. a.tv_sec * Million \in Nat
  BY <1>1
<1>. QED BY <1>1, <1>2 DEF Usecs

\* Comparing host times compares the microseconds they stand for.
LEMMA CmpTime ==
  ASSUME NEW a \in HostTimes, NEW b \in HostTimes
  PROVE  timer_cmp_time(a, b) < 0 <=> Usecs(a) < Usecs(b)
<1>1. a.tv_sec \in Nat /\ b.tv_sec \in Nat /\ a.tv_usec \in 0 .. Million - 1
      /\ b.tv_usec \in 0 .. Million - 1 /\ Million \in Nat \ {0}
  BY MillionType DEF HostTimes
<1>2. CASE a.tv_sec = b.tv_sec
  BY <1>1, <1>2 DEF timer_cmp_time, Usecs
<1>3. CASE a.tv_sec < b.tv_sec
  <2>1. (a.tv_sec + 1) * Million <= b.tv_sec * Million
    BY <1>1, <1>3
  <2>2. (a.tv_sec + 1) * Million = a.tv_sec * Million + Million
    BY <1>1
  <2>. QED BY <1>1, <1>3, <2>1, <2>2 DEF timer_cmp_time, Usecs
<1>4. CASE a.tv_sec > b.tv_sec
  <2>1. (b.tv_sec + 1) * Million <= a.tv_sec * Million
    BY <1>1, <1>4
  <2>2. (b.tv_sec + 1) * Million = b.tv_sec * Million + Million
    BY <1>1
  <2>. QED BY <1>1, <1>4, <2>1, <2>2 DEF timer_cmp_time, Usecs
<1>. QED BY <1>1, <1>2, <1>3, <1>4

\* The alarm of a task that is not concerned stays as it is.
LEMMA DueKept ==
  ASSUME in_use \subseteq Slots, NEW t, Found(t)' = Found(t), t \in active' <=> t \in active,
         \A i \in Found(t) : wakeup'[i] = wakeup[i]
  PROVE  Due(t)' = Due(t)
<1>1. (t \in Installed <=> Found(t) # {}) /\ (t \in Installed' <=> Found(t)' # {})
  BY DEF Installed, Found
<1>2. find_desc(t)' = find_desc(t)
  BY DEF find_desc
<1>3. CASE Found(t) = {}
  BY <1>1, <1>3 DEF Due
<1>4. CASE Found(t) # {}
  <2>1. find_desc(t) \in Found(t)
    BY <1>4, FindDesc DEF Found
  <2>2. wakeup'[find_desc(t)] = wakeup[find_desc(t)]
    BY <2>1
  <2>. QED BY <1>1, <1>2, <2>2 DEF Due
<1>. QED BY <1>3, <1>4
LEMMA InitAlarms == Init => Promise!Init
<1>. SUFFICES ASSUME Init PROVE Promise!Init
  OBVIOUS
<1>1. Usecs(now) \in Times
  BY ConstantsAssumption, HostTimeType DEF Init, Times
<1>2. Installed = {} /\ extended \cap scheduled = {}
  BY DEF Init, Installed
<1>3. [t \in Tasks |-> Due(t)] = [t \in Tasks |-> {}]
  BY <1>2 DEF Due
<1>4. UNION {rung[n] : n \in 1 .. MaxNesting} = {}
  BY DEF Init
<1>. QED BY <1>1, <1>2, <1>3, <1>4 DEF Promise!Init

\* Only the task concerned is installed, removed, set or rings.
LEMMA InsTimeAlarms ==
  ASSUME TMInv, NEW t \in Tasks, NEW trap \in Traps, InsTime(t, trap),
         UNCHANGED <<now, scan, rung>>
  PROVE  Promise!Install(t) \/ Promise!SetRelative(t)
<1>0. in_use \subseteq Slots /\ active \subseteq Tasks /\ task \in [Slots -> Tasks \cup {None}]
  BY DEF TMInv, TypeOK
<1>1. /\ active' = active \ {t}
      /\ extended' \in {extended \cup {t}, extended \ {t}}
      /\ UNCHANGED <<wakeup, scheduled>>
  BY DEF InsTime, SetType
<1>2. Promise!Relative(t)
  BY <1>1 DEF Promise!Relative
<1>3. UNION {rung[n] : n \in 1 .. MaxNesting}' = UNION {rung[n] : n \in 1 .. MaxNesting}
  OBVIOUS
<1>4. Due(t)' = {}
  BY <1>1 DEF Due
<1>5. CASE Found(t) # {} \/ Free = {}
  <2>1. UNCHANGED <<in_use, task>>
    BY <1>5 DEF InsTime, alloc_desc
  <2>2. Installed' = Installed /\ \A u : Found(u)' = Found(u)
    BY <2>1 DEF Installed, Found
  <2>3. \A u \in Tasks \ {t} : Due(u)' = Due(u)
    BY <1>0, <1>1, <2>2, DueKept
  <2>4. CASE Found(t) # {}
    <3>1. t \in Installed
      BY <2>4 DEF Installed, Found
    <3>. QED BY <1>2, <1>4, <2>2, <2>3, <3>1 DEF Promise!Install
  <2>5. CASE Found(t) = {}
    <3>1. t \notin Installed
      BY <2>5 DEF Installed, Found
    <3>2. Due(t) = {}
      BY <3>1 DEF Due
    <3>. QED BY <1>2, <1>4, <2>2, <2>3, <3>2 DEF Promise!SetRelative
  <2>. QED BY <2>4, <2>5
<1>6. CASE Found(t) = {} /\ Free # {}
  <2>. DEFINE f == First(Free)
  <2>0. f \in Slots /\ f \notin in_use
    BY <1>6, AllocDesc
  <2>1. in_use' = in_use \cup {f} /\ task' = [task EXCEPT ![f] = t]
    BY <1>6 DEF InsTime, alloc_desc
  <2>. HIDE DEF f
  <2>2. task'[f] = t /\ \A i \in in_use : task'[i] = task[i]
    BY <1>0, <2>0, <2>1
  <2>3. Installed' = Installed \cup {t}
    BY <2>1, <2>2 DEF Installed
  <2>4. \A u \in Tasks \ {t} : Found(u)' = Found(u)
    BY <2>1, <2>2 DEF Found
  <2>5. \A u \in Tasks \ {t} : Due(u)' = Due(u)
    BY <1>0, <1>1, <2>4, DueKept
  <2>. QED BY <1>2, <1>4, <2>3, <2>5 DEF Promise!Install
<1>. QED BY <1>5, <1>6
LEMMA RmvTimeAlarms ==
  ASSUME TMInv, NEW t \in Tasks, RmvTime(t), UNCHANGED <<now, scan, rung>>
  PROVE  Promise!Remove(t) \/ UNCHANGED Promise!vars
<1>0. /\ in_use \subseteq Slots
      /\ \A i, j \in in_use : task[i] = task[j] => i = j
      /\ UNCHANGED <<task, wakeup, extended, scheduled>>
  BY DEF TMInv, TypeOK, OneDescriptor, RmvTime
<1>1. UNION {rung[n] : n \in 1 .. MaxNesting}' = UNION {rung[n] : n \in 1 .. MaxNesting}
  OBVIOUS
<1>2. CASE Found(t) = {}
  <2>1. UNCHANGED <<in_use, active>>
    BY <1>2 DEF RmvTime
  <2>2. Installed' = Installed /\ \A u : Found(u)' = Found(u)
    BY <1>0, <2>1 DEF Installed, Found
  <2>3. \A u \in Tasks : Due(u)' = Due(u)
    BY <1>0, <2>1, <2>2, DueKept
  <2>. QED BY <1>0, <1>1, <2>2, <2>3 DEF Promise!vars
<1>3. CASE Found(t) # {}
  <2>1. find_desc(t) \in in_use /\ task[find_desc(t)] = t
    BY <1>0, <1>3, FindDesc
  <2>2. in_use' = in_use \ {find_desc(t)} /\ active' = active \ {t}
    BY <1>3 DEF RmvTime, free_desc
  <2>3. Installed' = Installed \ {t}
    BY <1>0, <2>1, <2>2 DEF Installed
  <2>4. \A u \in Tasks \ {t} : Found(u)' = Found(u)
    BY <1>0, <2>1, <2>2 DEF Found
  <2>5. \A u \in Tasks \ {t} : Due(u)' = Due(u)
    BY <1>0, <2>2, <2>4, DueKept
  <2>6. Due(t)' = {}
    BY <2>2 DEF Due
  <2>. QED BY <1>0, <1>1, <2>3, <2>5, <2>6 DEF Promise!Remove
<1>. QED BY <1>2, <1>3

\* PrimeTime() sets the alarm for now and the delay; relative to the last time if
\* the task is extended and has been scheduled.
LEMMA PrimeTimeAlarms ==
  ASSUME TMInv, NEW t \in Tasks, NEW d \in Delays, PrimeTime(t, d), UNCHANGED <<now, scan, rung>>
  PROVE  Promise!Set(t, Duration(d)) \/ UNCHANGED Promise!vars
<1>0. /\ in_use \subseteq Slots /\ wakeup \in [Slots -> HostTimes] /\ now \in HostTimes
      /\ UNCHANGED <<in_use, task, extended>>
  BY DEF TMInv, TypeOK, PrimeTime
<1>1. UNION {rung[n] : n \in 1 .. MaxNesting}' = UNION {rung[n] : n \in 1 .. MaxNesting}
  OBVIOUS
<1>2. Installed' = Installed /\ \A u : Found(u)' = Found(u)
  BY <1>0 DEF Installed, Found
<1>3. CASE Found(t) = {}
  <2>1. UNCHANGED <<wakeup, active, scheduled>>
    BY <1>3 DEF PrimeTime
  <2>2. \A u \in Tasks : Due(u)' = Due(u)
    BY <1>0, <1>2, <2>1, DueKept
  <2>. QED BY <1>0, <1>1, <1>2, <2>1, <2>2 DEF Promise!vars
<1>4. CASE Found(t) # {}
  <2>. DEFINE w == Wakeup(t, d)
  <2>1. find_desc(t) \in Slots /\ task[find_desc(t)] = t /\ t \in Installed
    BY <1>0, <1>4, FindDesc DEF Found, Installed
  <2>2. /\ Usecs(w) <= MaxTime
        /\ wakeup' = [wakeup EXCEPT ![find_desc(t)] = w]
        /\ active' = active \cup {t}
        /\ scheduled' = IF t \in extended THEN scheduled \cup {t} ELSE scheduled
    BY <1>4 DEF PrimeTime
  <2>3. timer_mac2host_time(d) \in HostTimes /\ Usecs(timer_mac2host_time(d)) = Duration(d)
    BY MacToHost, ConstantsAssumption
  <2>4. w \in HostTimes /\ (t \notin extended \cap scheduled => Usecs(w) = Usecs(now) + Duration(d))
    BY <1>0, <2>1, <2>3, AddTime DEF Wakeup
  <2>5. Usecs(w) \in Times
    <3>1. Usecs(w) \in Nat
      BY <2>4, UsecsType
    <3>. QED BY <2>2, <3>1, ConstantsAssumption DEF Times
  <2>. HIDE DEF w
  <2>6. \A u \in Tasks \ {t} : Due(u)' = Due(u)
    <3>. SUFFICES ASSUME NEW u \in Tasks \ {t} PROVE Due(u)' = Due(u)
      OBVIOUS
    <3>1. \A i \in Found(u) : wakeup'[i] = wakeup[i]
      BY <1>0, <2>1, <2>2 DEF Found
    <3>. QED BY <1>0, <1>2, <2>2, <3>1, DueKept
  <2>7. Due(t)' = {Usecs(w)}
    <3>1. find_desc(t)' = find_desc(t)
      BY <1>2 DEF find_desc
    <3>2. wakeup'[find_desc(t)] = w
      BY <1>0, <2>1, <2>2
    <3>. QED BY <1>2, <2>1, <2>2, <3>1, <3>2 DEF Due
  <2>8. Promise!Relative(t)
    BY <1>0, <2>2 DEF Promise!Relative
  <2>9. [u \in Tasks |-> Due(u)]' = [[u \in Tasks |-> Due(u)] EXCEPT ![t] = {Usecs(w)}]
    BY <2>6, <2>7
  <2>10. UNCHANGED <<Usecs(now), Installed, UNION {rung[n] : n \in 1 .. MaxNesting}>>
    BY <1>1, <1>2
  <2>. QED BY <2>1, <2>4, <2>5, <2>8, <2>9, <2>10 DEF Promise!Set
<1>. QED BY <1>3, <1>4
\* Where no routine is called and no call made, the alarms stay as they are.
LEMMA AlarmsKept ==
  ASSUME TMInv, UNCHANGED <<desc, active>>
  PROVE  Installed' = Installed /\ \A u \in Tasks : Due(u)' = Due(u)
<1>1. in_use \subseteq Slots
  BY DEF TMInv, TypeOK
<1>2. UNCHANGED <<in_use, task, wakeup, active>>
  BY DEF desc
<1>3. Installed' = Installed /\ \A u : Found(u)' = Found(u)
  BY <1>2 DEF Installed, Found
<1>. QED BY <1>1, <1>2, <1>3, DueKept

\* The routine called is that of a task whose alarm was set for a time that has
\* passed, and silences it.
LEMMA CallAlarms ==
  ASSUME TMInv, Past, Call
  PROVE  \E t \in Tasks : Promise!Ring(t)
<1>. PICK i, t : i = Head(scan).i /\ t = task[i]
  OBVIOUS
<1>0. /\ scan # <<>> /\ i \in in_use /\ t \in active
      /\ timer_cmp_time(wakeup[i], Head(scan).now) < 0
      /\ active' = active \ {t} /\ rung' = [rung EXCEPT ![Nesting] = @ \cup {t}]
      /\ UNCHANGED <<desc, extended, scheduled, now>>
  BY DEF Call, Scanning, Expired
<1>1. /\ in_use \subseteq Slots /\ wakeup \in [Slots -> HostTimes] /\ now \in HostTimes
      /\ active \subseteq Tasks /\ rung \in [1 .. MaxNesting -> SUBSET Tasks]
      /\ \A j, k \in in_use : task[j] = task[k] => j = k
  BY DEF TMInv, TypeOK, OneDescriptor
<1>2. Head(scan) \in BegunFrames
  BY <1>0, HeadTailProperties DEF Past
<1>3. Nesting \in 1 .. MaxNesting
  BY <1>0, HeadFrame DEF TMInv
<1>4. Usecs(wakeup[i]) < Usecs(now)
  <2>1. wakeup[i] \in HostTimes /\ Head(scan).now \in HostTimes
        /\ Usecs(Head(scan).now) <= Usecs(now)
    BY <1>0, <1>1, <1>2 DEF BegunFrames, Frames
  <2>2. Usecs(wakeup[i]) < Usecs(Head(scan).now)
    BY <1>0, <2>1, CmpTime
  <2>3. Usecs(wakeup[i]) \in Nat /\ Usecs(Head(scan).now) \in Nat /\ Usecs(now) \in Nat
    BY <1>1, <2>1, UsecsType
  <2>. QED BY <2>1, <2>2, <2>3
<1>5. t \in Tasks /\ task[i] = t
  BY <1>0, <1>1
<1>6. t \in Installed /\ find_desc(t) = i
  <2>1. Found(t) # {} /\ t \in Installed
    BY <1>0, <1>5 DEF Found, Installed
  <2>2. find_desc(t) \in in_use /\ task[find_desc(t)] = t
    BY <1>1, <2>1, FindDesc
  <2>. QED BY <1>0, <1>1, <1>5, <2>1, <2>2
<1>7. Due(t) = {Usecs(wakeup[i])} /\ Due(t)' = {}
  BY <1>0, <1>6 DEF Due
<1>8. Installed' = Installed /\ \A u \in Tasks \ {t} : Due(u)' = Due(u)
  <2>1. UNCHANGED <<in_use, task, wakeup>>
    BY <1>0 DEF desc
  <2>2. Installed' = Installed /\ \A u : Found(u)' = Found(u)
    BY <2>1 DEF Installed, Found
  <2>. QED BY <1>0, <1>1, <2>1, <2>2, DueKept
<1>9. UNION {rung[n] : n \in 1 .. MaxNesting}' =
        (UNION {rung[n] : n \in 1 .. MaxNesting}) \cup {t}
  <2>1. rung'[Nesting] = rung[Nesting] \cup {t}
        /\ \A n \in 1 .. MaxNesting : n # Nesting => rung'[n] = rung[n]
    BY <1>0, <1>1, <1>3
  <2>. QED BY <1>3, <2>1
<1>10. Promise!Ring(t)
  BY <1>0, <1>4, <1>5, <1>7, <1>8, <1>9 DEF Promise!Ring
<1>. QED BY <1>5, <1>10

\* Every step is one of Alarms, or changes nothing there.
LEMMA StepAlarms == TMInv /\ Past /\ [Next]_vars => [Promise!Next]_(Promise!vars)
<1>. SUFFICES ASSUME TMInv, Past, [Next]_vars PROVE Promise!Next \/ UNCHANGED Promise!vars
  OBVIOUS
<1>0. TypeOK
  BY DEF TMInv
<1>1. CASE Program
  <2>0. UNCHANGED <<now, scan, rung>>
    BY <1>1 DEF Program
  <2>1. ASSUME NEW t \in Tasks, NEW trap \in Traps, InsTime(t, trap) PROVE Promise!Next
    BY <2>0, <2>1, InsTimeAlarms DEF Promise!Next
  <2>2. ASSUME NEW t \in Tasks, RmvTime(t) PROVE Promise!Next \/ UNCHANGED Promise!vars
    BY <2>0, <2>2, RmvTimeAlarms DEF Promise!Next
  <2>3. ASSUME NEW t \in Tasks, NEW d \in Delays, PrimeTime(t, d)
        PROVE  Promise!Next \/ UNCHANGED Promise!vars
    BY <2>0, <2>3, PrimeTimeAlarms DEF Promise!Next
  <2>4. ASSUME NEW t \in Tasks, ClearWakeUp(t) PROVE Promise!Next
    <3>1. Promise!Relative(t) /\ UNCHANGED <<desc, active, now, rung>>
      BY <2>0, <2>4 DEF ClearWakeUp, Promise!Relative
    <3>2. Installed' = Installed /\ \A u \in Tasks : Due(u)' = Due(u)
      BY <3>1, AlarmsKept
    <3>3. Promise!SetRelative(t)
      BY <3>1, <3>2 DEF Promise!SetRelative
    <3>. QED BY <3>3 DEF Promise!Next
  <2>. QED BY <1>1, <2>1, <2>2, <2>3, <2>4 DEF Program
<1>2. CASE TimerReset
  <2>1. Installed' = {} /\ UNCHANGED <<now, extended, scheduled, rung>>
    BY <1>2 DEF TimerReset, Installed, tm
  <2>2. \A t \in Tasks : Due(t)' = {}
    BY <2>1 DEF Due
  <2>3. Promise!Reset
    BY <2>1, <2>2 DEF Promise!Reset
  <2>. QED BY <2>3 DEF Promise!Next
<1>3. CASE Tick
  <2>1. UNCHANGED <<desc, tm, rung>> /\ UNCHANGED <<active, extended, scheduled>>
    BY <1>3 DEF Tick, tm
  <2>2. Installed' = Installed /\ \A u \in Tasks : Due(u)' = Due(u)
    <3>1. in_use \subseteq Slots /\ UNCHANGED <<in_use, task, wakeup, active>>
      BY <1>0, <2>1 DEF TypeOK, desc
    <3>2. Installed' = Installed /\ \A u : Found(u)' = Found(u)
      BY <3>1 DEF Installed, Found
    <3>. QED BY <3>1, <3>2, DueKept
  <2>3. Usecs(now)' \in {time \in Times : time > Usecs(now)}
    <3>1. Usecs(now) \in Nat
      BY <1>0, UsecsType DEF TypeOK
    <3>2. Usecs(now) + Step \in Times /\ Usecs(now) + Step > Usecs(now)
      BY <1>3, <3>1, ConstantsAssumption DEF Tick, Times
    <3>3. Usecs(now') = Usecs(now) + Step
      BY <1>3, <3>2, HostTimeType DEF Tick, Times
    <3>. QED BY <3>2, <3>3
  <2>4. Promise!Tick
    BY <2>1, <2>2, <2>3 DEF Promise!Tick
  <2>. QED BY <2>4 DEF Promise!Next
<1>4. CASE TimerInterrupt \/ Skip \/ Return \/ UNCHANGED vars
  <2>1. UNCHANGED <<desc, tm, now, rung>>
    BY <1>4 DEF TimerInterrupt, Skip, Return, vars
  <2>2. Installed' = Installed /\ \A u \in Tasks : Due(u)' = Due(u)
    BY <2>1, AlarmsKept DEF tm
  <2>3. UNCHANGED Promise!vars
    BY <2>1, <2>2 DEF Promise!vars, tm
  <2>. QED BY <2>3
<1>5. CASE Call
  BY <1>5, CallAlarms DEF Promise!Next
<1>6. CASE EndInterrupt
  <2>1. UNCHANGED <<desc, tm, now>> /\ rung' = [rung EXCEPT ![Nesting] = {}]
    BY <1>6 DEF EndInterrupt
  <2>2. Installed' = Installed /\ \A u \in Tasks : Due(u)' = Due(u)
    BY <2>1, AlarmsKept DEF tm
  <2>3. \A n \in 1 .. MaxNesting : rung'[n] \subseteq rung[n]
    BY <1>0, <2>1 DEF TypeOK
  <2>4. UNION {rung[n] : n \in 1 .. MaxNesting}' \in SUBSET UNION {rung[n] : n \in 1 .. MaxNesting}
    BY <2>3
  <2>5. Promise!Forget
    BY <2>1, <2>2, <2>4 DEF Promise!Forget, tm
  <2>. QED BY <2>5 DEF Promise!Next
<1>. QED BY <1>1, <1>2, <1>3, <1>4, <1>5, <1>6 DEF Next
\* The activations' times have passed: they are copies of the clock, which only
\* goes on.
LEMMA PastStep == TMInv /\ Past /\ [Next]_vars => Past'
<1>. SUFFICES ASSUME TMInv, Past, [Next]_vars PROVE Past'
  OBVIOUS
<1>0. now \in HostTimes /\ TypeOK
  BY DEF TMInv, TypeOK
<1>1. CASE Tick
  <2>1. Usecs(now) \in Nat
    BY <1>0, UsecsType
  <2>2. Usecs(now') = Usecs(now) + Step /\ scan' = scan
    BY <1>1, <2>1, HostTimeType, ConstantsAssumption DEF Tick
  <2>3. BegunFrames \subseteq BegunFrames'
    <3>. SUFFICES ASSUME NEW f \in BegunFrames PROVE Usecs(f.now) <= Usecs(now')
      BY DEF BegunFrames
    <3>1. Usecs(f.now) \in Nat /\ Usecs(f.now) <= Usecs(now)
      BY UsecsType DEF BegunFrames, Frames
    <3>. QED BY <2>1, <2>2, <3>1, ConstantsAssumption
  <2>. QED BY <2>2, <2>3 DEF Past
<1>2. CASE now' = now /\ scan' = scan
  BY <1>2 DEF Past, BegunFrames
<1>3. CASE TimerInterrupt
  <2>. DEFINE frame == [i |-> 1, now |-> now, calling |-> FALSE]
  <2>1. frame \in BegunFrames
    <3>1. Usecs(now) \in Nat
      BY <1>0, UsecsType
    <3>2. frame \in Frames
      BY <1>0, ConstantsAssumption DEF Frames
    <3>. QED BY <3>1, <3>2 DEF BegunFrames
  <2>2. scan' = <<frame>> \o scan /\ now' = now
    BY <1>3 DEF TimerInterrupt
  <2>. HIDE DEF frame
  <2>3. scan' \in Seq(BegunFrames)
    <3>1. <<frame>> \in Seq(BegunFrames)
      BY <2>1
    <3>. QED BY <2>2, <3>1, ConcatProperties DEF Past
  <2>. QED BY <2>2, <2>3 DEF Past, BegunFrames
<1>4. CASE Skip \/ Call \/ Return
  <2>1. PICK j \in 1 .. NUM_DESCS + 1, c \in BOOLEAN :
          Loop(j, c) /\ (c => j <= NUM_DESCS) /\ scan # <<>>
    <3>1. scan # <<>> /\ now' = now
      BY <1>4 DEF Skip, Call, Return, Scanning
    <3>2. Head(scan).i \in 1 .. NUM_DESCS + 1
          /\ (Head(scan).i <= NUM_DESCS => Head(scan).i + 1 \in 1 .. NUM_DESCS + 1)
      BY <1>0, <3>1, HeadFrame, ConstantsAssumption
    <3>3. CASE Skip
      BY <3>1, <3>2, <3>3 DEF Skip, Scanning
    <3>4. CASE Return
      <4>1. Head(scan).i <= NUM_DESCS
        BY <1>0, <3>1, <3>4, HeadFrame DEF Return
      <4>. QED BY <3>1, <3>2, <3>4, <4>1 DEF Return
    <3>5. CASE Call
      BY <3>1, <3>2, <3>5 DEF Call, Scanning
    <3>. QED BY <1>4, <3>3, <3>4, <3>5
  <2>2. now' = now
    BY <1>4 DEF Skip, Call, Return
  <2>3. Head(scan) \in BegunFrames /\ Tail(scan) \in Seq(BegunFrames)
    BY <2>1, HeadTailProperties DEF Past
  <2>. DEFINE frame == [i |-> j, now |-> Head(scan).now, calling |-> c]
  <2>4. frame \in BegunFrames
    BY <2>1, <2>3 DEF BegunFrames, Frames
  <2>5. scan' = <<frame>> \o Tail(scan)
    BY <2>1 DEF Loop
  <2>. HIDE DEF frame
  <2>6. scan' \in Seq(BegunFrames)
    <3>1. <<frame>> \in Seq(BegunFrames)
      BY <2>4
    <3>. QED BY <2>3, <2>5, <3>1, ConcatProperties
  <2>. QED BY <2>2, <2>6 DEF Past, BegunFrames
<1>5. CASE EndInterrupt
  <2>1. scan # <<>> /\ scan' = Tail(scan) /\ now' = now
    BY <1>5 DEF EndInterrupt
  <2>2. scan' \in Seq(BegunFrames)
    BY <2>1, HeadTailProperties DEF Past
  <2>. QED BY <2>1, <2>2 DEF Past, BegunFrames
<1>6. Program \/ TimerReset \/ UNCHANGED vars => now' = now /\ scan' = scan
  BY DEF Program, TimerReset, vars
<1>. QED BY <1>1, <1>2, <1>3, <1>4, <1>5, <1>6 DEF Next

\* The Time Manager implements Alarms, for any tasks, delays, tables, clocks and
\* nesting of interrupts: each alarm that is set rings once, not before its time
\* and not after it has been removed or set anew, and nothing else rings, though
\* descriptors are freed and used again under TimerInterrupt()'s loop.
THEOREM ImplementsAlarms == Spec => KeepsPromise
<1>1. Init => Past
  BY EmptySeq DEF Init, Past
<1>2. Spec => [](TMInv /\ Past)
  BY <1>1, TMInvariant, PastStep, PTL DEF Spec
<1>3. QED
  BY <1>2, InitAlarms, StepAlarms, PTL DEF Spec, KeepsPromise, Promise!Spec
=============================================================================
