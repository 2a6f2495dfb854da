---------------------------- MODULE TimeManager -----------------------------
(***************************************************************************)
(* The Time Manager of timer.cpp: the descriptor table behind InsTime(),   *)
(* PrimeTime() and RmvTime(), and TimerInterrupt(), which calls the        *)
(* routines of the tasks that have expired.  A routine is 68k code: it may *)
(* call the Time Manager itself while TimerInterrupt() is in its loop, and *)
(* if it unmasks level 1 it may be interrupted by another TimerInterrupt().*)
(* All of this runs on the CPU thread; only the clock runs beside it.      *)
(***************************************************************************)
EXTENDS HostClock, Sequences

CONSTANTS
  Tasks,       \* Mac addresses of TMTask records
  Callable,    \* those with a routine (tmAddr # 0)
  Traps,       \* the traps used to insert one: "InsTime", "InsXTime"
  Delays,      \* the delays given to PrimeTime()
  Start, Step, \* bound: the host's time at first and its steps, in microseconds
  NUM_DESCS,
  MaxTime,     \* bound: the clock, and the times tasks are scheduled for, likewise
  MaxNesting   \* bound: activations of TimerInterrupt()

ASSUME ConstantsAssumption ==
  /\ Callable \subseteq Tasks
  /\ Traps \subseteq {"InsTime", "InsXTime"}
  /\ Delays \subseteq MacTimes
  /\ NUM_DESCS \in Nat \ {0}
  /\ Start \in 0 .. MaxTime /\ Step \in Nat \ {0} /\ MaxTime \in Nat /\ MaxNesting \in Nat
  /\ "none" \notin Tasks

VARIABLES
  in_use,     \* the descriptors in use
  task,       \* task[i]: the task of descriptor i
  wakeup,     \* wakeup[i]: when that task is scheduled
  active,     \* the tasks with bit 15 of qType set in their TMTask record
  extended,   \* those with bit 14 set
  scheduled,  \* those whose tmWakeUp is not 0
  tmCount,    \* tmCount[t]: the delay that was left when t was removed
  now,        \* timer_current_time()
  scan,       \* the activations of TimerInterrupt(), the innermost first: the
              \* index and the time in its loop, and whether it runs a routine
  wanted,     \* history: the tasks the program has inserted and not removed
  refused,    \* history: those of them for which the table was full
  rung        \* history: rung[n]: the tasks activation n has called

desc == <<in_use, task, wakeup>>
tm   == <<active, extended, scheduled, tmCount>>
vars == <<desc, tm, now, scan, wanted, refused, rung>>

Slots == 1 .. NUM_DESCS
None  == "none"

Init ==
  /\ in_use = {}
  /\ task = [i \in Slots |-> None]
  /\ wakeup = [i \in Slots |-> HostTime(0)]
  /\ active = {} /\ extended = {} /\ scheduled = {}
  /\ tmCount = [t \in Tasks |-> 0]
  /\ now = HostTime(Start)
  /\ scan = <<>>
  /\ wanted = {}
  /\ refused = {}
  /\ rung = [n \in 1 .. MaxNesting |-> {}]

-----------------------------------------------------------------------------
(* The descriptor table.                                                   *)

First(S) == CHOOSE i \in S : \A j \in S : i <= j

\* Mutated form: a descriptor that was freed is found as well.
Found_Freed(t) == {i \in Slots : task[i] = t}

Found(t) == {i \in in_use : task[i] = t}

find_desc(t) == First(Found(t))

Free == Slots \ in_use

\* A table that is full stays as it is.
alloc_desc(t) ==
  IF Free = {}
    THEN UNCHANGED <<in_use, task>>
    ELSE /\ in_use' = in_use \cup {First(Free)}
         /\ task' = [task EXCEPT ![First(Free)] = t]

free_desc(i) == in_use' = in_use \ {i}

-----------------------------------------------------------------------------
(* The traps, called by the program or by a task's routine.                *)

\* 68k code runs unless TimerInterrupt() itself does.
Running68k == scan # <<>> => Head(scan).calling

\* qType: the task is inactive, and extended if InsXTime() was called.
SetType(t, trap) ==
  /\ active' = active \ {t}
  /\ extended' = IF trap = "InsXTime" THEN extended \cup {t} ELSE extended \ {t}

Wanted(t, full) ==
  /\ wanted' = wanted \cup {t}
  /\ refused' = IF full THEN refused \cup {t} ELSE refused \ {t}

\* Mutated form: the task gets a descriptor though it has one.
InsTime_Again(t, trap) ==
  /\ SetType(t, trap)
  /\ alloc_desc(t)
  /\ Wanted(t, Free = {})
  /\ UNCHANGED <<wakeup, scheduled, tmCount>>

\* Without a free descriptor nothing but the host's console tells.
InsTime(t, trap) ==
  /\ SetType(t, trap)
  /\ IF Found(t) = {} THEN alloc_desc(t) ELSE UNCHANGED <<in_use, task>>
  /\ Wanted(t, Found(t) = {} /\ Free = {})
  /\ UNCHANGED <<wakeup, scheduled, tmCount>>

\* Of a time that has passed nothing is left.
Remaining(i) == timer_host2mac_time(timer_sub_time(wakeup[i], now))

RmvTime(t) ==
  /\ wanted' = wanted \ {t} /\ refused' = refused \ {t}
  /\ IF Found(t) = {}
       THEN UNCHANGED <<in_use, active, tmCount>>
       ELSE /\ active' = active \ {t}
            /\ tmCount' = [tmCount EXCEPT
                 ![t] = IF t \in active THEN Remaining(find_desc(t)) ELSE 0]
            /\ free_desc(find_desc(t))
  /\ UNCHANGED <<task, wakeup, extended, scheduled>>

\* An extended task that was scheduled before is scheduled relative to that.
Wakeup(t, d) ==
  timer_add_time(IF t \in extended \cap scheduled THEN wakeup[find_desc(t)] ELSE now,
                 timer_mac2host_time(d))

PrimeTime(t, d) ==
  /\ IF Found(t) = {}
       THEN UNCHANGED <<wakeup, active, scheduled>>
       ELSE /\ Usecs(Wakeup(t, d)) <= MaxTime
            /\ wakeup' = [wakeup EXCEPT ![find_desc(t)] = Wakeup(t, d)]
            /\ active' = active \cup {t}
            /\ scheduled' = IF t \in extended THEN scheduled \cup {t} ELSE scheduled
  /\ UNCHANGED <<in_use, task, extended, tmCount, wanted, refused>>

\* The program clears the tmWakeUp of a task it has not inserted.
ClearWakeUp(t) ==
  /\ t \notin wanted
  /\ scheduled' = scheduled \ {t}
  /\ UNCHANGED <<desc, active, extended, tmCount, wanted, refused>>

Program ==
  /\ Running68k
  /\ \E t \in Tasks :
       \/ \E trap \in Traps : InsTime(t, trap)
       \/ RmvTime(t)
       \/ \E d \in Delays : PrimeTime(t, d)
       \/ ClearWakeUp(t)
  /\ UNCHANGED <<now, scan, rung>>

\* The emulated Mac is reset, and with it the program; memory stays as it is.
TimerReset ==
  /\ scan = <<>>
  /\ in_use' = {}
  /\ wanted' = {} /\ refused' = {}
  /\ UNCHANGED <<task, wakeup, tm, now, scan, rung>>

-----------------------------------------------------------------------------
(* TimerInterrupt().                                                       *)

Nesting == Len(scan)

\* Called for a 60Hz interrupt; the loop compares with the time it started.
TimerInterrupt ==
  /\ Running68k
  /\ Nesting < MaxNesting
  /\ scan' = <<[i |-> 1, now |-> now, calling |-> FALSE]>> \o scan
  /\ UNCHANGED <<desc, tm, now, wanted, refused, rung>>

Loop(i, calling) ==
  scan' = <<[i |-> i, now |-> Head(scan).now, calling |-> calling]>> \o Tail(scan)

\* Mutated form: a descriptor that was freed is not told from one in use.
Expired_Freed(i, time) == task[i] \in active /\ timer_cmp_time(wakeup[i], time) < 0

\* The task of descriptor i is active and has expired.
Expired(i, time) ==
  i \in in_use /\ task[i] \in active /\ timer_cmp_time(wakeup[i], time) < 0

\* Mutated form: off by one at the end of the table.
Scanning_PastEnd == scan # <<>> /\ ~Head(scan).calling /\ Head(scan).i <= NUM_DESCS + 1

Scanning == scan # <<>> /\ ~Head(scan).calling /\ Head(scan).i <= NUM_DESCS

Skip ==
  /\ Scanning
  /\ ~Expired(Head(scan).i, Head(scan).now)
  /\ Loop(Head(scan).i + 1, FALSE)
  /\ UNCHANGED <<desc, tm, now, wanted, refused, rung>>

\* Execute68k() of the task's routine, if it has one.
Call ==
  /\ Scanning
  /\ Expired(Head(scan).i, Head(scan).now)
  /\ active' = active \ {task[Head(scan).i]}
  /\ rung' = [rung EXCEPT ![Nesting] = @ \cup {task[Head(scan).i]}]
  /\ IF task[Head(scan).i] \in Callable
       THEN Loop(Head(scan).i, TRUE)
       ELSE Loop(Head(scan).i + 1, FALSE)
  /\ UNCHANGED <<desc, extended, scheduled, tmCount, now, wanted, refused>>

\* Mutated form: the loop ends with the first task it calls.
Return_Break ==
  /\ scan # <<>> /\ Head(scan).calling
  /\ Loop(NUM_DESCS + 1, FALSE)
  /\ UNCHANGED <<desc, tm, now, wanted, refused, rung>>

\* The routine returns.
Return ==
  /\ scan # <<>> /\ Head(scan).calling
  /\ Loop(Head(scan).i + 1, FALSE)
  /\ UNCHANGED <<desc, tm, now, wanted, refused, rung>>

EndInterrupt ==
  /\ scan # <<>> /\ Head(scan).i > NUM_DESCS
  /\ scan' = Tail(scan)
  /\ rung' = [rung EXCEPT ![Nesting] = {}]
  /\ UNCHANGED <<desc, tm, now, wanted, refused>>

Tick ==
  /\ Usecs(now) + Step <= MaxTime
  /\ now' = HostTime(Usecs(now) + Step)
  /\ UNCHANGED <<desc, tm, scan, wanted, refused, rung>>

Next ==
  \/ Program \/ TimerReset \/ Tick
  \/ TimerInterrupt \/ Skip \/ Call \/ Return \/ EndInterrupt

Spec == Init /\ [][Next]_vars

\* The 60Hz thread keeps raising its interrupt and the CPU thread takes it
\* when 68k code runs; a task's routine returns.
Fairness ==
  /\ WF_vars(TimerInterrupt) /\ WF_vars(Skip) /\ WF_vars(Call) /\ WF_vars(EndInterrupt)
  /\ SF_vars(Return)

FairSpec == Spec /\ Fairness

-----------------------------------------------------------------------------
(* Properties.                                                             *)

Times == 0 .. MaxTime

\* It is never past the end of the table while it calls a routine.
Frames == {f \in [i : 1 .. NUM_DESCS + 1, now : HostTimes, calling : BOOLEAN] :
             f.calling => f.i <= NUM_DESCS}

\* The type of every variable.
TypeOK ==
  /\ in_use \subseteq Slots
  /\ task \in [Slots -> Tasks \cup {None}]
  /\ wakeup \in [Slots -> HostTimes]
  /\ active \subseteq Tasks /\ extended \subseteq Tasks /\ scheduled \subseteq Tasks
  /\ tmCount \in [Tasks -> -INT_MAX - 1 .. INT_MAX]
  /\ now \in HostTimes
  /\ scan \in Seq(Frames) /\ Len(scan) <= MaxNesting
  /\ wanted \subseteq Tasks
  /\ refused \subseteq wanted
  /\ rung \in [1 .. MaxNesting -> SUBSET Tasks]

Installed == {task[i] : i \in in_use}

\* A task has one descriptor at most, and none once it has been removed: a
\* second one would survive RmvTime() and ring after it.
OneDescriptor ==
  /\ \A i, j \in in_use : task[i] = task[j] => i = j
  /\ Installed \subseteq wanted

\* Every task the program has inserted has a descriptor, however the calls of
\* InsTime() and RmvTime() and the resets are ordered, unless the table was full
\* when it was inserted, which InsTime() tells nobody.
AllInstalled == wanted \ refused \subseteq Installed

\* The Time Manager keeps the promise made in Alarms: a task rings once, after
\* the delay it was last primed with, and neither before nor after it has been
\* removed, though descriptors are reused while TimerInterrupt() runs.
Due(t) == IF t \in Installed \cap active THEN {Usecs(wakeup[find_desc(t)])} ELSE {}

Promise == INSTANCE Alarms WITH
  Delays <- {Duration(d) : d \in Delays},
  now <- Usecs(now),
  installed <- Installed,
  relative <- extended \cap scheduled,
  due <- [t \in Tasks |-> Due(t)],
  rung <- UNION {rung[n] : n \in 1 .. MaxNesting}

KeepsPromise == Promise!Spec

\* What RmvTime() says is left of a task's delay makes it ring when it would have
\* rung, if it is primed again with that at once: not later, and less than a
\* millisecond earlier; nothing is left if its time has come.  (Not so for times
\* left that do not fit in an int32 of milliseconds.)
Left(t) == Usecs(wakeup[find_desc(t)]) - Usecs(now)

Again(t) == Usecs(timer_mac2host_time(tmCount'[t]))

LeftToWait ==
  [][\A t \in Tasks :
       /\ t \in Installed \cap active /\ t \notin Installed' \cup active'
       /\ Left(t) <= INT_MAX * Milli
       => IF Left(t) <= 0 THEN Again(t) = 0 ELSE Left(t) - Again(t) \in 0 .. Milli - 1]_vars

\* A task that has expired is called, removed or primed again in the end.
Late(t) == \E i \in in_use : task[i] = t /\ t \in active /\ timer_cmp_time(wakeup[i], now) < 0

EventuallyRings == \A t \in Tasks : Late(t) ~> ~Late(t)
=============================================================================
