------------------------------- MODULE Alarms -------------------------------
(***************************************************************************)
(* What the Time Manager promises a program that uses InsTime, PrimeTime   *)
(* and RmvTime: each task installed has an alarm of its own, which rings   *)
(* once, after the time it was set for, unless it is cancelled or set      *)
(* again first.  What a relative alarm is set for is left open.            *)
(***************************************************************************)
EXTENDS Naturals

CONSTANTS Tasks, Delays, Times

VARIABLES
  now,        \* the clock
  installed,  \* the tasks installed
  relative,   \* the tasks whose alarm is set relative to the last time
  due,        \* due[t]: the time t's alarm is set for, if it is set
  rung        \* the tasks whose alarm has rung of late

vars == <<now, installed, relative, due, rung>>

Init ==
  /\ now \in Times
  /\ installed = {} /\ relative = {}
  /\ due = [t \in Tasks |-> {}]
  /\ rung = {}

\* The program may make its own alarm relative, or no longer so.
Relative(t) == relative' \in {relative, relative \cup {t}, relative \ {t}}

\* Installing a task again silences its alarm.
Install(t) ==
  /\ installed' = installed \cup {t}
  /\ due' = [due EXCEPT ![t] = {}]
  /\ Relative(t)
  /\ UNCHANGED <<now, rung>>

Set(t, d) ==
  /\ t \in installed
  /\ \E time \in Times :
       /\ t \notin relative => time = now + d
       /\ due' = [due EXCEPT ![t] = {time}]
  /\ Relative(t)
  /\ UNCHANGED <<now, installed, rung>>

Remove(t) ==
  /\ installed' = installed \ {t}
  /\ due' = [due EXCEPT ![t] = {}]
  /\ UNCHANGED <<now, relative, rung>>

SetRelative(t) ==
  /\ Relative(t)
  /\ UNCHANGED <<now, installed, due, rung>>

Ring(t) ==
  /\ \E time \in due[t] : time < now
  /\ due' = [due EXCEPT ![t] = {}]
  /\ rung' = rung \cup {t}
  /\ UNCHANGED <<now, installed, relative>>

Forget ==
  /\ rung' \in SUBSET rung
  /\ UNCHANGED <<now, installed, relative, due>>

Reset ==
  /\ installed' = {}
  /\ due' = [t \in Tasks |-> {}]
  /\ UNCHANGED <<now, relative, rung>>

Tick ==
  /\ now' \in {time \in Times : time > now}
  /\ UNCHANGED <<installed, relative, due, rung>>

Next ==
  \/ \E t \in Tasks : Install(t) \/ Remove(t) \/ Ring(t) \/ SetRelative(t) \/ \E d \in Delays : Set(t, d)
  \/ Forget \/ Reset \/ Tick

Spec == Init /\ [][Next]_vars
=============================================================================
