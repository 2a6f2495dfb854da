-------------------------- MODULE InterruptsProofs --------------------------
(***************************************************************************)
(* Theorems about Interrupts, for every set of devices and every bound.    *)
(***************************************************************************)
EXTENDS Interrupts, TLAPS

USE ConstantsAssumption

\* An update of spcflags a thread begins has the type of one.
LEMMA OpTypes ==
  ASSUME op \in [Threads -> OpType],
         NEW t \in Threads, NEW s \in SUBSET Spc, NEW c \in SUBSET Spc,
         Update(t, s, c)
  PROVE  op' \in [Threads -> OpType]
<1>1. [ph |-> "load", set |-> s, clr |-> c, val |-> {}] \in OpType
  BY DEF OpType
<1> QED
  BY <1>1 DEF Update

\* An update of spcflags leaves them a set of flags.
LEMMA SpcflagsType ==
  ASSUME spc \subseteq Spc, op \in [Threads -> OpType],
         NEW t \in Threads, Load(t) \/ Store(t) \/ LockedUpdate(t)
  PROVE  spc' \subseteq Spc /\ op' \in [Threads -> OpType]
<1>1. /\ op[t] \in OpType
      /\ op[t].set \subseteq Spc /\ op[t].val \subseteq Spc /\ op[t].clr \subseteq Spc
      /\ NoOp \in OpType
  BY DEF OpType, NoOp
<1>2. [op[t] EXCEPT !.ph = "store", !.val = spc] \in OpType
  BY <1>1 DEF OpType
<1>3. CASE Load(t)
  BY <1>2, <1>3 DEF Load
<1>4. CASE Store(t)
  BY <1>1, <1>4 DEF Store
<1>5. CASE LockedUpdate(t)
  BY <1>1, <1>5 DEF LockedUpdate
<1> QED
  BY <1>3, <1>4, <1>5

\* The same of the handlers entered and of the EMUL_OP being executed.
LEMMA HandlerTypes ==
  ASSUME handler \in [Depths -> HandlerType], NEW n \in Nat, NEW done \in BOOLEAN,
         SetHandler(n, done)
  PROVE  handler' \in [Depths -> HandlerType]
<1>1. [n |-> n, done |-> done] \in HandlerType
  BY DEF HandlerType
<1> QED
  BY <1>1 DEF SetHandler

LEMMA EmulOpTypes ==
  ASSUME emulop \in [Depths -> EmulOpType],
         NEW at \in {"none", "other", "test", "clear", "handle", "body", "end"},
         NEW i \in 1 .. 5, NEW m \in {0, 1}, SetEmulOp(at, i, m)
  PROVE  emulop' \in [Depths -> EmulOpType]
<1>1. [at |-> at, i |-> i, mask |-> m] \in EmulOpType
  BY DEF EmulOpType
<1> QED
  BY <1>1 DEF SetEmulOp

\* quit_program is only set inside a nested m68k_execute(), so leaving it
\* finds a caller to return to.
Typed == TypeOK /\ (quit => depth > 1)

\* Every variable keeps its type, and quit_program has a caller to return to.
LEMMA TypedAlways == Spec => []Typed
<1>1. Init => Typed
  <2> SUFFICES ASSUME Init PROVE Typed
    OBVIOUS
  <2>1. NoOp \in OpType /\ NoHandler \in HandlerType /\ NoEmulOp \in EmulOpType
    BY DEF OpType, HandlerType, NoOp, NoHandler, NoEmulOp, EmulOpType
  <2>2. /\ op \in [Threads -> OpType]
        /\ handler \in [Depths -> HandlerType]
        /\ emulop \in [Depths -> EmulOpType]
    BY <2>1 DEF Init
  <2>3. depth \in Depths /\ ticks \in 0 .. TicksPerSecond
    BY DEF Init, Depths
  <2>4. /\ flags \subseteq Flags /\ spc \subseteq Spc
        /\ todo \in [Devices -> SUBSET Flags] /\ trig \in [Devices -> BOOLEAN]
        /\ event \in [IOFlags -> BOOLEAN] /\ started \in BOOLEAN
        /\ mask \in {0, 1} /\ quit = FALSE /\ pc \in Places
    BY DEF Init, Places
  <2> QED
    BY <2>2, <2>3, <2>4 DEF Typed, TypeOK
<1>2. Typed /\ [Next]_vars => Typed'
  <2> SUFFICES ASSUME Typed, [Next]_vars PROVE Typed'
    OBVIOUS
  <2> USE DEF Typed, Threads, Devices
  <2>1. ASSUME NEW t \in Threads, Spcflags(t) PROVE Typed'
    <3>1. spc' \subseteq Spc /\ op' \in [Threads -> OpType]
      BY <2>1, SpcflagsType DEF Spcflags, TypeOK
    <3> QED
      BY <2>1, <3>1 DEF TypeOK, Spcflags
  <2>2. ASSUME NEW t \in Devices, SetInterruptFlag(t) PROVE Typed'
    <3>1. NextToRaise(t) \in Flags /\ todo[t] \ {NextToRaise(t)} \subseteq Flags
      BY <2>2 DEF SetInterruptFlag, NextToRaise, TypeOK, Flags
    <3> QED
      BY <2>2, <3>1 DEF TypeOK, SetInterruptFlag, cpuVars
  <2>3. ASSUME NEW t \in Devices, TriggerInterrupt(t) PROVE Typed'
    <3>1. op' \in [Threads -> OpType]
      BY <2>3, OpTypes DEF TriggerInterrupt, SPCFLAGS_SET, Spc, TypeOK
    <3> QED
      BY <2>3, <3>1 DEF TypeOK, TriggerInterrupt, cpuVars
  <2>4. ASSUME NEW f \in IOFlags, Complete(f) PROVE Typed'
    BY <2>4 DEF TypeOK, Complete, cpuVars, Flags
  <2>5. CASE one_tick
    BY <2>5 DEF TypeOK, one_tick, cpuVars, Flags
  <2>6. CASE SkipTick
    BY <2>6 DEF TypeOK, SkipTick, cpuVars
  <2>7. CASE Specialties
    <3> USE <2>7 DEF Specialties, deviceVars
    <3>1. op' \in [Threads -> OpType]
      <4>1. op' = op \/ \E s, c \in SUBSET Spc : Update("cpu", s, c)
        BY DEF TestSpcflags, TestStop, LevelInStop, TestDoint, Level, RaiseMask, ClearStop,
               TestInt, SetDoint, TestBrk, EndMakeFromSR, Interrupt, SPCFLAGS_SET,
               SPCFLAGS_CLEAR, ClearTrace, Spc
      <4> QED
        BY <4>1, OpTypes DEF TypeOK
    <3>2. pc' \in Places /\ mask' \in {0, 1}
      BY DEF TestSpcflags, TestStop, LevelInStop, TestDoint, Level, RaiseMask, ClearStop,
             TestInt, SetDoint, TestBrk, EndMakeFromSR, Interrupt, TypeOK, Places
    <3>3. handler' \in [Depths -> HandlerType]
      <4>1. handler[depth].n + 1 \in Nat
        BY DEF TypeOK, HandlerType
      <4>2. UNCHANGED handler \/ SetHandler(handler[depth].n + 1, FALSE)
        BY DEF TestSpcflags, TestStop, LevelInStop, TestDoint, Level, RaiseMask, ClearStop,
               TestInt, SetDoint, TestBrk, EndMakeFromSR, Interrupt
      <4> QED
        BY <4>1, <4>2, HandlerTypes DEF TypeOK
    <3> QED
      BY <3>1, <3>2, <3>3 DEF TypeOK
  <2>8. CASE LeaveDoExecute
    <3>1. UNCHANGED <<flags, spc, op, todo, trig, ticks, event, started, mask, emulop>>
          /\ pc' \in Places
      BY <2>8 DEF LeaveDoExecute, deviceVars, Places
    <3>2. CASE quit
      <4>1. depth' = depth - 1 /\ quit' = FALSE /\ SetHandler(0, TRUE)
        BY <2>8, <3>2 DEF LeaveDoExecute
      <4>2. depth \in 1 .. MaxDepth /\ depth > 1
        BY <3>2 DEF TypeOK, Depths
      <4>3. depth' \in Depths
        BY <4>1, <4>2 DEF Depths
      <4>4. handler' \in [Depths -> HandlerType]
        BY <4>1, HandlerTypes DEF TypeOK
      <4> QED
        BY <3>1, <4>1, <4>3, <4>4 DEF TypeOK
    <3>3. CASE ~quit
      <4>1. UNCHANGED <<depth, handler, quit>>
        BY <2>8, <3>3 DEF LeaveDoExecute
      <4> QED
        BY <3>1, <4>1 DEF TypeOK
    <3> QED
      BY <3>2, <3>3
  <2>9. CASE Code
    <3> USE DEF Code, codeVars, deviceVars
    <3>1. op' \in [Threads -> OpType]
      <4>1. op' = op \/ \E s, c \in SUBSET Spc : Update("cpu", s, c)
        BY <2>9 DEF Trap, SetSR, Stop, m68k_setstopped, Rte, Boot, m68k_emulop_return, IrqOp,
               OtherOp, MakeFromSR, ClearTrace, SPCFLAGS_SET, Spc
      <4> QED
        BY <4>1, OpTypes DEF TypeOK
    <3>2. pc' \in Places /\ mask' \in {0, 1} /\ started' \in BOOLEAN
      BY <2>9 DEF Trap, SetSR, Stop, m68k_setstopped, Rte, Boot, m68k_emulop_return, IrqOp,
             OtherOp, MakeFromSR, TypeOK, Places
    <3>6. quit' \in BOOLEAN /\ (quit' => depth' > 1)
      <4>1. UNCHANGED quit \/ (quit' = TRUE /\ depth > 1)
        BY <2>9 DEF Trap, SetSR, Stop, m68k_setstopped, Rte, Boot, m68k_emulop_return, IrqOp,
               OtherOp
      <4>2. UNCHANGED depth
        BY <2>9 DEF Trap, SetSR, Stop, m68k_setstopped, Rte, Boot, m68k_emulop_return, IrqOp,
               OtherOp
      <4>3. CASE UNCHANGED quit
        BY <4>2, <4>3 DEF TypeOK
      <4>4. CASE quit' = TRUE /\ depth > 1
        BY <4>2, <4>4
      <4> QED
        BY <4>1, <4>3, <4>4
    <3>3. handler' \in [Depths -> HandlerType]
      <4>1. \/ UNCHANGED handler
            \/ SetHandler(handler[depth].n, TRUE)
            \/ handler[depth].n > 0 /\ SetHandler(handler[depth].n - 1, TRUE)
        BY <2>9 DEF Trap, SetSR, Stop, m68k_setstopped, Rte, Boot, m68k_emulop_return, IrqOp,
               OtherOp
      <4>2. handler[depth].n \in Nat
        BY DEF TypeOK, HandlerType
      <4>3. handler[depth].n > 0 => handler[depth].n - 1 \in Nat
        BY <4>2
      <4> QED
        BY <4>1, <4>2, <4>3, HandlerTypes DEF TypeOK
    <3>4. emulop' \in [Depths -> EmulOpType]
      <4>1. UNCHANGED emulop \/ m68k_emulop("test") \/ m68k_emulop("other")
        BY <2>9 DEF Trap, SetSR, Stop, m68k_setstopped, Rte, Boot, m68k_emulop_return, IrqOp,
               OtherOp
      <4> QED
        BY <4>1, EmulOpTypes DEF TypeOK, m68k_emulop
    <3>5. UNCHANGED <<codeVars>>
      BY <2>9 DEF Trap, SetSR, Stop, m68k_setstopped, Rte, Boot, m68k_emulop_return, IrqOp,
             OtherOp
    <3> QED
      BY <3>1, <3>2, <3>3, <3>4, <3>5, <3>6 DEF TypeOK
  <2>10. CASE EmulOp
    <3> USE DEF EmulOp, deviceVars
    <3>1. op' \in [Threads -> OpType]
      <4>1. op' = op \/ \E s, c \in SUBSET Spc : Update("cpu", s, c)
        BY <2>10 DEF IrqTest, ClearInterruptFlag, IrqHandle, IrqHandled, Execute68k, EndEmulOp,
               MakeFromSR, SPCFLAGS_SET, Spc
      <4> QED
        BY <4>1, OpTypes DEF TypeOK
    <3>2. emulop[depth] \in EmulOpType /\ depth \in Depths
      BY DEF TypeOK
    <3>7. Index \in 1 .. 5 /\ emulop[depth].mask \in {0, 1}
      BY <3>2 DEF Index, EmulOpType
    <3>3. emulop' \in [Depths -> EmulOpType]
      <4>1. \/ UNCHANGED emulop
            \/ \E at \in {"test", "clear", "handle", "body", "end"} : Goto(at, Index)
            \/ Index # 5 /\ Goto("test", Index + 1)
            \/ SetEmulOp("none", 1, 0)
        BY <2>10 DEF IrqTest, ClearInterruptFlag, IrqHandle, IrqHandled, Execute68k, EndEmulOp
      <4>2. Index # 5 => Index + 1 \in 1 .. 5
        BY <3>7
      <4>3. emulop \in [Depths -> EmulOpType]
        BY DEF TypeOK
      <4> QED
        BY <4>1, <4>2, <4>3, <3>7, EmulOpTypes DEF Goto
    <3>4. depth' \in Depths /\ quit' \in BOOLEAN /\ (quit' => depth' > 1)
      <4>1. \/ UNCHANGED <<depth, quit>>
            \/ depth < MaxDepth /\ depth' = depth + 1 /\ quit' = FALSE
        BY <2>10 DEF IrqTest, ClearInterruptFlag, IrqHandle, IrqHandled, Execute68k, EndEmulOp
      <4>2. depth \in 1 .. MaxDepth
        BY <3>2 DEF Depths
      <4>3. depth < MaxDepth => depth + 1 \in Depths
        BY <4>2 DEF Depths
      <4>4. depth \in Depths /\ quit \in BOOLEAN /\ (quit => depth > 1)
        BY DEF TypeOK
      <4>5. CASE UNCHANGED <<depth, quit>>
        BY <4>4, <4>5
      <4>6. CASE depth < MaxDepth /\ depth' = depth + 1 /\ quit' = FALSE
        BY <4>3, <4>6
      <4> QED
        BY <4>1, <4>5, <4>6
    <3>5. pc' \in Places /\ mask' \in {0, 1}
      BY <2>10, <3>7 DEF IrqTest, ClearInterruptFlag, IrqHandle, IrqHandled, Execute68k,
             EndEmulOp, MakeFromSR, TypeOK, Places
    <3>6. flags' \subseteq Flags /\ event' \in [IOFlags -> BOOLEAN]
      BY <2>10 DEF IrqTest, ClearInterruptFlag, IrqHandle, IrqHandled, Execute68k,
             EndEmulOp, TypeOK
    <3> QED
      BY <2>10, <3>1, <3>3, <3>4, <3>5, <3>6 DEF TypeOK
  <2>11. CASE UNCHANGED vars
    BY <2>11 DEF TypeOK, vars
  <2> QED
    BY <2>1, <2>2, <2>3, <2>4, <2>5, <2>6, <2>7, <2>8, <2>9, <2>10, <2>11 DEF Next, Device
<1> QED
  BY <1>1, <1>2, PTL DEF Spec
-----------------------------------------------------------------------------
\* Every variable keeps its type in every behaviour: execution never nests deeper
\* than there are activations, nor ends more often than it was begun.
THEOREM TypeCorrect == Spec => []TypeOK
<1>1. Typed => TypeOK
  BY DEF Typed
<1> QED
  BY <1>1, TypedAlways, PTL

\* An I/O thread raises no flag but its own.
RaisesOwn == \A f \in IOFlags : todo[f] \subseteq {f}

\* NoLostEvent of one device.
Noticed(f) == event[f] => f \in todo[f] \cup flags \/ (At("handle") /\ Irq = f)

\* A device's news is never forgotten, whatever the devices, the nesting of
\* Execute68k() and the way the build updates spcflags.
THEOREM EventsNotLost == Spec => []NoLostEvent
<1>1. Init => RaisesOwn /\ NoLostEvent
  BY DEF Init, RaisesOwn, NoLostEvent, Devices
<1>2. Typed /\ Typed' /\ RaisesOwn /\ NoLostEvent /\ [Next]_vars => RaisesOwn' /\ NoLostEvent'
  <2> SUFFICES ASSUME Typed, Typed', RaisesOwn, NoLostEvent, [Next]_vars, NEW f \in IOFlags
               PROVE  todo'[f] \subseteq {f} /\ Noticed(f)'
    BY DEF RaisesOwn, NoLostEvent, Noticed
  <2> USE DEF Typed, Devices
  <2>1. todo[f] \subseteq {f} /\ Noticed(f) /\ f \in Devices /\ f \notin {"tick", "1HZ", "60HZ"}
    BY DEF RaisesOwn, NoLostEvent, Noticed
  <2>2. ASSUME UNCHANGED <<todo, flags, event, emulop, depth>>
        PROVE  todo'[f] \subseteq {f} /\ Noticed(f)'
    BY <2>1, <2>2 DEF Noticed, At, Irq
  <2>3. ASSUME UNCHANGED <<todo, flags, event>>, emulop[depth].at # "handle"
        PROVE  todo'[f] \subseteq {f} /\ Noticed(f)'
    BY <2>1, <2>3 DEF Noticed, At
  <2>4. ASSUME NEW t \in Threads, Spcflags(t) PROVE todo'[f] \subseteq {f} /\ Noticed(f)'
    BY <2>2, <2>4 DEF Spcflags
  <2>5. ASSUME NEW t \in Devices, SetInterruptFlag(t)
        PROVE  todo'[f] \subseteq {f} /\ Noticed(f)'
    <3>1. UNCHANGED <<event, emulop, depth>> /\ flags \subseteq flags'
      BY <2>5 DEF SetInterruptFlag, cpuVars
    <3>2. CASE t = f
      <4>1. todo[f] = {f} /\ NextToRaise(f) = f
        BY <2>1, <2>5, <3>2 DEF SetInterruptFlag, NextToRaise
      <4>2. f \in flags' /\ todo'[f] = {}
        BY <2>1, <2>5, <3>2, <4>1 DEF SetInterruptFlag, TypeOK
      <4> QED
        BY <4>2 DEF Noticed
    <3>3. CASE t # f
      <4>1. todo'[f] = todo[f]
        BY <2>1, <2>5, <3>3 DEF SetInterruptFlag, TypeOK
      <4> QED
        BY <2>1, <3>1, <4>1 DEF Noticed, At, Irq
    <3> QED
      BY <3>2, <3>3
  <2>6. ASSUME NEW t \in Devices, TriggerInterrupt(t)
        PROVE  todo'[f] \subseteq {f} /\ Noticed(f)'
    BY <2>2, <2>6 DEF TriggerInterrupt, cpuVars
  <2>7. ASSUME NEW g \in IOFlags, Complete(g)
        PROVE  todo'[f] \subseteq {f} /\ Noticed(f)'
    <3>1. CASE f = g
      BY <2>1, <2>7, <3>1 DEF Complete, TypeOK, Noticed
    <3>2. CASE f # g
      <4>1. todo'[f] = todo[f] /\ event'[f] = event[f] /\ UNCHANGED <<flags, emulop, depth>>
        BY <2>1, <2>7, <3>2 DEF Complete, TypeOK, cpuVars
      <4> QED
        BY <2>1, <4>1 DEF Noticed, At, Irq
    <3> QED
      BY <3>1, <3>2
  <2>8. CASE one_tick \/ SkipTick
    <3>1. todo'[f] = todo[f] /\ UNCHANGED <<flags, event, emulop, depth>>
      BY <2>1, <2>8 DEF one_tick, SkipTick, TypeOK, cpuVars
    <3> QED
      BY <2>1, <3>1 DEF Noticed, At, Irq
  <2>9. CASE Specialties
    BY <2>2, <2>9 DEF Specialties, deviceVars
  <2>10. CASE LeaveDoExecute
    BY <2>3, <2>10 DEF LeaveDoExecute, deviceVars, Interpreting
  <2>11. CASE Code
    BY <2>3, <2>11 DEF Code, codeVars, deviceVars, Trap, SetSR, Stop, m68k_setstopped, Rte, Boot,
           m68k_emulop_return, IrqOp, OtherOp, Interpreting
  <2>12. CASE EmulOp
    <3>1. UNCHANGED todo
      BY <2>12 DEF EmulOp, deviceVars
    <3>2. depth \in Depths /\ emulop \in [Depths -> EmulOpType]
      BY DEF TypeOK
    <3>3. CASE IrqTest \/ IrqHandled \/ Execute68k \/ EndEmulOp
      <4>1. emulop[depth].at # "handle" /\ UNCHANGED <<flags, event>>
        BY <3>3 DEF IrqTest, IrqHandled, Execute68k, EndEmulOp, At
      <4> QED
        BY <2>3, <3>1, <4>1
    <3>4. CASE ClearInterruptFlag
      <4>1. emulop'[depth].at = "handle" /\ emulop'[depth].i = emulop[depth].i
        BY <3>2, <3>4 DEF ClearInterruptFlag, Goto, Index, SetEmulOp
      <4>2. UNCHANGED <<event, depth>> /\ flags' = flags \ {Irq} /\ emulop[depth].at # "handle"
        BY <3>4 DEF ClearInterruptFlag, At
      <4> QED
        BY <2>1, <3>1, <4>1, <4>2 DEF Noticed, At, Irq
    <3>5. CASE IrqHandle
      <4>1. f \in DOMAIN event
        BY DEF TypeOK
      <4> QED
        BY <2>1, <3>1, <3>5, <4>1 DEF Noticed, IrqHandle
    <3> QED
      BY <2>12, <3>3, <3>4, <3>5 DEF EmulOp
  <2>13. CASE UNCHANGED vars
    BY <2>2, <2>13 DEF vars
  <2> QED
    BY <2>4, <2>5, <2>6, <2>7, <2>8, <2>9, <2>10, <2>11, <2>12, <2>13 DEF Next, Device
<1> QED
  BY <1>1, <1>2, TypedAlways, PTL DEF Spec

-----------------------------------------------------------------------------
(* What holds when every update of spcflags is atomic, as it is in a build *)
(* with ENABLE_EXCLUSIVE_SPCFLAGS.                                         *)

\* No update is between its load and its store, and a device's update only
\* sets SPCFLAG_INT.
Locked ==
  /\ \A t \in Threads : op[t].ph # "store"
  /\ \A t \in Devices : op[t].set \subseteq {"INT"} /\ op[t].clr = {}

\* After quit_program is set, SPCFLAG_BRK is about to be set, or it is set and
\* stays so until m68k_do_specialties() sees it, or the loop is being left.
Leaving ==
  quit =>
    /\ emulop[depth].at = "none"
    /\ \/ pc = "check" /\ op["cpu"].ph = "load" /\ "BRK" \in op["cpu"].set
       \/ /\ "BRK" \in spc /\ "BRK" \notin op["cpu"].clr
          /\ pc \in {"check", "stop", "stoplevel", "stopmask", "unstop", "doint",
                     "level", "mask", "int", "setdoint", "brk"}
       \/ pc = "exit"

\* SPCFLAG_STOP is set, or about to be, only while the CPU is on its way to the
\* STOP loop or in it, and the mask is raised only on the way out.
Stopping ==
  /\ pc = "setstopped" => mask = 0
  /\ "STOP" \in spc \cup op["cpu"].set =>
       /\ emulop[depth].at = "none"
       /\ \/ pc \in {"check", "stop", "stoplevel", "stopmask"} /\ mask = 0
          \/ pc = "unstop"
          \/ /\ pc = "stop" /\ op["cpu"].ph = "load"
             /\ "STOP" \in op["cpu"].clr \ op["cpu"].set

LEMMA LockedInvariant == ASSUME Exclusive PROVE Spec => []Locked
<1>1. Init => Locked
  BY DEF Init, Locked, NoOp, Threads, Devices
<1>2. Typed /\ Locked /\ [Next]_vars => Locked'
  <2> SUFFICES ASSUME Typed, Locked, [Next]_vars PROVE Locked'
    OBVIOUS
  <2>1. op \in [Threads -> OpType] /\ Devices \subseteq Threads /\ "cpu" \in Threads
        /\ "cpu" \notin Devices
    BY DEF Typed, TypeOK, Threads, Devices
  <2>2. ASSUME UNCHANGED op PROVE Locked'
    BY <2>2 DEF Locked
  <2>3. ASSUME NEW t \in Threads, NEW s, NEW c, Update(t, s, c),
               t \in Devices => s \subseteq {"INT"} /\ c = {}
        PROVE  Locked'
    <3>1. /\ op'[t].ph = "load" /\ op'[t].set = s /\ op'[t].clr = c
          /\ \A u \in Threads \ {t} : op'[u] = op[u]
      BY <2>1, <2>3 DEF Update
    <3> QED
      BY <2>1, <2>3, <3>1 DEF Locked
  <2>4. ASSUME NEW t \in Threads, Spcflags(t) PROVE Locked'
    <3>1. LockedUpdate(t)
      BY <2>4 DEF Spcflags, Load, Store, Locked
    <3>2. op'[t] = NoOp /\ \A u \in Threads \ {t} : op'[u] = op[u]
      BY <2>1, <3>1 DEF LockedUpdate
    <3> QED
      BY <2>1, <3>2 DEF Locked, NoOp
  <2>5. ASSUME NEW t \in Devices, TriggerInterrupt(t) PROVE Locked'
    BY <2>1, <2>3, <2>5 DEF TriggerInterrupt, SPCFLAGS_SET
  <2>6. CASE Specialties \/ Code \/ EmulOp
    <3>1. UNCHANGED op \/ \E s, c : Update("cpu", s, c)
      BY <2>6 DEF Specialties, TestSpcflags, TestStop, LevelInStop, TestDoint, Level, RaiseMask,
             ClearStop, TestInt, SetDoint, TestBrk, EndMakeFromSR, Interrupt, Code, Trap, SetSR,
             Stop, m68k_setstopped, Rte, Boot, m68k_emulop_return, IrqOp, OtherOp, EmulOp,
             IrqTest, ClearInterruptFlag, IrqHandle, IrqHandled, Execute68k, EndEmulOp,
             MakeFromSR, ClearTrace, SPCFLAGS_SET, SPCFLAGS_CLEAR
    <3> QED
      BY <2>1, <2>2, <2>3, <3>1
  <2>7. CASE LeaveDoExecute \/ one_tick \/ SkipTick \/ UNCHANGED vars
    BY <2>2, <2>7 DEF LeaveDoExecute, one_tick, SkipTick, vars
  <2>8. ASSUME NEW t \in Devices, SetInterruptFlag(t) PROVE Locked'
    BY <2>2, <2>8 DEF SetInterruptFlag
  <2>9. ASSUME NEW f \in IOFlags, Complete(f) PROVE Locked'
    BY <2>2, <2>9 DEF Complete
  <2> QED
    BY <2>4, <2>5, <2>6, <2>7, <2>8, <2>9 DEF Next, Device
<1> QED
  BY <1>1, <1>2, TypedAlways, PTL DEF Spec

\* A locked update of spcflags takes it one step on its way.
LEMMA LockedStep ==
  ASSUME Exclusive, Typed, Locked, NEW t \in Threads, Spcflags(t)
  PROVE  /\ op[t].ph = "load" /\ op'[t] = NoOp /\ \A u \in Threads \ {t} : op'[u] = op[u]
         /\ spc' = (spc \ op[t].clr) \cup op[t].set
         /\ t # "cpu" => op[t].clr = {} /\ op[t].set \subseteq {"INT"}
         /\ UNCHANGED <<mask, quit, depth, emulop, pc>>
<1>1. LockedUpdate(t) /\ UNCHANGED <<mask, quit, depth, emulop, pc>>
  BY DEF Spcflags, Load, Store, Locked
<1>2. op \in [Threads -> OpType]
  BY DEF Typed, TypeOK
<1>3. op'[t] = NoOp /\ \A u \in Threads \ {t} : op'[u] = op[u]
  BY <1>1, <1>2 DEF LockedUpdate
<1>4. t # "cpu" => op[t].clr = {} /\ op[t].set \subseteq {"INT"}
  BY DEF Locked, Threads
<1> QED
  BY <1>1, <1>3, <1>4 DEF LockedUpdate

\* Execute68k() returns when the routine it calls does, if updates of spcflags
\* are atomic.
THEOREM ExecuteReturnsIfLocked == ASSUME Exclusive PROVE Spec => []ExecuteReturns
<1>1. Init => Leaving
  BY DEF Init, Leaving
<1>2. Typed /\ Locked /\ Leaving /\ [Next]_vars => Leaving'
  <2> SUFFICES ASSUME Typed, Locked, Leaving, [Next]_vars, quit' PROVE Leaving'
    BY DEF Leaving
  <2>1. op \in [Threads -> OpType] /\ "cpu" \in Threads /\ "cpu" \notin Devices
    BY DEF Typed, TypeOK, Threads, Devices
  <2>2. ASSUME UNCHANGED <<spc, quit, depth, emulop, pc>>, op'["cpu"] = op["cpu"] PROVE Leaving'
    BY <2>2 DEF Leaving
  <2>3. ASSUME NEW s, NEW c, Update("cpu", s, c)
        PROVE  op'["cpu"].ph = "load" /\ op'["cpu"].set = s /\ op'["cpu"].clr = c
    BY <2>1, <2>3 DEF Update
  <2>4. ASSUME NEW t \in Threads, Spcflags(t) PROVE Leaving'
    <3>1. /\ op[t].ph = "load" /\ op'[t] = NoOp /\ \A u \in Threads \ {t} : op'[u] = op[u]
          /\ spc' = (spc \ op[t].clr) \cup op[t].set
          /\ t # "cpu" => op[t].clr = {} /\ op[t].set \subseteq {"INT"}
          /\ UNCHANGED <<mask, quit, depth, emulop, pc>>
      BY <2>4, LockedStep
    <3> QED
      BY <2>1, <3>1 DEF Leaving, NoOp
  <2>5. ASSUME NEW t \in Devices, Device(t) PROVE Leaving'
    <3>1. op'["cpu"] = op["cpu"]
      BY <2>1, <2>5 DEF Device, SetInterruptFlag, TriggerInterrupt, SPCFLAGS_SET, Update
    <3> QED
      BY <2>2, <2>5, <3>1 DEF Device, SetInterruptFlag, TriggerInterrupt, cpuVars
  <2>6. CASE Specialties
    <3>1. quit /\ Leaving /\ op["cpu"] = NoOp /\ UNCHANGED <<spc, quit, depth, emulop>>
      BY <2>6 DEF Specialties, TestSpcflags, TestStop, LevelInStop, TestDoint, Level, RaiseMask,
             ClearStop, TestInt, SetDoint, TestBrk, EndMakeFromSR, Interpreting
    <3>2. emulop[depth].at = "none" /\ ("BRK" \in spc \/ pc = "exit")
      BY <3>1 DEF Leaving, NoOp
    <3>3. ASSUME NEW s, NEW c, Update("cpu", s, c), "BRK" \notin c, "BRK" \in spc,
                 pc' \in {"check", "stop", "stoplevel", "stopmask", "unstop", "doint",
                          "level", "mask", "int", "setdoint", "brk"}
          PROVE  Leaving'
      BY <2>3, <3>1, <3>2, <3>3 DEF Leaving
    <3>4. CASE TestSpcflags
      BY <3>1, <3>2, <3>4 DEF TestSpcflags, Leaving, Interpreting, NoOp
    <3>5. CASE TestStop
      BY <3>1, <3>2, <3>3, <3>5 DEF TestStop, SPCFLAGS_CLEAR, Leaving, Interpreting
    <3>6. CASE LevelInStop
      BY <3>1, <3>2, <3>3, <3>6 DEF LevelInStop, Interrupt, ClearTrace, Leaving, Interpreting
    <3>7. CASE TestDoint
      BY <3>1, <3>2, <3>3, <3>7 DEF TestDoint, SPCFLAGS_CLEAR, Leaving, Interpreting
    <3>8. CASE Level
      BY <3>1, <3>2, <3>3, <3>8 DEF Level, Interrupt, ClearTrace, Leaving, Interpreting
    <3>9. CASE RaiseMask
      BY <3>1, <3>2, <3>3, <3>9 DEF RaiseMask, SPCFLAGS_SET, Interpreting
    <3>10. CASE ClearStop
      BY <3>1, <3>2, <3>3, <3>10 DEF ClearStop, SPCFLAGS_CLEAR, Interpreting
    <3>11. CASE TestInt
      BY <3>1, <3>2, <3>3, <3>11 DEF TestInt, SPCFLAGS_CLEAR, Leaving, Interpreting
    <3>12. CASE SetDoint
      BY <3>1, <3>2, <3>3, <3>12 DEF SetDoint, SPCFLAGS_SET, Interpreting
    <3>13. CASE TestBrk
      BY <3>1, <3>2, <3>13 DEF TestBrk, Leaving, Interpreting
    <3>14. CASE EndMakeFromSR
      BY <3>1, <3>14 DEF EndMakeFromSR, Leaving, Interpreting, NoOp
    <3> QED
      BY <2>6, <3>4, <3>5, <3>6, <3>7, <3>8, <3>9, <3>10, <3>11, <3>12, <3>13, <3>14
         DEF Specialties
  <2>7. CASE Code
    <3>1. CASE m68k_emulop_return
      BY <2>3, <3>1 DEF m68k_emulop_return, SPCFLAGS_SET, Leaving, Interpreting, codeVars
    <3>2. CASE ~m68k_emulop_return
      <4>1. quit /\ op["cpu"] = NoOp /\ pc \in {"run", "setstopped"}
        BY <2>7, <3>2 DEF Code, Trap, SetSR, Stop, m68k_setstopped, Rte, Boot, IrqOp, OtherOp,
               Interpreting
      <4> QED
        BY <4>1 DEF Leaving, NoOp
    <3> QED
      BY <3>1, <3>2
  <2>8. CASE EmulOp
    <3>1. emulop[depth].at # "none" /\ (quit' => quit)
      BY <2>8 DEF EmulOp, IrqTest, ClearInterruptFlag, IrqHandle, IrqHandled, Execute68k,
             EndEmulOp, At
    <3> QED
      BY <3>1 DEF Leaving
  <2>9. CASE LeaveDoExecute
    BY <2>9 DEF LeaveDoExecute
  <2>10. CASE (\E f \in IOFlags : Complete(f)) \/ one_tick \/ SkipTick \/ UNCHANGED vars
    BY <2>2, <2>10 DEF Complete, one_tick, SkipTick, vars, cpuVars
  <2> QED
    BY <2>4, <2>5, <2>6, <2>7, <2>8, <2>9, <2>10 DEF Next
<1>3. Leaving => ExecuteReturns
  BY DEF Leaving, ExecuteReturns, Interpreting, NoOp
<1> QED
  BY <1>1, <1>2, <1>3, TypedAlways, LockedInvariant, PTL DEF Spec

LEMMA StoppingInvariant == ASSUME Exclusive PROVE Spec => []Stopping
<1>1. Init => Stopping
  BY DEF Init, Stopping, NoOp, Threads
<1>2. Typed /\ Locked /\ Stopping /\ [Next]_vars => Stopping'
  <2> SUFFICES ASSUME Typed, Locked, Stopping, [Next]_vars PROVE Stopping'
    OBVIOUS
  <2>1. op \in [Threads -> OpType] /\ "cpu" \in Threads /\ "cpu" \notin Devices
    BY DEF Typed, TypeOK, Threads, Devices
  <2>2. ASSUME UNCHANGED <<spc, mask, depth, emulop, pc>>, op'["cpu"] = op["cpu"]
        PROVE  Stopping'
    BY <2>2 DEF Stopping
  <2>3. ASSUME NEW s, NEW c, Update("cpu", s, c)
        PROVE  op'["cpu"].ph = "load" /\ op'["cpu"].set = s /\ op'["cpu"].clr = c
    BY <2>1, <2>3 DEF Update
  <2>4. ASSUME NEW t \in Threads, Spcflags(t) PROVE Stopping'
    <3>1. /\ op[t].ph = "load" /\ op'[t] = NoOp /\ \A u \in Threads \ {t} : op'[u] = op[u]
          /\ spc' = (spc \ op[t].clr) \cup op[t].set
          /\ t # "cpu" => op[t].clr = {} /\ op[t].set \subseteq {"INT"}
          /\ UNCHANGED <<mask, quit, depth, emulop, pc>>
      BY <2>4, LockedStep
    <3>2. CASE t = "cpu"
      BY <2>1, <3>1, <3>2 DEF Stopping, NoOp
    <3>3. CASE t # "cpu"
      <4>1. op'["cpu"] = op["cpu"] /\ ("STOP" \in spc' <=> "STOP" \in spc)
        BY <2>1, <3>1, <3>3
      <4> QED
        BY <3>1, <4>1 DEF Stopping
    <3> QED
      BY <3>2, <3>3
  <2>5. ASSUME NEW t \in Devices, Device(t) PROVE Stopping'
    <3>1. op'["cpu"] = op["cpu"]
      BY <2>1, <2>5 DEF Device, SetInterruptFlag, TriggerInterrupt, SPCFLAGS_SET, Update
    <3> QED
      BY <2>2, <2>5, <3>1 DEF Device, SetInterruptFlag, TriggerInterrupt, cpuVars
  <2>6. CASE Specialties
    <3>1. op["cpu"] = NoOp /\ UNCHANGED <<spc, depth, emulop>>
      BY <2>6 DEF Specialties, TestSpcflags, TestStop, LevelInStop, TestDoint, Level, RaiseMask,
             ClearStop, TestInt, SetDoint, TestBrk, EndMakeFromSR, Interpreting
    <3>2. ASSUME NEW s, NEW c, Update("cpu", s, c), "STOP" \notin s, pc' # "setstopped",
                 "STOP" \in spc => \/ pc' \in {"check", "stop", "stoplevel", "stopmask"} /\ mask' = 0
                                   \/ pc' = "unstop"
                                   \/ pc' = "stop" /\ "STOP" \in c
          PROVE  Stopping'
      BY <2>3, <3>1, <3>2 DEF Stopping
    <3>3. ASSUME op' = op, mask' = mask, pc' # "setstopped",
                 "STOP" \in spc => pc' \in {"check", "stop", "stoplevel", "stopmask"} /\ mask = 0
          PROVE  Stopping'
      BY <3>1, <3>3 DEF Stopping, NoOp
    <3>4. "STOP" \in spc => \/ pc \in {"check", "stop", "stoplevel", "stopmask"} /\ mask = 0
                            \/ pc = "unstop"
      BY <3>1 DEF Stopping, NoOp
    <3>5. CASE TestSpcflags
      BY <3>3, <3>4, <3>5 DEF TestSpcflags, Interpreting
    <3>6. CASE TestStop
      <4>1. pc = "stop" /\ mask' = mask
        BY <3>6 DEF TestStop, Interpreting
      <4>2. CASE "STOP" \notin spc
        BY <3>3, <3>6, <4>1, <4>2 DEF TestStop
      <4>3. CASE "STOP" \in spc
        BY <3>2, <3>4, <3>6, <4>1, <4>3 DEF TestStop, SPCFLAGS_CLEAR
      <4> QED
        BY <4>2, <4>3
    <3>7. CASE LevelInStop
      BY <3>2, <3>3, <3>4, <3>7 DEF LevelInStop, Interrupt, ClearTrace, Interpreting
    <3>8. CASE TestDoint
      BY <3>2, <3>3, <3>4, <3>8 DEF TestDoint, SPCFLAGS_CLEAR, Interpreting
    <3>9. CASE Level
      BY <3>2, <3>3, <3>4, <3>9 DEF Level, Interrupt, ClearTrace, Interpreting
    <3>10. CASE RaiseMask
      BY <3>2, <3>4, <3>10 DEF RaiseMask, SPCFLAGS_SET, Interpreting
    <3>11. CASE ClearStop
      BY <3>2, <3>4, <3>11 DEF ClearStop, SPCFLAGS_CLEAR, Interpreting
    <3>12. CASE TestInt
      BY <3>2, <3>3, <3>4, <3>12 DEF TestInt, SPCFLAGS_CLEAR, Interpreting
    <3>13. CASE SetDoint
      BY <3>2, <3>4, <3>13 DEF SetDoint, SPCFLAGS_SET, Interpreting
    <3>14. CASE TestBrk
      BY <3>2, <3>3, <3>4, <3>14 DEF TestBrk, SPCFLAGS_CLEAR, Interpreting
    <3>15. CASE EndMakeFromSR
      BY <3>2, <3>4, <3>15 DEF EndMakeFromSR, ClearTrace, Interpreting
    <3> QED
      BY <2>6, <3>5, <3>6, <3>7, <3>8, <3>9, <3>10, <3>11, <3>12, <3>13, <3>14, <3>15
         DEF Specialties
  <2>7. CASE Code \/ (EmulOp /\ EndEmulOp)
    <3>1. "STOP" \notin spc /\ UNCHANGED <<spc, depth>>
      BY <2>7 DEF Stopping, Code, codeVars, Trap, SetSR, Stop, m68k_setstopped, Rte, Boot,
             m68k_emulop_return, IrqOp, OtherOp, EndEmulOp, EmulOp, At, Interpreting
    <3>2. CASE m68k_setstopped
      <4>1. pc = "setstopped" /\ emulop[depth].at = "none" /\ UNCHANGED <<mask, emulop>>
            /\ pc' = "check"
        BY <3>2 DEF m68k_setstopped, Interpreting
      <4> QED
        BY <3>1, <4>1 DEF Stopping
    <3>3. CASE ~m68k_setstopped
      <4>1. \/ op' = op /\ op["cpu"] = NoOp
            \/ Update("cpu", {}, {}) \/ Update("cpu", {"INT"}, {}) \/ Update("cpu", {"BRK"}, {})
        BY <2>7, <3>3 DEF Code, Trap, SetSR, Stop, Rte, Boot, m68k_emulop_return,
               IrqOp, OtherOp, EndEmulOp, MakeFromSR, ClearTrace, SPCFLAGS_SET, Interpreting
      <4>2. "STOP" \notin op'["cpu"].set
        BY <2>3, <4>1 DEF NoOp
      <4>3. pc' = "setstopped" => mask' = 0
        BY <2>7, <3>3 DEF Code, Trap, SetSR, Stop, Rte, Boot, m68k_emulop_return,
               IrqOp, OtherOp, EndEmulOp, MakeFromSR, Interpreting
      <4> QED
        BY <3>1, <4>2, <4>3 DEF Stopping
    <3> QED
      BY <3>2, <3>3
  <2>8. CASE EmulOp /\ ~EndEmulOp
    <3>1. /\ emulop[depth].at # "none" /\ UNCHANGED <<spc, op, mask>>
          /\ pc' = pc \/ pc' = "run"
      BY <2>8 DEF EmulOp, IrqTest, ClearInterruptFlag, IrqHandle, IrqHandled, Execute68k, At
    <3> QED
      BY <3>1 DEF Stopping
  <2>9. CASE LeaveDoExecute
    <3>1. "STOP" \notin spc \cup op["cpu"].set /\ UNCHANGED <<spc, op>> /\ pc' = "run"
      BY <2>9 DEF LeaveDoExecute, Stopping, Interpreting, NoOp
    <3> QED
      BY <3>1 DEF Stopping
  <2>10. CASE (\E f \in IOFlags : Complete(f)) \/ one_tick \/ SkipTick \/ UNCHANGED vars
    BY <2>2, <2>10 DEF Complete, one_tick, SkipTick, vars, cpuVars
  <2>11. CASE Code
    BY <2>7, <2>11
  <2>12. CASE EmulOp
    BY <2>7, <2>8, <2>12
  <2> QED
    BY <2>4, <2>5, <2>6, <2>9, <2>10, <2>11, <2>12 DEF Next
<1> QED
  BY <1>1, <1>2, TypedAlways, LockedInvariant, PTL DEF Spec

\* The CPU never waits in the STOP loop with level 1 masked, if updates of
\* spcflags are atomic.
THEOREM StopUnmaskedIfLocked == ASSUME Exclusive PROVE Spec => []StopUnmasked
<1>1. Stopping => StopUnmasked
  BY DEF Stopping, StopUnmasked, Interpreting, NoOp
<1> QED
  BY <1>1, StoppingInvariant, PTL

-----------------------------------------------------------------------------
(* What wakes the CPU in STOP.                                             *)

\* SPCFLAG_INT is set, or a thread that has raised its flag has yet to set it.
Coming == "INT" \in spc \/ \E t \in Devices : trig[t] \/ "INT" \in op[t].set

\* In the STOP loop the CPU looks at spcflags only: a flag in InterruptFlags has
\* SPCFLAG_INT with it, or it would not be seen.
StopHeedsFlags == "STOP" \in spc /\ Interpreting("stop") /\ flags # {} => Coming

\* On the way to the STOP loop SPCFLAG_INT is set, so that flags raised before it
\* are looked at once; an update in the loop's first place is the one that leaves it.
Wakeful ==
  /\ pc = "setstopped" => "INT" \in spc \cup op["cpu"].set
  /\ pc \in {"setstopped", "check"} => op["cpu"].clr = {}
  /\ pc = "check" /\ "STOP" \in spc \cup op["cpu"].set => "INT" \in spc
  /\ pc = "stop" /\ op["cpu"].ph = "load" => "STOP" \in op["cpu"].clr \ op["cpu"].set
  /\ pc = "stop" /\ op["cpu"].ph = "none" /\ "STOP" \in spc => flags = {} \/ Coming

LEMMA WakefulStep ==
  ASSUME Exclusive, Typed, Locked, Stopping, Wakeful, [Next]_vars
  PROVE  Wakeful'
<1>1. /\ op \in [Threads -> OpType] /\ "cpu" \in Threads /\ "cpu" \notin Devices
      /\ Devices \subseteq Threads /\ trig \in [Devices -> BOOLEAN]
  BY DEF Typed, TypeOK, Threads, Devices
<1>2. ASSUME UNCHANGED <<spc, trig, op>>, flags' \subseteq flags, UNCHANGED pc PROVE Wakeful'
  BY <1>2 DEF Wakeful, Coming
<1>3. ASSUME NEW s, NEW c, Update("cpu", s, c)
      PROVE  op'["cpu"].ph = "load" /\ op'["cpu"].set = s /\ op'["cpu"].clr = c
  BY <1>1, <1>3 DEF Update
<1>4. ASSUME NEW t \in Threads, Spcflags(t) PROVE Wakeful'
  <2>1. /\ op[t].ph = "load" /\ op'[t] = NoOp /\ \A u \in Threads \ {t} : op'[u] = op[u]
        /\ spc' = (spc \ op[t].clr) \cup op[t].set
        /\ t # "cpu" => op[t].clr = {} /\ op[t].set \subseteq {"INT"}
        /\ UNCHANGED <<mask, quit, depth, emulop, pc>>
    BY <1>4, LockedStep
  <2>2. UNCHANGED <<trig, flags>>
    BY <1>4 DEF Spcflags
  <2>3. CASE t = "cpu"
    <3>1. op'["cpu"] = NoOp /\ spc' = (spc \ op["cpu"].clr) \cup op["cpu"].set
          /\ op["cpu"].ph = "load" /\ pc' = pc
      BY <2>1, <2>3
    <3>2. pc = "stop" => "STOP" \notin spc'
      BY <3>1 DEF Wakeful
    <3>3. QED
      BY <3>1, <3>2 DEF Wakeful, NoOp
  <2>4. CASE t # "cpu"
    <3>1. op'["cpu"] = op["cpu"] /\ pc' = pc /\ ("STOP" \in spc' <=> "STOP" \in spc)
          /\ ("INT" \in spc => "INT" \in spc')
      BY <1>1, <2>1, <2>4
    <3>2. Coming => Coming'
      BY <1>1, <2>1, <2>2, <2>4 DEF Coming
    <3>3. QED
      BY <2>2, <3>1, <3>2 DEF Wakeful
  <2>5. QED
    BY <2>3, <2>4
<1>5. ASSUME NEW t \in Devices, Device(t) PROVE Wakeful'
  <2>1. op'["cpu"] = op["cpu"] /\ UNCHANGED <<spc, pc>>
    BY <1>1, <1>5 DEF Device, SetInterruptFlag, TriggerInterrupt, SPCFLAGS_SET, Update, cpuVars
  <2>2. Coming'
    <3>1. CASE SetInterruptFlag(t)
      BY <1>1, <3>1 DEF SetInterruptFlag, Coming
    <3>2. CASE TriggerInterrupt(t)
      <4>1. op'[t].set = {"INT"}
        BY <1>1, <3>2 DEF TriggerInterrupt, SPCFLAGS_SET, Update
      <4>2. QED
        BY <4>1 DEF Coming
    <3>3. QED
      BY <1>5, <3>1, <3>2 DEF Device
  <2>3. QED
    BY <2>1, <2>2 DEF Wakeful
<1>6. CASE Specialties
  <2>1. op["cpu"] = NoOp /\ UNCHANGED <<spc, trig, flags>>
    BY <1>6 DEF Specialties, TestSpcflags, TestStop, LevelInStop, TestDoint, Level, RaiseMask,
           ClearStop, TestInt, SetDoint, TestBrk, EndMakeFromSR, Interpreting, deviceVars
  <2>2. ASSUME pc' \notin {"setstopped", "check", "stop"} PROVE Wakeful'
    BY <2>2 DEF Wakeful
  <2>3. CASE TestSpcflags
    <3>1. op' = op /\ pc = "check"
      BY <2>3 DEF TestSpcflags, Interpreting
    <3>2. "STOP" \in spc => Coming'
      BY <2>1, <3>1 DEF Wakeful, Coming
    <3>3. pc' \in {"run", "stop"}
      BY <2>3 DEF TestSpcflags
    <3>4. QED
      BY <2>1, <3>1, <3>2, <3>3 DEF Wakeful, NoOp
  <2>4. CASE LevelInStop
    <3>1. CASE intlev > mask
      BY <2>2, <2>4, <3>1 DEF LevelInStop, Interrupt
    <3>2. CASE ~(intlev > mask)
      <4>1. pc' = "stop" /\ op' = op /\ pc = "stoplevel"
        BY <2>4, <3>2 DEF LevelInStop, Interpreting
      <4>2. "STOP" \in spc => mask = 0
        BY <4>1 DEF Stopping
      <4>3. "STOP" \in spc => flags = {}
        BY <3>2, <4>2 DEF intlev
      <4>4. QED
        BY <2>1, <4>1, <4>3 DEF Wakeful, NoOp
    <3>3. QED
      BY <3>1, <3>2
  <2>5. CASE ClearStop
    <3>1. op'["cpu"].ph = "load" /\ op'["cpu"].set = {} /\ op'["cpu"].clr = {"STOP"}
          /\ pc' = "stop"
      BY <1>3, <2>5 DEF ClearStop, SPCFLAGS_CLEAR
    <3>2. QED
      BY <3>1 DEF Wakeful
  <2>6. CASE EndMakeFromSR
    <3>1. op'["cpu"].set = {} /\ op'["cpu"].clr = {} /\ pc' = "check" /\ pc = "sr"
      BY <1>3, <2>6 DEF EndMakeFromSR, ClearTrace, Interpreting
    <3>2. "STOP" \notin spc
      BY <3>1 DEF Stopping
    <3>3. QED
      BY <2>1, <3>1, <3>2 DEF Wakeful
  <2>7. CASE TestDoint \/ Level \/ TestInt \/ SetDoint \/ TestBrk
    BY <2>2, <2>7 DEF TestDoint, Level, TestInt, SetDoint, TestBrk, Interrupt
  <2>8. CASE TestStop
    BY <2>2, <2>8 DEF TestStop
  <2>9. CASE RaiseMask
    BY <2>2, <2>9 DEF RaiseMask, Interpreting
  <2>10. QED
    BY <1>6, <2>3, <2>4, <2>5, <2>6, <2>7, <2>8, <2>9 DEF Specialties
<1>7. CASE Code
  <2>1. op["cpu"] = NoOp /\ spc' = spc
    BY <1>7 DEF Code, Trap, SetSR, Stop, m68k_setstopped, Rte, Boot, m68k_emulop_return, IrqOp,
           OtherOp, Interpreting, codeVars
  <2>2. CASE m68k_setstopped
    <3>1. op'["cpu"].clr = {} /\ pc' = "check" /\ pc = "setstopped"
      BY <1>3, <2>2 DEF m68k_setstopped, SPCFLAGS_SET, Interpreting
    <3>2. "INT" \in spc'
      BY <2>1, <3>1 DEF Wakeful, NoOp
    <3>3. QED
      BY <3>1, <3>2 DEF Wakeful
  <2>3. CASE Stop
    <3>1. op'["cpu"].set = {"INT"} /\ op'["cpu"].clr = {} /\ pc' = "setstopped"
      BY <1>3, <2>3 DEF Stop, SPCFLAGS_SET
    <3>2. QED
      BY <3>1 DEF Wakeful
  <2>4. CASE ~m68k_setstopped /\ ~Stop
    <3>1. pc = "run" /\ pc' \in {"run", "sr", "check"}
      BY <1>7, <2>4 DEF Code, Trap, SetSR, Rte, Boot, m68k_emulop_return, IrqOp, OtherOp,
             MakeFromSR, Interpreting
    <3>2. "STOP" \notin spc
      BY <3>1 DEF Stopping
    <3>3. \/ op' = op
          \/ Update("cpu", {}, {}) \/ Update("cpu", {"INT"}, {}) \/ Update("cpu", {"BRK"}, {})
      BY <1>7, <2>4 DEF Code, Trap, SetSR, Rte, Boot, m68k_emulop_return, IrqOp, OtherOp,
             MakeFromSR, ClearTrace, SPCFLAGS_SET
    <3>4. "STOP" \notin op'["cpu"].set /\ op'["cpu"].clr = {}
      BY <1>3, <2>1, <3>3 DEF NoOp
    <3>5. QED
      BY <2>1, <3>1, <3>2, <3>4 DEF Wakeful
  <2>5. QED
    BY <2>2, <2>3, <2>4
<1>8. CASE EmulOp
  <2>1. CASE EndEmulOp \/ Execute68k
    BY <1>8, <2>1 DEF EndEmulOp, Execute68k, MakeFromSR, Wakeful
  <2>2. CASE ~EndEmulOp /\ ~Execute68k
    BY <1>2, <1>8, <2>2 DEF EmulOp, IrqTest, ClearInterruptFlag, IrqHandle, IrqHandled, deviceVars
  <2>3. QED
    BY <2>1, <2>2
<1>9. CASE LeaveDoExecute
  BY <1>9 DEF LeaveDoExecute, Wakeful
<1>10. CASE (\E f \in IOFlags : Complete(f)) \/ one_tick \/ SkipTick \/ UNCHANGED vars
  BY <1>2, <1>10 DEF Complete, one_tick, SkipTick, vars, cpuVars
<1>11. QED
  BY <1>4, <1>5, <1>6, <1>7, <1>8, <1>9, <1>10 DEF Next

\* No interrupt is slept through in STOP, if updates of spcflags are atomic: not one
\* raised before the CPU stops, nor between its test of spcflags and its look at
\* InterruptFlags, nor while it goes back to wait.  This is the part of
\* EventuallyHandled that does not depend on scheduling.
THEOREM StopHeedsFlagsIfLocked == ASSUME Exclusive PROVE Spec => []StopHeedsFlags
<1>1. Init => Wakeful
  BY DEF Init, Wakeful
<1>2. Typed /\ Locked /\ Stopping /\ Wakeful /\ [Next]_vars => Wakeful'
  BY WakefulStep
<1>3. Wakeful => StopHeedsFlags
  BY DEF Wakeful, StopHeedsFlags, Interpreting, NoOp
<1> QED
  BY <1>1, <1>2, <1>3, TypedAlways, LockedInvariant, StoppingInvariant, PTL DEF Spec
=============================================================================
