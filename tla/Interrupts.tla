----------------------------- MODULE Interrupts -----------------------------
(***************************************************************************)
(* The interrupt machinery of Basilisk II: InterruptFlags, the special     *)
(* flags of the UAE CPU (regs.spcflags), the 60Hz thread, the I/O threads  *)
(* that raise interrupts, the interpreter loop m68k_execute() with         *)
(* m68k_do_specialties(), nested Execute68k() calls and the level 1        *)
(* handler's M68K_EMUL_OP_IRQ.                                             *)
(*                                                                         *)
(* spcflags is read-modified-written by every thread.  Unless the build    *)
(* defines ENABLE_EXCLUSIVE_SPCFLAGS (the Android build does not) such an  *)
(* update is a load followed by a store, and two threads may interleave.   *)
(* SPCFLAG_TRACE and DOTRACE are never set by Mac OS and are left out, but *)
(* the update that clears them stays: it rewrites the other flags.         *)
(***************************************************************************)
EXTENDS Naturals

CONSTANTS
  IOFlags,         \* the flags raised by I/O threads (SERIAL, ETHER, AUDIO)
  MaxDepth,        \* bound: nested m68k_execute() activations
  MaxHandlers,     \* bound: nested level 1 handlers in one activation
  TicksPerSecond,  \* 60 in one_tick()
  Exclusive,       \* ENABLE_EXCLUSIVE_SPCFLAGS
  UsesStop,        \* whether the 68k program executes STOP
  RomClassic       \* ROMVersion = ROM_VERSION_CLASSIC

ASSUME ConstantsAssumption ==
  /\ IOFlags \subseteq {"SERIAL", "ETHER", "AUDIO"}
  /\ MaxDepth \in Nat \ {0}
  /\ MaxHandlers \in Nat \ {0}
  /\ TicksPerSecond \in Nat \ {0}
  /\ {Exclusive, UsesStop, RomClassic} \subseteq BOOLEAN

VARIABLES
  flags,    \* InterruptFlags; every update holds intflag_lock
  spc,      \* regs.spcflags
  op,       \* op[t]: the update of spcflags thread t is in the middle of
  todo,     \* todo[t]: the flags thread t has yet to raise, lowest first
  trig,     \* trig[t]: t has set a flag and not yet called TriggerInterrupt()
  ticks,    \* tick_counter of one_tick()
  event,    \* event[f]: f's device has news no handler has looked at
  started,  \* HasMacStarted()
  mask,     \* regs.intmask: 0, or 1 for every level that masks level 1
  quit,     \* quit_program
  depth,    \* the current m68k_execute() activation
  handler,  \* handler[d]: level 1 handlers entered in activation d
  emulop,   \* emulop[d]: the EmulOp() activation d is executing
  pc        \* where the current activation is in m68k_do_execute()

vars == <<flags, spc, op, todo, trig, ticks, event, started,
          mask, quit, depth, handler, emulop, pc>>

Spc     == {"INT", "DOINT", "STOP", "BRK"}
Flags   == {"60HZ", "1HZ"} \cup IOFlags
Devices == {"tick"} \cup IOFlags
Threads == {"cpu"} \cup Devices
Depths  == 1 .. MaxDepth

\* The order in which M68K_EMUL_OP_IRQ looks at the flags.  INTFLAG_ADB comes after
\* them and is treated like them (what its handler does is in ADB); INTFLAG_NMI comes
\* last, and no code of this build raises it.
IrqOrder == <<"60HZ", "1HZ", "SERIAL", "ETHER", "AUDIO">>

NoOp      == [ph |-> "none", set |-> {}, clr |-> {}, val |-> {}]
NoHandler == [n |-> 0, done |-> TRUE]
NoEmulOp  == [at |-> "none", i |-> 1, mask |-> 0]

Init ==
  /\ flags = {} /\ spc = {}
  /\ op = [t \in Threads |-> NoOp]
  /\ todo = [t \in Devices |-> {}]
  /\ trig = [t \in Devices |-> FALSE]
  /\ ticks = 0
  /\ event = [f \in IOFlags |-> FALSE]
  /\ started = FALSE
  /\ mask = 1 /\ quit = FALSE /\ depth = 1
  /\ handler = [d \in Depths |-> NoHandler]
  /\ emulop = [d \in Depths |-> NoEmulOp]
  /\ pc = "run"

-----------------------------------------------------------------------------
(* regs.spcflags: SPCFLAGS_SET and SPCFLAGS_CLEAR.                         *)

Update(t, s, c) ==
  op' = [op EXCEPT ![t] = [ph |-> "load", set |-> s, clr |-> c, val |-> {}]]

SPCFLAGS_SET(t, s)   == Update(t, s, {})
SPCFLAGS_CLEAR(t, c) == Update(t, {}, c)
\* Clears SPCFLAG_TRACE and SPCFLAG_DOTRACE, which are never set.
ClearTrace(t)        == Update(t, {}, {})

\* The plain |= and &= of the build without ENABLE_EXCLUSIVE_SPCFLAGS.
Load(t) ==
  /\ ~Exclusive
  /\ op[t].ph = "load"
  /\ op' = [op EXCEPT ![t] = [@ EXCEPT !.ph = "store", !.val = spc]]
  /\ UNCHANGED spc

Store(t) ==
  /\ op[t].ph = "store"
  /\ spc' = (op[t].val \ op[t].clr) \cup op[t].set
  /\ op' = [op EXCEPT ![t] = NoOp]

\* The update under spcflags_lock or with a lock prefix.
LockedUpdate(t) ==
  /\ Exclusive
  /\ op[t].ph = "load"
  /\ spc' = (spc \ op[t].clr) \cup op[t].set
  /\ op' = [op EXCEPT ![t] = NoOp]

Spcflags(t) ==
  /\ Load(t) \/ Store(t) \/ LockedUpdate(t)
  /\ UNCHANGED <<flags, todo, trig, ticks, event, started,
                 mask, quit, depth, handler, emulop, pc>>

-----------------------------------------------------------------------------
(* The threads that raise interrupts.                                      *)

cpuVars == <<spc, started, mask, quit, depth, handler, emulop, pc>>

Ready(t) == todo[t] = {} /\ ~trig[t] /\ op[t] = NoOp

\* one_tick(): every TicksPerSecond + 1 calls it runs one_second() as well.
one_tick ==
  /\ Ready("tick")
  /\ IF ticks + 1 > TicksPerSecond
       THEN ticks' = 0 /\ todo' = [todo EXCEPT !["tick"] = {"1HZ", "60HZ"}]
       ELSE ticks' = ticks + 1 /\ todo' = [todo EXCEPT !["tick"] = {"60HZ"}]
  /\ UNCHANGED <<flags, op, trig, event, cpuVars>>

\* A classic ROM gets no 60Hz interrupt before the Mac has started.
SkipTick ==
  /\ todo["tick"] = {"60HZ"} /\ ~trig["tick"] /\ op["tick"] = NoOp
  /\ RomClassic /\ ~started
  /\ todo' = [todo EXCEPT !["tick"] = {}]
  /\ UNCHANGED <<flags, op, trig, ticks, event, cpuVars>>

\* An I/O thread has completed a request or received data.
Complete(f) ==
  /\ Ready(f)
  /\ event' = [event EXCEPT ![f] = TRUE]
  /\ todo' = [todo EXCEPT ![f] = {f}]
  /\ UNCHANGED <<flags, op, trig, ticks, cpuVars>>

\* one_second() raises its flag before one_tick() goes on to the 60Hz one.
NextToRaise(t) == IF "1HZ" \in todo[t] THEN "1HZ" ELSE CHOOSE f \in todo[t] : TRUE

SetInterruptFlag(t) ==
  /\ todo[t] # {} /\ ~trig[t] /\ op[t] = NoOp
  /\ NextToRaise(t) = "60HZ" => ~RomClassic \/ started
  /\ flags' = flags \cup {NextToRaise(t)}
  /\ todo' = [todo EXCEPT ![t] = @ \ {NextToRaise(t)}]
  /\ trig' = [trig EXCEPT ![t] = TRUE]
  /\ UNCHANGED <<op, ticks, event, cpuVars>>

TriggerInterrupt(t) ==
  /\ trig[t]
  /\ trig' = [trig EXCEPT ![t] = FALSE]
  /\ SPCFLAGS_SET(t, {"INT"})
  /\ UNCHANGED <<flags, todo, ticks, event, cpuVars>>

-----------------------------------------------------------------------------
(* The emulated CPU between two instructions: m68k_do_specialties().       *)

deviceVars == <<todo, trig, ticks>>

\* The CPU thread runs 68k code (not an EmulOp) and is not updating spcflags.
Interpreting(where) ==
  /\ emulop[depth].at = "none"
  /\ op["cpu"] = NoOp
  /\ pc = where

intlev == IF flags # {} THEN 1 ELSE 0

SetHandler(n, done) ==
  handler' = [handler EXCEPT ![depth] = [n |-> n, done |-> done]]

SetEmulOp(at, i, m) ==
  emulop' = [emulop EXCEPT ![depth] = [at |-> at, i |-> i, mask |-> m]]

\* m68k_do_execute() looks for special flags after every instruction.
TestSpcflags ==
  /\ Interpreting("check")
  /\ pc' = IF spc = {} THEN "run" ELSE "stop"
  /\ UNCHANGED <<op, mask, handler>>

\* while (SPCFLAGS_TEST(SPCFLAG_STOP)): spins until an interrupt is pending.
TestStop ==
  /\ Interpreting("stop")
  /\ \/ /\ "STOP" \notin spc
        /\ pc' = "doint"
        /\ UNCHANGED op
     \/ /\ "STOP" \in spc
        /\ {"INT", "DOINT"} \cap spc # {}
        /\ SPCFLAGS_CLEAR("cpu", {"INT", "DOINT"})
        /\ pc' = "stoplevel"
  /\ UNCHANGED <<mask, handler>>

\* Interrupt(): Exception() clears the trace flags, then the mask is raised.
Interrupt(next) ==
  /\ SetHandler(handler[depth].n + 1, FALSE)
  /\ ClearTrace("cpu")
  /\ pc' = next
  /\ UNCHANGED mask

LevelInStop ==
  /\ Interpreting("stoplevel")
  /\ IF intlev > mask
       THEN Interrupt("stopmask")
       ELSE pc' = "stop" /\ UNCHANGED <<op, mask, handler>>

TestDoint ==
  /\ Interpreting("doint")
  /\ IF "DOINT" \in spc
       THEN SPCFLAGS_CLEAR("cpu", {"DOINT"}) /\ pc' = "level"
       ELSE pc' = "int" /\ UNCHANGED op
  /\ UNCHANGED <<mask, handler>>

Level ==
  /\ Interpreting("level")
  /\ IF intlev > mask
       THEN Interrupt("mask")
       ELSE pc' = "int" /\ UNCHANGED <<op, mask, handler>>

\* Mutated form: an interrupt taken in the STOP loop leaves SPCFLAG_STOP.
RaiseMask_KeepsStop ==
  /\ Interpreting("mask") \/ Interpreting("stopmask")
  /\ mask' = 1
  /\ SPCFLAGS_SET("cpu", {"INT"})
  /\ pc' = IF pc = "mask" THEN "int" ELSE "stop"
  /\ UNCHANGED handler

\* The end of Interrupt(): regs.intmask = nr; SPCFLAGS_SET(SPCFLAG_INT).
RaiseMask ==
  /\ Interpreting("mask") \/ Interpreting("stopmask")
  /\ mask' = 1
  /\ SPCFLAGS_SET("cpu", {"INT"})
  /\ pc' = IF pc = "mask" THEN "int" ELSE "unstop"
  /\ UNCHANGED handler

ClearStop ==
  /\ Interpreting("unstop")
  /\ SPCFLAGS_CLEAR("cpu", {"STOP"})
  /\ pc' = "stop"
  /\ UNCHANGED <<mask, handler>>

\* An interrupt is taken one instruction after SPCFLAG_INT is seen.
TestInt ==
  /\ Interpreting("int")
  /\ IF "INT" \in spc
       THEN SPCFLAGS_CLEAR("cpu", {"INT"}) /\ pc' = "setdoint"
       ELSE pc' = "brk" /\ UNCHANGED op
  /\ UNCHANGED <<mask, handler>>

SetDoint ==
  /\ Interpreting("setdoint")
  /\ SPCFLAGS_SET("cpu", {"DOINT"})
  /\ pc' = "brk"
  /\ UNCHANGED <<mask, handler>>

TestBrk ==
  /\ Interpreting("brk")
  /\ IF "BRK" \in spc
       THEN SPCFLAGS_CLEAR("cpu", {"BRK"}) /\ pc' = "exit"
       ELSE pc' = "run" /\ UNCHANGED op
  /\ UNCHANGED <<mask, handler>>

\* MakeFromSR() ends with an update that clears SPCFLAG_TRACE.
EndMakeFromSR ==
  /\ Interpreting("sr")
  /\ ClearTrace("cpu")
  /\ pc' = "check"
  /\ UNCHANGED <<mask, handler>>

Specialties ==
  /\ \/ TestSpcflags \/ TestStop \/ LevelInStop \/ TestDoint \/ Level
     \/ RaiseMask \/ ClearStop \/ TestInt \/ SetDoint \/ TestBrk
     \/ EndMakeFromSR
  /\ UNCHANGED <<flags, spc, deviceVars, event, started, quit, depth, emulop>>

\* m68k_execute(): leaves the loop when quit_program is set; Execute68k() then
\* resets quit_program and its caller, an EmulOp(), goes on.
LeaveDoExecute ==
  /\ Interpreting("exit")
  /\ IF quit
       THEN /\ depth' = depth - 1
            /\ SetHandler(0, TRUE)
            /\ quit' = FALSE
       ELSE UNCHANGED <<depth, handler, quit>>
  /\ pc' = "run"
  /\ UNCHANGED <<flags, spc, op, deviceVars, event, started, mask, emulop>>

-----------------------------------------------------------------------------
(* The instructions of the 68k program that matter here.                   *)

codeVars == <<flags, spc, deviceVars, event, depth>>

MakeFromSR(m) ==
  /\ mask' = m
  /\ SPCFLAGS_SET("cpu", {"INT"})
  /\ pc' = "sr"

\* A trap or any other instruction that raises a 68k exception.
Trap ==
  /\ Interpreting("run")
  /\ ClearTrace("cpu")
  /\ pc' = "check"
  /\ UNCHANGED <<codeVars, started, mask, quit, handler, emulop>>

\* A write to SR; bound: level 1 is unmasked only where a handler may nest.
SetSR(m) ==
  /\ Interpreting("run")
  /\ m = 0 => handler[depth].done /\ handler[depth].n < MaxHandlers
  /\ MakeFromSR(m)
  /\ UNCHANGED <<codeVars, started, quit, handler, emulop>>

\* STOP with an SR that lets level 1 through.
Stop ==
  /\ Interpreting("run")
  /\ UsesStop
  /\ handler[depth].done /\ handler[depth].n < MaxHandlers
  /\ mask' = 0
  /\ SPCFLAGS_SET("cpu", {"INT"})
  /\ pc' = "setstopped"
  /\ UNCHANGED <<codeVars, started, quit, handler, emulop>>

m68k_setstopped ==
  /\ Interpreting("setstopped")
  /\ SPCFLAGS_SET("cpu", {"STOP"})
  /\ pc' = "check"
  /\ UNCHANGED <<codeVars, started, mask, quit, handler, emulop>>

\* Mac OS leaves a level 1 handler; level 1 was unmasked when it entered it.
Rte ==
  /\ Interpreting("run")
  /\ handler[depth].n > 0 /\ handler[depth].done
  /\ SetHandler(handler[depth].n - 1, TRUE)
  /\ MakeFromSR(0)
  /\ UNCHANGED <<codeVars, started, quit, emulop>>

\* The system writes the low-memory signature HasMacStarted() looks for.
\* Nothing below depends on it unless the ROM is a classic one.
Boot ==
  /\ Interpreting("run")
  /\ RomClassic /\ ~started
  /\ started' = TRUE
  /\ pc' = "check"
  /\ UNCHANGED <<codeVars, op, mask, quit, handler, emulop>>

\* Mutated form: the loop is asked to quit, but not interrupted.
m68k_emulop_return_NoBrk ==
  /\ Interpreting("run")
  /\ depth > 1 /\ handler[depth].n = 0
  /\ quit' = TRUE
  /\ pc' = "check"
  /\ UNCHANGED <<codeVars, op, started, mask, handler, emulop>>

\* The routine called by Execute68k() has returned to M68K_EXEC_RETURN.
m68k_emulop_return ==
  /\ Interpreting("run")
  /\ depth > 1 /\ handler[depth].n = 0
  /\ SPCFLAGS_SET("cpu", {"BRK"})
  /\ quit' = TRUE
  /\ pc' = "check"
  /\ UNCHANGED <<codeVars, started, mask, handler, emulop>>

\* An EMUL_OP: m68k_emulop() saves SR and calls EmulOp().
m68k_emulop(at) ==
  SetEmulOp(at, 1, mask)

\* The level 1 handler starts with M68K_EMUL_OP_IRQ.
IrqOp ==
  /\ Interpreting("run")
  /\ ~handler[depth].done
  /\ SetHandler(handler[depth].n, TRUE)
  /\ m68k_emulop("test")
  /\ UNCHANGED <<codeVars, op, started, mask, quit, pc>>

\* Any other opcode whose EmulOp() may call 68k code.
OtherOp ==
  /\ Interpreting("run")
  /\ handler[depth].done
  /\ depth < MaxDepth
  /\ m68k_emulop("other")
  /\ UNCHANGED <<codeVars, op, started, mask, quit, pc, handler>>

-----------------------------------------------------------------------------
(* EmulOp(), which runs on the CPU thread and takes no interrupt itself.   *)

At(where) == emulop[depth].at = where

Irq == IrqOrder[emulop[depth].i]

Goto(where, i) == SetEmulOp(where, i, emulop[depth].mask)

Index == emulop[depth].i

\* Mutated form: does not stop at the last flag.
IrqTest_PastEnd ==
  /\ At("test")
  /\ IF Irq \in flags THEN Goto("clear", Index) ELSE Goto("test", Index + 1)
  /\ UNCHANGED <<flags, event, depth, quit, pc, op, mask>>

\* if (InterruptFlags & flag): read without the lock.
IrqTest ==
  /\ At("test")
  /\ IF Irq \in flags
       THEN Goto("clear", Index)
       ELSE IF Index = 5
         THEN Goto("end", Index)
         ELSE Goto("test", Index + 1)
  /\ UNCHANGED <<flags, event, depth, quit, pc, op, mask>>

ClearInterruptFlag ==
  /\ At("clear")
  /\ flags' = flags \ {Irq}
  /\ Goto("handle", Index)
  /\ UNCHANGED <<event, depth, quit, pc, op, mask>>

\* The call of TimerInterrupt(), SerialInterrupt(), EtherInterrupt(), ...
IrqHandle ==
  /\ At("handle")
  /\ event' = IF Irq \in IOFlags THEN [event EXCEPT ![Irq] = FALSE] ELSE event
  /\ Goto("body", Index)
  /\ UNCHANGED <<flags, depth, quit, pc, op, mask>>

\* Mutated form: the flag is taken down (again) after its handler has run.
IrqHandled_ClearsLate ==
  /\ At("body")
  /\ flags' = flags \ {Irq}
  /\ IF Index = 5
       THEN Goto("end", Index)
       ELSE Goto("test", Index + 1)
  /\ UNCHANGED <<event, depth, quit, pc, op, mask>>

\* Mutated form: one flag for each interrupt, as if by else if.
IrqHandled_ElseIf ==
  /\ At("body")
  /\ Goto("end", Index)
  /\ UNCHANGED <<flags, event, depth, quit, pc, op, mask>>

IrqHandled ==
  /\ At("body")
  /\ IF Index = 5
       THEN Goto("end", Index)
       ELSE Goto("test", Index + 1)
  /\ UNCHANGED <<flags, event, depth, quit, pc, op, mask>>

\* Execute68k() and Execute68kTrap(), called by a handler or another EmulOp.
Execute68k ==
  /\ At("body") \/ At("other")
  /\ depth < MaxDepth
  /\ depth' = depth + 1
  /\ quit' = FALSE
  /\ pc' = "run"
  /\ UNCHANGED <<flags, event, op, mask, emulop>>

\* m68k_emulop() restores the registers and SR it saved.
EndEmulOp ==
  /\ At("end") \/ At("other")
  /\ SetEmulOp("none", 1, 0)
  /\ MakeFromSR(emulop[depth].mask)
  /\ UNCHANGED <<flags, event, depth, quit>>

EmulOp ==
  /\ \/ IrqTest \/ ClearInterruptFlag \/ IrqHandle \/ IrqHandled
     \/ Execute68k \/ EndEmulOp
  /\ UNCHANGED <<spc, deviceVars, started, handler>>

-----------------------------------------------------------------------------
Code ==
  \/ Trap \/ SetSR(0) \/ SetSR(1) \/ Stop \/ m68k_setstopped \/ Rte \/ Boot
  \/ m68k_emulop_return \/ IrqOp \/ OtherOp

Device(t) == SetInterruptFlag(t) \/ TriggerInterrupt(t)

Next ==
  \/ \E t \in Threads : Spcflags(t)
  \/ \E t \in Devices : Device(t)
  \/ \E f \in IOFlags : Complete(f)
  \/ one_tick \/ SkipTick
  \/ Specialties \/ LeaveDoExecute \/ Code \/ EmulOp

Spec == Init /\ [][Next]_vars

(***************************************************************************)
(* Fairness.  The host schedules every thread, so each thread that can     *)
(* take its next step takes it; the 60Hz thread never stops ticking.  What *)
(* the 68k program does is Mac OS's affair: it is assumed to reach the     *)
(* IRQ opcode and the end of each handler it enters, to return from the    *)
(* routines it is called for, not to keep calling Execute68k() from one    *)
(* EmulOp, to boot, not to mask level 1 for ever, and to execute, again    *)
(* and again, an instruction other than a write to SR with level 1         *)
(* unmasked (an interrupt is taken one instruction after the write).       *)
(***************************************************************************)
Cpu == Spcflags("cpu") \/ Specialties \/ LeaveDoExecute \/ Code \/ EmulOp

Finish == EmulOp /\ (EndEmulOp \/ IrqHandled)

Fairness ==
  /\ WF_vars(Cpu)
  /\ WF_vars(Spcflags("tick") \/ Device("tick") \/ one_tick \/ SkipTick)
  /\ \A f \in IOFlags : WF_vars(Spcflags(f) \/ Device(f))
  /\ SF_vars(IrqOp) /\ SF_vars(Rte \/ m68k_emulop_return)
  /\ SF_vars(Finish) /\ SF_vars(Boot)
  /\ SF_vars(SetSR(0)) /\ SF_vars(Trap /\ mask = 0)

FairSpec == Spec /\ Fairness

-----------------------------------------------------------------------------
(* Properties.                                                             *)

OpType == [ph : {"none", "load", "store"}, set : SUBSET Spc, clr : SUBSET Spc,
           val : SUBSET Spc]

HandlerType == [n : Nat, done : BOOLEAN]

EmulOpType == [at : {"none", "other", "test", "clear", "handle", "body", "end"},
               i : 1 .. 5, mask : {0, 1}]

Places == {"run", "check", "sr", "setstopped", "stop", "stoplevel", "stopmask",
           "unstop", "doint", "level", "mask", "int", "setdoint", "brk", "exit"}

\* The type of every variable.
TypeOK ==
  /\ flags \subseteq Flags /\ spc \subseteq Spc
  /\ op \in [Threads -> OpType]
  /\ todo \in [Devices -> SUBSET Flags]
  /\ trig \in [Devices -> BOOLEAN]
  /\ ticks \in 0 .. TicksPerSecond
  /\ event \in [IOFlags -> BOOLEAN]
  /\ started \in BOOLEAN /\ mask \in {0, 1} /\ quit \in BOOLEAN
  /\ depth \in Depths
  /\ handler \in [Depths -> HandlerType]
  /\ emulop \in [Depths -> EmulOpType]
  /\ pc \in Places

\* A device's news is never forgotten: until a handler has looked at the
\* device its flag is up, or about to be raised by its thread, or the IRQ
\* opcode has just taken the flag down to call the handler (EmulOp() clears
\* a flag before it calls the handler, not after).
NoLostEvent ==
  \A f \in IOFlags :
    event[f] => f \in todo[f] \cup flags \/ (At("handle") /\ Irq = f)

\* Execute68k() returns when the routine has reached M68K_EXEC_RETURN: the
\* interpreter never fetches another instruction once quit_program is set.
\* It leaves m68k_do_execute() by SPCFLAG_BRK, which another thread's update
\* of spcflags must not undo.
ExecuteReturns == quit => ~Interpreting("run")

\* The emulated CPU waits in the STOP loop only with level 1 unmasked, so the
\* next interrupt ends the wait.  Interrupt() raises the mask inside the loop,
\* and a SPCFLAG_STOP another thread wrote back would keep it there for good.
StopUnmasked ==
  "STOP" \in spc /\ (Interpreting("stop") \/ Interpreting("stoplevel")) => mask = 0

\* Every flag raised is taken down by the level 1 handler in the end, though
\* a SPCFLAG_INT may be lost on the way or an interrupt taken at
\* M68K_EXEC_RETURN be dropped with the activation.
EventuallyHandled == \A f \in Flags : f \in flags ~> f \notin flags
=============================================================================
