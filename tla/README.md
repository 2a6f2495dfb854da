# Basilisk II in TLA+

Basilisk II emulates a 68k Macintosh; this repository ports it to Android, on
SDL 1.2. This directory models the parts of the emulator in which several
threads, or 68k code and the emulator's drivers, depend on each other's order:
TLC checks the models on small instances, TLAPS proves theorems about each of
them for all values of the constants. Paths below are relative to
`src/jni/BasiliskII/src/` unless they begin with `src/`.

Contents: [the system](#1-the-system), [modules](#2-modules),
[runs](#3-runs), [fairness](#4-fairness), [proofs](#5-proofs),
[findings](#6-findings-and-known-deviations),
[what is left out](#7-what-is-not-modelled), [plan](#8-plan).

## 1. The system

### How the parts interact

One thread, the *CPU thread*, interprets 68k code (`uae_cpu/newcpu.cpp`). An
illegal opcode in a patched ROM, an *EmulOp*, calls a driver in C++; a driver
may run 68k code in turn with `Execute68k()`, so both nest. All other threads
serve the CPU thread:

| thread | code | gives the CPU thread |
| --- | --- | --- |
| 60Hz | `Unix/main_unix.cpp` `tick_func`, `one_tick` | `INTFLAG_60HZ`, `INTFLAG_1HZ` |
| XPRAM watchdog | `Unix/main_unix.cpp` `xpram_func` | nothing; it reads `XPRAM` and writes the file |
| redraw | `SDL/video_sdl.cpp` `redraw_func` | `INTFLAG_ADB`, mouse state, the ring of key events, requests to quit, the first floppy to be mounted (Ctrl-F1) |
| serial input and output, two per port | `Unix/serial_unix.cpp` | `INTFLAG_SERIAL`, `read_done`, `write_done` |
| Ethernet reception | `Unix/ether_unix.cpp` `receive_func` | `INTFLAG_ETHER` |
| sound streaming | `SDL/audio_sdl.cpp` `stream_func` in SDL's `SDL_RunAudio` | `INTFLAG_AUDIO` |

Every one of them announces its news in the same way: it sets a bit of
`InterruptFlags` under a lock, then sets `SPCFLAG_INT` in the CPU's special
flags by `TriggerInterrupt()`. After its next instruction the CPU thread looks
at the special flags, takes a level 1 interrupt if the mask allows it, and the
handler's first instruction is the EmulOp `M68K_EMUL_OP_IRQ`, which takes down
each flag that is up and calls the driver's interrupt routine. Some threads then
wait on a semaphore until the driver has answered (sound, Ethernet), others on
one the driver signals for a request (serial). Closing a driver joins its thread
on the CPU thread, which takes no interrupt in the meantime.

### Components

For each component: its state, its operations, what is hard about it, and what
makes it correct.

**Interrupts** (`uae_cpu/newcpu.cpp`, `uae_cpu/spcflags.h`,
`uae_cpu/basilisk_glue.cpp`, `emul_op.cpp`, `Unix/main_unix.cpp`). State:
`InterruptFlags`, `regs.spcflags`, the interrupt mask, STOP, `quit_program`.
Operations: `SetInterruptFlag`, `TriggerInterrupt`, `m68k_do_specialties`,
`Interrupt`, `MakeFromSR`, `Execute68k`, the IRQ opcode. Hard: `spcflags` is
updated by every thread, on Android without a lock; activations of the
interpreter nest and share `quit_program`; the IRQ opcode clears a flag and then
runs its handler while devices go on. Correct if no event is forgotten,
`Execute68k()` returns where its routine does, STOP ends, every flag is handled.

**Time Manager** (`timer.cpp`). State: 64 descriptors, and in each TMTask record
in Mac memory its active and extended bits and its last wakeup time. Operations:
`InsTime`, `PrimeTime`, `RmvTime`, `TimerReset`, `TimerInterrupt`. Hard: the
routines called from `TimerInterrupt()` change the table under the loop, and may
be interrupted by a second `TimerInterrupt()`; descriptors are reused; the table
may be full. Correct if it is an alarm clock: a task rings once, not early, not
after its removal, and not never.

**Keyboard and mouse** (`adb.cpp`). State: mouse position, motion and buttons,
a ring of 16 keyboard events, what was reported last. Operations:
`ADBMouseMoved`, `ADBMouseDown/Up`, `ADBSetRelMouseMode`, `ADBKeyDown/Up` on the
redraw thread, `ADBInterrupt` and `ADBOp` on the CPU thread. Hard: the ring has no
lock and no test for being full; the mode changes in two writes and is read twice;
motion is copied and cleared while the mouse moves. Correct if events are reported once and in order,
motion adds up, and the last state is reported.

**Serial driver** (`serial.cpp`, `Unix/serial_unix.cpp`). State per port:
pending/done flags of each side, deferred tasks, two threads with semaphores.
Operations: `Open`, `Prime`, `Control` (`KillIO`), `Status`, `Close`,
`SerialInterrupt`. Hard: `KillIO` and `Close` against threads in the middle of
a request, completions of both sides through one flag, opening again. Correct if
each request is completed once, after its I/O, and closing leaves no thread.

**Sound** (`audio.cpp`, `SDL/audio_sdl.cpp`). State: the mixer's component, a
data area in Mac memory, open count, number of sources, the SDL device and its
thread. Operations: the component's selectors, `AudioInterrupt`, `AudioReset`,
`audio_enter/exit_stream`, format changes. Hard: the streaming thread waits for
an interrupt, while format changes and the end wait for the streaming thread;
calls of the mixer are interrupted by the interrupt that calls the mixer.

**Ethernet** (`ether.cpp`, `Unix/ether_unix.cpp`). State: protocol handlers,
driver data and packet buffer in Mac memory, the acknowledge semaphore. Hard:
handlers run 68k code in the middle of `EtherInterrupt()` and may attach and
detach handlers; a restart of MacOS invalidates its addresses.

**Disk drivers** (`sony.cpp`, `disk.cpp`, `cdrom.cpp`, `Unix/sys_unix.cpp`). State: per
drive its number, its status record in Mac memory, `to_be_mounted`, for CD-ROMs
the TOC; `acc_run_called` of each driver. Operations: opening, the periodic action,
the 1 Hz interrupt, ejecting, control calls. Hard: the drivers share numbers through
MacOS's drive queue; allocation runs 68k code, and so interrupts, and may fail; the
user changes discs between a test and the lock of the door, and mounts floppies from
another thread; a restart of MacOS invalidates the status records and the driver is not
told. Correct if a number leads to the right drive, events are posted once and
for discs that are there, what MacOS has mounted is the disc in the drive, and discs
are mounted in the end.

**Display** (`SDL/video_sdl.cpp`). State: the driver object, the frame buffer
and its copy, palette, `redraw_thread_cancel`, `emerg_quit`. Hard: MacOS draws
while rows are compared, copied and shown; mode switches delete and build again
what the redraw thread uses; the redraw thread can ask the emulator to end.

**XPRAM** (`main.cpp`, `xpram.cpp`, `Unix/main_unix.cpp`, `Unix/xpram_unix.cpp`).
State: 256 bytes, the watchdog's copy, the file. Hard: the watchdog compares,
copies and saves without a lock while MacOS writes; the emulator saves at its
end; Android kills the process at any point.

**Host clock** (`Unix/timer_unix.cpp`). No state but the host's; sum, difference and
comparison of `struct timeval`s, and conversions to and from the Mac's 32-bit times,
positive milliseconds or negative microseconds. Hard: borrows and signs, the two units,
the end of the 32 bits.

**Others**: SCSI, ExtFS, CPU and FPU semantics, EmulOp dispatch, ROM patches, start-up and prefs, host services, the Android
application, SDL. They are listed in `PROJECT.json` with the reason why they
are not modelled, or not yet; see section 7.

The hazards of all of these, with their lines and the properties that cover
them, are under `"hazards"` in `PROJECT.json`.

## 2. Modules

| module | models | proofs | instance |
| --- | --- | --- | --- |
| `Interrupts` | interrupt machinery | `InterruptsProofs` | `MCInterrupts` |
| `TimeManager` | Time Manager | `TimeManagerProofs` | `MCTimeManager` |
| `HostClock` | host times and Mac times, used by `TimeManager` | `TimeManagerProofs` | |
| `Alarms` | what the Time Manager promises; `TimeManager` implements it | `TimeManagerProofs` | |
| `ADB` | keyboard and mouse | `ADBProofs` | `MCADB` |
| `Serial` | one serial port | `SerialProofs` | `MCSerial` |
| `Audio` | sound output | `AudioProofs` | `MCAudio` |
| `Ether` | packet reception | `DevicesProofs` | |
| `Disks` | the three disk drivers | `DevicesProofs` | |
| `Devices` | `Ether` and `Disks` side by side | `DevicesProofs` | `MCDevices` |
| `Video` | the display | `VideoProofs` | `MCVideo` |
| `XPRAM` | parameter RAM and its file | `XPRAMProofs` | `MCXPRAM` |

Variables and actions have the names of the code where they stand for one thing
of the code; `"map"` in `PROJECT.json` gives the lines of each definition. All
modules follow the same conventions:

* A variable such as `pc`, `cpu`, `thread`, `stream`, `redraw`, `dog` or `irq`
  says where a thread is. An action is the code between two points at which
  another thread, or 68k code, can see or change something; what happens in one
  critical section is one action.
* The drivers' modules take from `Interrupts` what `InterruptsProofs` shows:
  a flag that is raised stays up until the handler takes it down. They model
  their own flag as a Boolean variable, and their interrupt as an action that is
  possible when it is up and 68k code runs.
* Variables marked *history* record what happened, to state a property; no guard
  of the model depends on them (but for `Audio.instances`, which is what MacOS
  knows: it does not close what it has not opened).
* Definitions marked *mutated form* are plausible mistakes, one for each property;
  they are no part of any specification. With the mutated form in place of the
  definition that follows it, TLC finds the property violated.

**`Interrupts`.** `op[t]` is an update of `spcflags` that thread `t` is in the
middle of: with `Exclusive` it is one step (`LockedUpdate`), without it a load
and a store. `pc` walks through `m68k_do_execute()`: `TestSpcflags`, the STOP
loop (`TestStop`, `LevelInStop`, `ClearStop`), `TestDoint`, `Level`,
`Interrupt`/`RaiseMask`, `TestInt`, `SetDoint`, `TestBrk`. The 68k program is
left open (`Code`): it changes SR, executes STOP and EmulOps, and raises
exceptions in any order, and returns from handlers and from the routines of
`Execute68k()`. `depth`, `handler` and `emulop` are the nested activations. An
`EmulOp` runs the IRQ opcode's sequence of tests (`IrqTest`,
`ClearInterruptFlag`, `IrqHandle`, `IrqHandled`) or another EmulOp that may call
68k code. `event[f]` is a device's news no handler has seen.

**`TimeManager`.** The table is `in_use`, `task`, `wakeup`; the bits and times in
the Mac's records are `active`, `extended`, `scheduled`, `tmCount`. `scan` is a
stack of `TimerInterrupt()` activations, and `Program` is 68k code, either the
program's or the routine of the innermost activation.

**`HostClock`** has the functions of `Unix/timer_unix.cpp` under their names, in the
form they take with `struct timeval` (this build's `config.h` has no
`HAVE_CLOCK_GETTIME`). `TimeManager` does with its wakeup times what the code does,
and compares, adds and subtracts nothing itself. The units are constants: `Milli` is
1000 in the code and `INT_MAX` 2^31 - 1; with `Milli = 2` and `INT_MAX = 1` TLC meets
both units, their borrows and the end of the range within a few microseconds. Seconds
are unbounded, and the delay of -2^31 microseconds, which cannot be negated, is left
out.

**`Alarms`** knows no descriptors: a task is installed, set for a time, rings or
is removed. It is used as a refinement, `KeepsPromise == Promise!Spec`. When a
relative (extended) alarm that had been set before is set, the time is left open,
since the code takes the last time from a descriptor that another task may have
used since (see section 6).

**`ADB`.** One coordinate and one button; `input` and `irq` are the two threads.
The ring is modelled slot by slot. Keys are single events; an interrupt reports
motion in `-Reports .. Reports - 1` and drops the higher bits.

**`Serial`.** One port; both sides have the same thread (`Thread(s)`), which is
what `input_func` and `output_func` share. `cpu` walks through `SerialOpen`,
`KillIO`, `Close` and the end. `request[s]` is what became of a request, and
`performed[s]` that its read or write took place.

**`Audio`.** `stream` is SDL's thread loop with `stream_func()` in it, `cpu` the
component's calls, `irq` an interrupt that may come in each of them that runs 68k
code. `Reset` is a restart of MacOS.

**`Ether`.** Blocks of Mac memory are `none`, `new`, or `old` when they belong to
the MacOS before the last restart. Packets have a protocol or are too short.

**`Disks`.** `cpu.task` and `cpu.irq` say which driver call runs at task level and in the
interrupt, for which drive, and how far it is; the interrupt comes where 68k code
runs, in MacOS itself, in `NewPtrSysClear()` and in `PostEvent()`. One module stands for
three drivers, since their loops have the same steps; what they do differently is in
`DISK_INSERT_CHECK` (floppies are not looked for), `SetUpDrive` (images are fixed in
`disk.cpp` only) and `PreventRemoval` (CD-ROMs only). MacOS names a drive by its
number, and every call goes through `get_drive_info()`. A status record is `new`, `old`
if it is of the MacOS before the last restart, or `none`; what a driver reads in one
that is not `new` is arbitrary (`InPlace`). The user (`Insert`, `Remove`)
acts at any time, the events' thread in two steps (`KeyPlace`, `KeyFlag`), since
`SonyMountVolume()` takes no lock.

**`Devices`** composes `Ether` and `Disks` (hence the names `DisksInit`, `DisksNext` and the
like): the steps of one come between those of the other. They share nothing, which
`DriversApart` of `DevicesProofs` makes precise, and TLC would see nothing more in their
product; so `MCDevices` lets only one of the two move, in `MCSpec`: the disk drivers if there
are drives, the network if there are none.

**`Video`.** One row of one box, with one value; `screen` is the pair of palette
and value that was blitted last. `redraw` walks through `redraw_func()`,
`handle_events()` and `video_refresh_window_static()`. A display that cannot be opened
again (`VideoOpenFails`) ends the emulator.

**`XPRAM`.** `dog` is the watchdog (wait, compare, copy, save byte by byte), `cpu`
the program and then `QuitEmulator()`. A kill ends the process at any point, also
in the middle of a save, and starts it again with what the file then has. Either save
may find that the file cannot be opened (`OpenFails`, `ExitOpenFails`); the history variable
`unsaved` records that the one at the end did.

## 3. Runs

All runs but the two findings pass; with two workers each takes less than three
minutes. Where a cfg says `CHECK_DEADLOCK FALSE` (Serial, Audio, Video, XPRAM)
the system really stops: the emulator has ended, or (Serial, Audio) waits for a
thread that waits for it, which is one of the known deviations of section 6.

| run | question | bounds | distinct states |
| --- | --- | --- | --- |
| `int_locked` | with atomic updates of `spcflags`: does `Execute68k()` return, is STOP left, is every flag handled, with nested handlers and calls? | no I/O threads but the 60Hz thread, 2 activations, 1 handler each, 1 Hz every second tick | 59k |
| `int_android` | with plain updates: is no device event forgotten? | one I/O thread, 1 activation, classic ROM | 3.1M |
| `int_brk` | *violation*: does `Execute68k()` return with plain updates? | one I/O thread, 2 activations, no STOP | 4.6k |
| `tm_tasks` | does the Time Manager implement `Alarms`, with nested interrupts and both kinds of tasks, and tell what is left of a delay? | 2 tasks, 2 descriptors, 2 nested interrupts, delays of 1 us and 1 ms (2 us here), 2 times of the clock, wakeup times up to 4 us | 2.4M |
| `tm_full` | does every task that found a descriptor keep it, and ring in the end? | 3 tasks, 2 descriptors, one without a routine, 2 times of the clock | 347k |
| `adb_events` | are keys, motion, buttons and positions reported, whatever comes when? | 2 keys, ring of 3, moves of 1, both modes, MacOS not started at first | 410k |
| `serial_requests` | is every request completed once, after its I/O, and does closing end? | every call; nothing else to bound | 4.4k |
| `audio_stream` | does the handshake of thread and interrupt hold through all calls? | 2 instances, 2 sources | 1.5k |
| `audio_format` | *violation*: is the interrupt the thread triggers always taken? | the same | 0.4k |
| `devices` | Ethernet: are interrupts never nested, handlers valid and packets read? Disks: do numbers lead to the right drive, are events posted once and for discs that are there, is the mounted volume the disc in the drive, are discs mounted? | 2 protocols and short packets, 3 queued; 4 setups of one removable drive or two images, discs with and without HFS, 1 restart of MacOS | 35.6k |
| `video_window` | does the redraw thread only use what is there, is every pixel shown, do switches and quitting end? | 3 values, one palette besides gray and ramp, every second frame | 18.7k |
| `xpram_exit` | has the file one writer, is it whole at the end if it can be opened then, and are changes saved, also after a kill? | 2 bytes of 3 values, 1 save that fails, of the watchdog or at the end, 1 kill | 102k |

Why the bounds are enough:

* *Interrupts*: two activations are the least in which `quit_program` and
  `SPCFLAG_BRK` of one can meet a handler of the other; the flags are handled by
  one loop that treats all alike, and two of them (60HZ, 1HZ) are raised by the
  same thread in one call, which is the case that tests the loop. Lost updates need
  one other thread beside the CPU's and the 60Hz thread. `TicksPerSecond = 1`
  makes the second come every other tick. The safety properties are also proved
  for all bounds.
* *TimeManager*: two descriptors are the least with a "later" one and with a
  freed one before one in use; a third task makes the table full; two nested
  interrupts stand in two places of the table at once. The clock needs two values, for a
  time that has passed and one that has not; in `tm_tasks` the time left may be 0, one
  microsecond, more than `INT_MAX` microseconds and so in milliseconds, or negative (the time has
  passed), and the delays are of both units. Invariants and
  `LeftToWait` are proved for all bounds and units.
* *ADB*: a ring of three wraps around with events in it; two keys tell an order.
  `MaxWaiting` keeps one slot free, as the code has no test (section 6).
* *Serial*, *Audio*: there is one pair of threads (one thread); counts of 2 tell
  the last close from another one. Proved for all bounds, for their safety properties.
* *Ether*: three packets are a short one with another before and behind it.
* *Disks*: two drives, of the same driver or of two, are the least that can get each
  other's number; a removable disc meets only its own drive's steps, so one drive with
  two discs shows every order of changes, keys, interrupts and calls. After one
  restart everything the drivers keep is stale; a second one makes the same state again.
  The safety properties are proved for any drives, discs and restarts.
* *Video*: two values other than the empty one, so that pixels change and change
  again while a frame is under way; every second frame is drawn, so that
  events are also handled between two frames.
* *XPRAM*: with two bytes a loop stands between a byte it has handled and one it
  has not; three values let a byte change twice without coming back (coming back
  is a known deviation).

What the properties say in words stands above each in its module. Type
invariants are called `TypeOK`; `TypesOK` of `Devices` is that of `Ether` and of
`Disks`. `EventsReported` (ADB), `CallsEnd` (Serial), `ClosingEnds` (Video) and `FileWhole`
(XPRAM) are conjunctions of two properties with names of their own that answer one
question.

## 4. Fairness

Weak fairness of a thread's steps says that the host schedules each thread; that
`read`, `write`, `poll` and the like return is part of it, and said where it
matters. Beyond that:

* *Interrupts*: Mac OS, that is the 68k program, is assumed to reach the IRQ
  opcode and the end of each handler it enters, to return from the routines it is
  called for, not to nest `Execute68k()` for ever, to boot, and not to mask level 1
  for ever. These are strong fairness conditions, as each may be interrupted by a
  handler in between. They are about the program, not the emulator: an emulator
  cannot serve an interrupt that its program masks for ever.
* *TimeManager*: the 60Hz interrupt keeps coming (that is `EventuallyHandled` of
  `Interrupts`), and a task's routine returns (strong, as another interrupt may come in
  it). Nothing is assumed of the tasks: they may prime themselves in the past at each
  call.
* *ADB*: weak fairness of both threads, and the host stops typing at last:
  `ADBInterrupt()` goes on reading keys while the host types, and need not return.
* *Serial*, *Audio*, *Video*: the interrupt is taken in the end if 68k code runs
  again and again (strong: 68k code does not run while a driver's call is in
  progress). `KillIO`, closing, opening are calls of the program, with no fairness; once
  begun they go on (weak).
* *Ether*: weak fairness of the reception thread, the interrupt and its handlers;
  protocol handlers return.
* *Disks*: the interrupt's steps go on (weak); a driver's call at task level goes on
  although interrupts come in it, and the 1 Hz interrupt is taken although calls mask it
  (strong, and so justified: an interrupt takes far less than the second until the
  next); MacOS fetches each disk event in the end (strong: it is busy with calls in
  between). Nothing is assumed of the user, the keys, or of the calls of MacOS.
* *XPRAM*: weak fairness of the watchdog, the program's end and the saving of the file;
  nothing says that MacOS writes or that the user quits.

## 5. Proofs

`tlapm` checks every theorem below for all values of the constants that satisfy
the named `ASSUME`s of the module. TLC evaluates those on every run. Each proof
has one step for each action.

**`InterruptsProofs`** (from `ConstantsAssumption`, for any set of devices, any
depth and number of handlers).

* `TypeCorrect`: `Spec => []TypeOK`. The inductive invariant is `Typed`, which adds
  `quit => depth > 1`: `LeaveDoExecute` counts `depth` down, and without this it could
  reach 0.
* `EventsNotLost`: `Spec => []NoLostEvent`, for locked and plain updates alike.
  The strengthening is `RaisesOwn`: an I/O thread has only its own flag to raise;
  otherwise another thread's raise could stand for it. The argument is the order in
  `EmulOp()`: the flag is taken down before the handler looks at the device.
* `ExecuteReturnsIfLocked`: `Exclusive => (Spec => []ExecuteReturns)`. `Locked`
  says that no update is between load and store and devices only set
  `SPCFLAG_INT`; `Leaving` follows the BRK flag from `m68k_emulop_return` to the
  exit: being set, or set and not about to be cleared, or seen.
* `StopUnmaskedIfLocked`: the same with `Stopping`, which says where in the loop
  SPCFLAG_STOP can be set and that the mask is raised only on the way out.

* `StopHeedsFlagsIfLocked`: `Exclusive => (Spec => []StopHeedsFlags)`. In the STOP loop
  the CPU looks at `spcflags` only, so a flag that is up in `InterruptFlags` must have
  `SPCFLAG_INT` with it, or a thread that is about to set it (`Coming`). It is the part of
  `EventuallyHandled` that needs no fairness. `Wakeful` carries it: on the way to the loop
  `SPCFLAG_INT` is set (`MakeFromSR` does so whenever SR is written), so that the flags are
  looked at once before the CPU waits.

Without `Exclusive` the last three do not hold; for the first of them the run `int_brk` shows it.

**`SerialProofs`** (from `CallsAssumption`). One inductive invariant, `IInv`,
carries all four: `TypeCorrect`, `RequestsNotForgotten`, `CompletedAfterIO`,
`ClosedWithoutThreads`. `SideInv(s)` relates a thread's place with its
semaphore and the pending/done flags: a signal and a thread at work exclude each
other, so a request is under way in one place only. `CallInv` says what holds at each
place of the CPU thread (while the threads are joined one by one, for
instance). `NoneForgotten` itself is needed: without it `Prime()` could
signal a thread that is already at work.

**`AudioProofs`** (from `AudioAssumption`). `TypeCorrect` and `BlockHandedOnce`
(`Handshake`) need each other, since the type invariant bounds the semaphore by 1,
and `Counted` (no call closes more than was opened). `DataAreaThere` is the
action property `DataAreaUsed`; its invariant `DataInv` says at each place of a
call what mixer, instances and data area have to do with each other, as long as no
reset left `open_count` behind.

**`TimeManagerProofs`** (from `ClockAssumption` and `ConstantsAssumption`: the real
units and any others, any tasks, delays, table size, nesting). The lemmas `AddTime`,
`SubTime`, `MacToHost` and `HostToMac` say what the functions of `HostClock` do to
the microseconds a time stands for; `FirstOf`, `FindDesc` and `AllocDesc`, that a loop
through the table finds a descriptor if there is one. `TMInv` is the conjunction of
`TypeOK`, `OneDescriptor` and `AllInstalled`: what `InsTime()` and `RmvTime()` do to
the set of installed tasks follows only if no task has two descriptors. `TypeOK` also
says that an activation that calls a routine has not reached the end of the table, for
otherwise `Return` would step beyond it. `TypeCorrect`, `OneDescriptorEach` and
`NoneLost` are its parts. `LeftIsLeft` is `LeftToWait`: only `RmvTime()` takes a task's
descriptor and its alarm at once (`OnlyRmvTime`), and what it writes, converted back, is
the difference of wakeup time and clock (`LeftStep`).

`ImplementsAlarms` is the refinement, `Spec => KeepsPromise`: `InitAlarms` for the initial
states, and `StepAlarms`, with a lemma for each operation, for the steps. It rests on `TMInv`,
since an alarm is read off the first descriptor of its task, and on `Past`: an activation of
`TimerInterrupt()` compares with a time at which it began, and the clock does not go back, so
what it takes for due is due. `CmpTime` says that comparing `struct timeval`s compares
microseconds, `DueKept` that what happens to one descriptor leaves the other tasks' alarms
alone. What `TimerInterrupt()`'s loop does to the table between two rings is a stutter.

**`XPRAMProofs`** (from `XPRAMAssumption`). `XPRAMInv` adds
two facts to `TypeOK` and `SavedAtExit`: the watchdog has ended when the file is opened for
the last save (`DogEnded`), and what that save has passed equals `XPRAM` (`Written`).
`WholeAtExit` speaks of an end at which the file can be opened (`~unsaved`); nothing can be
said of another one, for then what MacOS wrote since the last save is lost.

`NoChangeMissed` is what `ChangesSaved` rests on, without fairness: whenever the watchdog is
about to compare, a byte that the file does not have differs from the watchdog's copy, so
the comparison finds it. Kills are included: a process that starts again has what the file has,
half saved or not. Bytes only grow as long as none is written back (`Undisturbed`), so
the file's byte lies between the copy and XPRAM's; `SavedInv` says so for each place of the
two loops.

**`ADBProofs`** (from `ADBAssumption`). `MotionAddsUp` is `Spec => MotionConserved`, whose
antecedent `[]relative_mouse` is a temporal one: `Conserved` is preserved by each
step between two states in relative mode. It is arithmetic modulo `Span`, of which the
provers know little: `ModUnique` gives remainders by their characterisation, and
`ModDifference`, `ModNegated` and the like follow. `OrderKept` is proved under
`RingBig`, that fewer events wait than the ring has slots, which the code does not
ensure (section 6): the ring's contents, slot by slot from the read pointer, are the
sequence of events that wait (`Ring`), and writing behind the last changes none of
them since slots at different distances differ (`SlotsDiffer`). `TypeCorrect` has the
same premise. `KeysAndButtonsWake` and `MovesWake` are the parts of `EventsReported` that
need no fairness: as long as MacOS is started, a key in the ring, a button, or in absolute
mode a position, that is not as it was last reported has an interrupt that is to come, or that has
yet to look at it. They need no bound on the keys.

**`VideoProofs`** (from `VideoAssumption`). `TypeCorrect` and `DriverThereAlways` need `Away`:
the driver is only away between the end of its thread and the start of the next one, or
until the emulator has ended if there is no next one.
`UnchangedIsShown` is what `PixelsShown` rests on: a pixel equal to its copy, which
`video_refresh_window_static()` passes over, is on the screen. While no value is drawn
again, copies are never ahead of the frame buffer (`CopyOlder`), so equality means that
nothing was drawn since the copy was made.

**`DevicesProofs`** (from `EtherAssumption` and `DrivesAssumption`), about `Ether`, about
`Disks`, and at its end about both.

* *Ether*: `EtherInv` is `TypeOK`, `OneInterrupt`, `HandlerHasData` and two facts they
  need: `Counted`, the number of packet buffers in use is 1 in the interrupt and 0 outside, and
  `Attached`, protocol handlers are attached only while the driver's data is of this
  MacOS. `InterruptsNotNested` rests on the handshake: the flag is raised and the
  acknowledge given once each, by turns.
* *Disks*, numbers and volumes: one invariant, `DInv`, carries `DisksTypes` and
  `MountedIsInDrive`. The first bounds the drive numbers by the count of drives: when a
  drive is numbered it is not in the queue itself, so the others take at most one number
  less than there are, and the pigeonhole principle (`FreeNumber`) leaves one.
  `NumbersLead` follows from `Numbers`, the queue's drives have different numbers, from
  `Opening`, between the choice of a number and the entry in the queue no other drive
  comes into the queue, because the interrupts in between open nothing, and from
  `Entered` (below): a drive with a status record that another one's number leads to
  would be in the queue itself, or be the one that is being opened. `MountedIsInDrive`
  needs `LockedIn`: a disc in place is behind a locked door and its TOC was read, unless
  the user was let eject it (`allowed`) or the disc was gone before the door was locked
  (`slipped`); and `Locking` and `Ejecting`, that nobody locks in or ejects a disc whose
  volume is mounted, or the TOC could change under it.
* *Disks*, events: `EventsForDisks` and `OneEventEach` are action properties, from
  `EventInv`. `FlagOf` says that a drive with an event to come has a disk in place; `OnceOf`,
  that a disk which has had its event has none to come, but while the process that posted
  it is about to clear the flag. They hold since the interrupt is not at work while its
  driver is opened or in `accRun` (`Active`), since the drives that `Open()` has yet to come to have
  no status record of this MacOS (`Fresh`), and since the flag of the one it is at was just
  reset (`Numbered`).
* *Disks*, mounting: `DisksNotForgotten` is the part of `DisksMounted` that needs no
  fairness. A disc that counts as in place is not looked for again, so its event must
  be on the way: to be posted, in MacOS's queue, turned into a mounted volume, or not wanted
  (`NoDiskForgotten`). `EntryInv` says that drives with a status record are in the drive
  queue (`Entered`), or an event for them would go nowhere; that a flag is
  cleared only after its event (`Sent`); and that only MacOS declines events (`Asked`). That the
  volume is there to be mounted rests on `LockedIn`; that no drive comes to be found by its
  number without having been served rests on `Fresh`.
* *Both*: `DriversApart`, every behaviour of `Devices` is one of each driver, gives
  `TypesCorrect`, and by it every theorem above holds of `Devices`.

What is only model-checked are the liveness properties: liveness under fairness, ENABLED and
induction over data are out of the prover's reach. For most of them the part that does not
depend on scheduling is proved, that is, an invariant which says that whatever waits has
someone on the way to it: `Handshake` (Audio), `OneInterrupt` (Ether), `NoneForgotten`
(Serial), `StopHeedsFlags`, `KeysAwake` and its like, `ChangesFound`, `EqualIsShown`,
`NoDiskForgotten`. No
module uses RECURSIVE operators.

## 6. Findings and known deviations

Two disagreements of code and documentation have a run that shows them:

* `int_brk`. Android does not define `ENABLE_EXCLUSIVE_SPCFLAGS`, so
  `TriggerInterrupt()` on another thread may load `spcflags`, the CPU thread set
  `SPCFLAG_BRK` in `m68k_emulop_return()`, and the other thread's store take it
  away. `Execute68k()` then runs on behind the routine's end, until
  another `SPCFLAG_BRK`; `src/jni/BasiliskII/TECH:211` promises that it returns.
* `audio_format`. `AudioSetInfo()` makes sure that there are no sources before it
  closes the device, but the streaming thread may have looked at `num_sources`
  before the last source was removed. It then triggers the interrupt and waits
  for an answer, and `close_audio()` joins it on the thread that would have to
  answer. `src/jni/BasiliskII/TECH:403` says that the interrupt is taken.

More became visible while modelling. No document or test says otherwise in so
many words, so no run states them; the properties leave these cases out explicitly, by
an antecedent or a history variable, and the hazards in `PROJECT.json` name the lines:

* Plain updates can also lose the clearing of `SPCFLAG_STOP`: the CPU spins in STOP
  with level 1 masked (`uae_cpu/newcpu.cpp:1325`). `StopUnmasked` is
  checked and proved for locked updates only; `EventuallyHandled` is checked for them only.
* `PrimeTime()` on an extended task takes its last wakeup time from its
  descriptor, which after `RmvTime()` and `InsTime()` may hold the time of another
  task (`timer.cpp:257`). `Alarms` leaves that time open.
* `InsTime()` with all descriptors in use only prints a message (`timer.cpp:182`);
  `AllInstalled` leaves such tasks out (`refused`).
* The ring of keyboard events is not tested for being full (`adb.cpp:294`): 16
  events between two reports are as good as none. `MaxWaiting` keeps one slot free.
* `KillIO` waits until a pending request is no longer pending; if the thread has
  already reported it, that takes an interrupt on the very thread that waits
  (`Unix/serial_unix.cpp:321`).
* The end of the emulator, and an open that fails half-way, cancel serial threads by a flag
  without signalling their semaphores (`Unix/serial_unix.cpp:103`); they do not end
  and the join hangs. `Unix/ether_unix.cpp:187` does the same.
* Deferred tasks are freed before `is_open` is cleared, and 68k code runs in between
  (`serial.cpp:220`): an interrupt may enqueue one that is freed.
* `AudioReset()` forgets the data area but not the mixer, the sources and the open
  count (`audio.cpp:62`).
* The Ethernet packet buffer is kept across restarts of MacOS (`ether.cpp:464`).
* A pixel that changes between a row's copy and its blit, and changes back later,
  equals its copy, so its old value is not repaired (`SDL/video_sdl.cpp:2103`); a new
  palette is not applied to pixels on a surface of 32 bits per pixel that do not change
  (`:1490`); exposed pixels of value 0 are not drawn again (`:1892`).
* In full-screen mode, which the application does not offer, a quit sets `drv` to
  NULL in the middle of a refresh (`:2175`).
* The watchdog copies XPRAM without a lock: a byte that changes between comparison
  and save and changes back is not saved (`Unix/main_unix.cpp:1143`).
* `SaveXPRAM()` does nothing if the file cannot be opened, and nobody notices
  (`Unix/xpram_unix.cpp:78`). The watchdog has copied the change by then and does not save it
  again before the end (`ChangesSaved` leaves failed saves out); at the end, whatever MacOS
  wrote since the last save is lost (`FileWhole` leaves such an end out, `unsaved`).
* After a kill in the middle of a save the file is half new and half old, and the emulator starts
  from it (`main.cpp:104`); in the very first save, the signature may be there before the
  rest, which the model's `signature` does not say. `ChangesSaved` and `FileWhole` are about what is
  written afterwards.
* `monitor_desc::switch_mode()` sets `current_mode` before the redraw thread has ended
  (`video.cpp:358`), and an exposed window in between clears `the_buffer_copy` by the
  new mode's size (`SDL/video_sdl.cpp:1882`). Sizes are in no model, so no property says otherwise.
* `ADBSetRelMouseMode()` changes the mode and resets the mouse in two writes without a lock
  (`adb.cpp:279`), and an interrupt reads the mode twice: a position may be reported as a motion
  or the reverse. `MotionConserved` and, for positions, `EventsReported` are about a mode that
  stays.
* A drive whose status record cannot be allocated keeps the number it was
  given, but does not enter the drive queue (`disk.cpp:272`), so the next drive gets the
  same number and calls for that may reach the first one. `DrivesFound` says that this
  happens in this case only; `RightDisc` leaves such a drive out.
* `to_be_mounted` survives an ejection (`disk.cpp:240` only clears it after an event): an
  event may be posted for a disc that MacOS ejected between opening and
  `accRun`; `EventForDisk` excludes it (`hasty`).
* `acc_run_called` and the status records' addresses survive a restart of MacOS until the
  driver is opened again, so in between the interrupt reads and writes memory that is no
  longer a status record (`disk.cpp:226`). A disk that is mounted by `SonyMountVolume()`
  before the driver has been opened is even written through address 0 (`sony.cpp:202`).
  The properties speak of drives whose status record is of this MacOS.
* The user can take out a disc between the test for it and the locking of the door
  (`cdrom.cpp:330`); the drive then counts as holding a disc, with the TOC of none or of
  another one, and a new disc is not noticed. After `SetUserEject` a disc can be changed without the
  driver noticing either (`cdrom.cpp:572`). Both are antecedents of `RightDisc` and
  `DisksMounted` (`slipped`, `allowed`).
* An image file is always "inserted": ejected from a drive with an insertion check,
  it is mounted again within a second (`cdrom.cpp:362`).
* Ctrl-F1 mounts the first floppy on the events' thread in two writes without a lock
  (`SDL/video_sdl.cpp:1726`); an event may be posted for a floppy that MacOS ejects
  meanwhile (`hasty`). Each key posts another event for a disk that has had one, so
  `OneEventPerDisk` leaves that floppy out.
* A floppy in a drive that prefs name as a "disk" has no door to lock: taken out by hand
  before it is mounted it still counts as there, and the next one is not noticed
  (`disk.cpp:226`). `DisksMounted` leaves it out (`Served`).
* The result of `PostEvent()` is ignored: with MacOS's event queue full, the disk's event is
  lost. The model's queue has room.

`src/jni/BasiliskII/README:802` says that the emulator "can be suspended while running
in DGA mode" with Ctrl-Tab; in this build's display `drv->suspend()` is empty
(`SDL/video_sdl.cpp:607`), so it is in no model.

## 7. What is not modelled

* *Data*: sound, packets, pixels as such, the Mac's records. A property needs only
  whether they are the right ones.
* *SCSI* (`scsi.cpp`): both backends in the repository (`Unix/scsi_psp.cpp` and
  `dummy/scsi_dummy.cpp` answer that no target is there) leave `SCSISelect()` without
  success, so commands, TIBs and the scatter/gather list are never reached by this program.
* *CPU and FPU semantics* (generated code), *ROM and resource patches* (rewriting at
  start), *EmulOp dispatch* (a switch), *start-up, prefs and strings* (sequential), *host
  services* (libraries), *the Android application* (user interface) and *SDL* (vendored, but
  for the loop of its sound thread).
* *Waiting*: `Delay_usec()` waits; `idle_wait()` sleeps 10 ms and `idle_resume()` does
  nothing in this build, which has neither condition variables nor semaphores for it.
* *ExtFS*: a sequential file server whose difficulty is the Mac file system's
  interface.
* Of the components that are modelled in part: trace mode, ADB registers, serial
  line settings and ptys, sound input and volumes, Ethernet sending, multicast and
  exit, the NMI, the geometry of video modes and the gamma tables, a redraw thread that cannot
  be created; of the disk drivers reading and
  writing, CD audio, the status calls, the host files behind the drives, and prefs that name the
  host's CD-ROM drive as a "disk" (`DrivesAssumption`).
* The map covers only a small part of the repository, and cannot cover a large one: more
  than four fifths of its lines are SDL and `uae_cpu/`, that is, the semantics of 68k
  and FPU instructions, mostly generated, and a JIT compiler for x86. The
  order-sensitive part, what the threads and the drivers do with each other, is a few
  thousand lines.
* Liveness with plain updates of `spcflags`: a fair run of them may lose the same
  update again and again, and whether a device's interrupt comes through is a
  question of probability, not of the code.

## 8. Plan

Done: the interrupts with their proofs; the concurrent drivers Time Manager (with
`HostClock` and its abstract service `Alarms`), ADB, Serial, Audio, Ether, Video, XPRAM; the
disk drivers; proofs of every invariant and every action property that a run checks, and of the
refinement.

Left, in order:

1. `ADB`: the registers of `ADBOp()`; `Ether`: sending and the exit; `Serial`: two ports
   behind one interrupt.
2. `Disks`: the CD player's states; the file system behind it (`extfs.cpp`) if a
   property of its control, and not of the Macintosh's interface, can be stated.

The list of runs is to stay this short: a new component shares a run with one whose
threads do not meet its own, as `MCDevices` does.

## Running

    tlc -workers 2 -config MCSerial_requests.cfg MCSerial.tla
    tlapm DevicesProofs.tla
