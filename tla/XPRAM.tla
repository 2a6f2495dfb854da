-------------------------------- MODULE XPRAM --------------------------------
(***************************************************************************)
(* Parameter RAM and the file it is kept in: MacOS writes to XPRAM on the  *)
(* CPU thread, the watchdog of Unix/main_unix.cpp looks for changes once a *)
(* minute and saves them, QuitEmulator() saves at the end.  The process    *)
(* may be killed, as Android does, and is started again.                   *)
(***************************************************************************)
EXTENDS Naturals

CONSTANTS
  XPRAM_SIZE,  \* bytes, numbered from 1
  Values,      \* of a byte; 0 is among them
  Defaults,    \* what InitAll() writes if the file has no signature
  MaxFails,    \* bound: how often the file cannot be opened
  MaxKills     \* bound: how often the process is killed

Cells == 1 .. XPRAM_SIZE
Contents == [Cells -> Values]

ASSUME XPRAMAssumption ==
  /\ XPRAM_SIZE \in Nat \ {0}
  /\ 0 \in Values /\ Values \subseteq Nat
  /\ Defaults \in Contents
  /\ MaxFails \in Nat /\ MaxKills \in Nat

VARIABLES
  XPRAM, last_xpram,
  file, signature,     \* the file's contents, and that it is there
  xpram_thread_cancel,
  dog, dogCell,        \* where the watchdog is, and at which byte
  cpu, cpuCell,        \* where the CPU thread is
  fails, kills,
  \* history: MacOS has written what may have been there before; QuitEmulator()
  \* could not open the file
  again, unsaved

vars == <<XPRAM, last_xpram, file, signature, xpram_thread_cancel, dog, dogCell, cpu,
          cpuCell, fails, kills, again, unsaved>>

disk == <<file, signature>>
dogVars == <<dog, dogCell>>
cpuVars == <<cpu, cpuCell, xpram_thread_cancel>>
bounds == <<fails, kills, again, unsaved>>

\* InitAll() and the start of the watchdog, with a file f.  What InitAll() writes
\* after it has loaded the file is the same each time and left out.
Loaded(f, there) == IF there THEN f ELSE Defaults

Init ==
  /\ file \in Contents /\ signature \in BOOLEAN
  /\ XPRAM = Loaded(file, signature) /\ last_xpram = XPRAM
  /\ xpram_thread_cancel = FALSE
  /\ dog = "wait" /\ dogCell = 1
  /\ cpu = "run" /\ cpuCell = 1
  /\ fails = 0 /\ kills = 0 /\ again = FALSE /\ unsaved = FALSE

-----------------------------------------------------------------------------
\* EmulOp() M68K_EMUL_OP_CLKNOMEM
ClkNoMem(i, v) ==
  /\ cpu = "run"
  /\ XPRAM' = [XPRAM EXCEPT ![i] = v]
  /\ again' = (again \/ v < XPRAM[i])
  /\ UNCHANGED <<last_xpram, disk, dogVars, cpuVars, fails, kills, unsaved>>

-----------------------------------------------------------------------------
(* The watchdog.                                                           *)

\* xpram_func(): a minute passes, or the thread is to end.  The watchdog looks
\* at XPRAM in either case.
XpramFunc ==
  /\ dog = "wait"
  /\ dog' = "compare"
  /\ UNCHANGED <<XPRAM, last_xpram, disk, dogCell, cpuVars, bounds>>

LoopDog == IF xpram_thread_cancel THEN "ended" ELSE "wait"

Compare ==
  /\ dog = "compare"
  /\ IF last_xpram # XPRAM THEN dog' = "copy" /\ dogCell' = 1
                           ELSE dog' = LoopDog /\ UNCHANGED dogCell
  /\ UNCHANGED <<XPRAM, last_xpram, disk, cpuVars, bounds>>

\* A mutated form: a byte too many is copied.
Copy_PastEnd ==
  /\ dog = "copy"
  /\ last_xpram' = [last_xpram EXCEPT ![dogCell] = XPRAM[dogCell]]
  /\ IF dogCell <= XPRAM_SIZE
     THEN dogCell' = dogCell + 1 /\ UNCHANGED dog
     ELSE dog' = "open" /\ dogCell' = 1
  /\ UNCHANGED <<XPRAM, disk, cpuVars, bounds>>

\* A mutated form: the bytes are copied after they have been compared and saved.
Copy_Next ==
  /\ dog = "copy"
  /\ last_xpram' = XPRAM
  /\ dog' = LoopDog /\ dogCell' = 1
  /\ UNCHANGED <<XPRAM, disk, cpuVars, bounds>>

\* memcpy(), a byte at a time
Copy ==
  /\ dog = "copy"
  /\ last_xpram' = [last_xpram EXCEPT ![dogCell] = XPRAM[dogCell]]
  /\ IF dogCell < XPRAM_SIZE
     THEN dogCell' = dogCell + 1 /\ UNCHANGED dog
     ELSE dog' = "open" /\ dogCell' = 1
  /\ UNCHANGED <<XPRAM, disk, cpuVars, bounds>>

\* SaveXPRAM() does nothing if the file cannot be opened.
OpenFails ==
  /\ dog = "open" /\ fails < MaxFails
  /\ fails' = fails + 1
  /\ dog' = LoopDog
  /\ UNCHANGED <<XPRAM, last_xpram, disk, dogCell, cpuVars, kills, again, unsaved>>

Open ==
  /\ dog = "open"
  /\ dog' = "save"
  /\ UNCHANGED <<XPRAM, last_xpram, disk, dogCell, cpuVars, bounds>>

\* write(), a byte at a time.  The signature, four bytes near the beginning, counts
\* as there when all bytes are.
Save ==
  /\ dog = "save"
  /\ file' = [file EXCEPT ![dogCell] = XPRAM[dogCell]]
  /\ IF dogCell < XPRAM_SIZE
     THEN dogCell' = dogCell + 1 /\ UNCHANGED <<dog, signature>>
     ELSE dogCell' = 1 /\ signature' = TRUE /\ dog' = LoopDog
  /\ UNCHANGED <<XPRAM, last_xpram, cpuVars, bounds>>

Watchdog == XpramFunc \/ Compare \/ Copy \/ Open \/ OpenFails \/ Save

-----------------------------------------------------------------------------
(* The end of the emulator.                                                *)

QuitEmulator ==
  /\ cpu = "run" /\ cpu' = "join"
  /\ xpram_thread_cancel' = TRUE
  /\ UNCHANGED <<XPRAM, last_xpram, disk, dogVars, cpuCell, bounds>>

\* A mutated form: the watchdog may not have ended.
Join_NoWait ==
  /\ cpu = "join"
  /\ cpu' = "open"
  /\ UNCHANGED <<XPRAM, last_xpram, disk, dogVars, cpuCell, xpram_thread_cancel, bounds>>

Join ==
  /\ cpu = "join" /\ dog = "ended"
  /\ cpu' = "open"
  /\ UNCHANGED <<XPRAM, last_xpram, disk, dogVars, cpuCell, xpram_thread_cancel, bounds>>

\* ExitAll() saves XPRAM, as the watchdog does, and does not notice either if the
\* file cannot be opened.
ExitOpenFails ==
  /\ cpu = "open" /\ fails < MaxFails
  /\ fails' = fails + 1 /\ unsaved' = TRUE
  /\ cpu' = "exited"
  /\ UNCHANGED <<XPRAM, last_xpram, disk, dogVars, cpuCell, xpram_thread_cancel, kills, again>>

ExitOpen ==
  /\ cpu = "open"
  /\ cpu' = "save" /\ cpuCell' = 1
  /\ UNCHANGED <<XPRAM, last_xpram, disk, dogVars, xpram_thread_cancel, bounds>>

XPRAMExit ==
  /\ cpu = "save"
  /\ file' = [file EXCEPT ![cpuCell] = XPRAM[cpuCell]]
  /\ IF cpuCell < XPRAM_SIZE
     THEN cpuCell' = cpuCell + 1 /\ UNCHANGED <<cpu, signature>>
     ELSE cpu' = "exited" /\ cpuCell' = 1 /\ signature' = TRUE
  /\ UNCHANGED <<XPRAM, last_xpram, dogVars, xpram_thread_cancel, bounds>>

\* The process is killed, and the emulator started again.
Kill ==
  /\ kills < MaxKills /\ kills' = kills + 1
  /\ XPRAM' = Loaded(file, signature) /\ last_xpram' = XPRAM'
  /\ xpram_thread_cancel' = FALSE
  /\ dog' = "wait" /\ dogCell' = 1
  /\ cpu' = "run" /\ cpuCell' = 1
  /\ unsaved' = FALSE
  /\ UNCHANGED <<disk, fails, again>>

AtExit == Join \/ ExitOpen \/ ExitOpenFails \/ XPRAMExit

Next ==
  \/ \E i \in Cells, v \in Values : ClkNoMem(i, v)
  \/ Watchdog \/ QuitEmulator \/ AtExit \/ Kill

Spec == Init /\ [][Next]_vars

\* Time passes, and threads go on.
FairSpec == Spec /\ WF_vars(Watchdog) /\ WF_vars(AtExit)

-----------------------------------------------------------------------------
(* Properties.                                                             *)

\* The type of every variable.
TypeOK ==
  /\ XPRAM \in Contents /\ last_xpram \in Contents /\ file \in Contents
  /\ signature \in BOOLEAN /\ xpram_thread_cancel \in BOOLEAN
  /\ dog \in {"wait", "compare", "copy", "open", "save", "ended"}
  /\ cpu \in {"run", "join", "open", "save", "exited"}
  /\ dogCell \in Cells /\ cpuCell \in Cells
  /\ fails \in 0 .. MaxFails /\ kills \in 0 .. MaxKills
  /\ again \in BOOLEAN /\ unsaved \in BOOLEAN

\* Once the emulator has ended, the file has the contents of XPRAM, even if the
\* watchdog was saving an older state when the emulator began to end, or could
\* not, or the process was killed in the middle of a save some time before.  Not
\* so if the file cannot be opened at the end: nobody tries again.
SavedAtExit == cpu = "exited" => (file = XPRAM /\ signature) \/ unsaved

\* QuitEmulator() and the watchdog never have the file open at the same time.
OneWriter == ~(cpu \in {"open", "save"} /\ dog \in {"open", "save"})

\* The file is whole at the end, if it could be opened.
FileWhole == SavedAtExit /\ OneWriter

\* "saves XPRAM every minute": what MacOS writes comes to the file, also what it
\* writes while the watchdog is busy, unless MacOS writes something else; a quit
\* may come at any time, but must not hang, and a kill at any time: the process
\* then starts from the file, be it half saved, and the watchdog does not take
\* what it finds for what MacOS writes later.  This is said of a file with a
\* signature, that is, from the first complete save on.  Not so if a save has
\* failed, nor for what was there before: a byte that changes between Copy and
\* Save and changes back later equals its copy.
ChangesSaved ==
  \A i \in Cells, v \in Values :
    signature /\ XPRAM[i] = v ~> file[i] = v \/ XPRAM[i] # v \/ again \/ fails > 0
=============================================================================
