---------------------------- MODULE XPRAMProofs -----------------------------
(***************************************************************************)
(* Proofs about XPRAM, for any number of bytes, failed saves and kills.    *)
(***************************************************************************)
EXTENDS XPRAM, TLAPS

\* ExitAll() runs when the watchdog has ended.
DogEnded == cpu \in {"open", "save", "exited"} => dog = "ended"

\* What ExitAll() has written so far is what MacOS left in XPRAM.
Written == cpu = "save" => \A j \in Cells : j < cpuCell => file[j] = XPRAM[j]

XPRAMInv == TypeOK /\ DogEnded /\ Written /\ SavedAtExit

LEMMA InitXPRAM == Init => XPRAMInv
<1> SUFFICES ASSUME Init PROVE XPRAMInv
  OBVIOUS
<1>1. XPRAM \in Contents /\ last_xpram \in Contents /\ file \in Contents
  BY XPRAMAssumption DEF Init, Loaded, XPRAMAssumption
<1>2. 1 \in Cells /\ 0 \in 0 .. MaxFails /\ 0 \in 0 .. MaxKills
  BY XPRAMAssumption DEF XPRAMAssumption, Cells
<1>3. TypeOK
  BY <1>1, <1>2 DEF Init, TypeOK
<1>4. DogEnded /\ Written /\ SavedAtExit
  BY DEF Init, DogEnded, Written, SavedAtExit
<1>5. QED
  BY <1>3, <1>4 DEF XPRAMInv

\* Every step keeps the invariant.  MacOS writes only while it runs, and the
\* watchdog does nothing after it has ended.
LEMMA XPRAMStep == XPRAMInv /\ [Next]_vars => XPRAMInv'
<1> SUFFICES ASSUME XPRAMInv, [Next]_vars PROVE XPRAMInv'
  OBVIOUS
<1> USE XPRAMAssumption DEF XPRAMAssumption, XPRAMInv
<1>1. ASSUME NEW i \in Cells, NEW v \in Values, ClkNoMem(i, v) PROVE XPRAMInv'
  <2>1. XPRAM' \in Contents
    BY <1>1 DEF TypeOK, ClkNoMem, Contents
  <2>2. TypeOK'
    BY <1>1, <2>1 DEF TypeOK, ClkNoMem, disk, dogVars, cpuVars
  <2>3. DogEnded' /\ Written' /\ SavedAtExit'
    BY <1>1 DEF TypeOK, DogEnded, Written, SavedAtExit, ClkNoMem, disk, dogVars, cpuVars
  <2>4. QED
    BY <2>2, <2>3
<1>2. CASE XpramFunc
  <2>1. TypeOK'
    BY <1>2 DEF TypeOK, XpramFunc, disk, cpuVars, bounds
  <2>2. DogEnded' /\ Written' /\ SavedAtExit'
    BY <1>2 DEF TypeOK, DogEnded, Written, SavedAtExit, XpramFunc, disk, cpuVars, bounds
  <2>3. QED
    BY <2>1, <2>2
<1>3. CASE Compare
  <2>1. dogCell' \in Cells
    BY <1>3 DEF TypeOK, Compare, Cells
  <2>2. TypeOK'
    BY <1>3, <2>1 DEF TypeOK, Compare, disk, cpuVars, bounds, LoopDog
  <2>3. DogEnded' /\ Written' /\ SavedAtExit'
    BY <1>3 DEF TypeOK, DogEnded, Written, SavedAtExit, Compare, disk, cpuVars, bounds, LoopDog
  <2>4. QED
    BY <2>2, <2>3
<1>4. CASE Copy
  <2>1. last_xpram' \in Contents
    BY <1>4 DEF TypeOK, Copy, Contents
  <2>2. dogCell' \in Cells
    BY <1>4 DEF TypeOK, Copy, Cells
  <2>3. TypeOK'
    BY <1>4, <2>1, <2>2 DEF TypeOK, Copy, disk, cpuVars, bounds
  <2>4. DogEnded' /\ Written' /\ SavedAtExit'
    BY <1>4 DEF TypeOK, DogEnded, Written, SavedAtExit, Copy, disk, cpuVars, bounds
  <2>5. QED
    BY <2>3, <2>4
<1>5. CASE Open
  <2>1. TypeOK'
    BY <1>5 DEF TypeOK, Open, disk, cpuVars, bounds
  <2>2. DogEnded' /\ Written' /\ SavedAtExit'
    BY <1>5 DEF TypeOK, DogEnded, Written, SavedAtExit, Open, disk, cpuVars, bounds
  <2>3. QED
    BY <2>1, <2>2
<1>6. CASE OpenFails
  <2>1. fails' \in 0 .. MaxFails
    BY <1>6 DEF TypeOK, OpenFails
  <2>2. TypeOK'
    BY <1>6, <2>1 DEF TypeOK, OpenFails, disk, cpuVars, LoopDog
  <2>3. DogEnded' /\ Written' /\ SavedAtExit'
    BY <1>6 DEF TypeOK, DogEnded, Written, SavedAtExit, OpenFails, disk, cpuVars, LoopDog
  <2>4. QED
    BY <2>2, <2>3
<1>7. CASE Save
  <2>1. file' \in Contents
    BY <1>7 DEF TypeOK, Save, Contents
  <2>2. dogCell' \in Cells
    BY <1>7 DEF TypeOK, Save, Cells
  <2>3. TypeOK'
    BY <1>7, <2>1, <2>2 DEF TypeOK, Save, cpuVars, bounds, LoopDog
  <2>4. DogEnded' /\ Written' /\ SavedAtExit'
    BY <1>7 DEF TypeOK, DogEnded, Written, SavedAtExit, Save, cpuVars, bounds, LoopDog
  <2>5. QED
    BY <2>3, <2>4
<1>8. CASE QuitEmulator
  <2>1. TypeOK'
    BY <1>8 DEF TypeOK, QuitEmulator, disk, dogVars, bounds
  <2>2. DogEnded' /\ Written' /\ SavedAtExit'
    BY <1>8 DEF TypeOK, DogEnded, Written, SavedAtExit, QuitEmulator, disk, dogVars, bounds
  <2>3. QED
    BY <2>1, <2>2
<1>9. CASE Join
  <2>1. TypeOK'
    BY <1>9 DEF TypeOK, Join, disk, dogVars, bounds
  <2>2. DogEnded' /\ Written' /\ SavedAtExit'
    BY <1>9 DEF TypeOK, DogEnded, Written, SavedAtExit, Join, disk, dogVars, bounds
  <2>3. QED
    BY <2>1, <2>2
<1>e. CASE ExitOpen
  <2>1. 1 \in Cells
    BY DEF Cells
  <2>2. TypeOK'
    BY <1>e, <2>1 DEF TypeOK, ExitOpen, disk, dogVars, bounds
  <2>3. DogEnded' /\ Written' /\ SavedAtExit'
    BY <1>e DEF TypeOK, DogEnded, Written, SavedAtExit, ExitOpen, disk, dogVars, bounds, Cells
  <2>4. QED
    BY <2>2, <2>3
<1>f. CASE ExitOpenFails
  <2>1. fails' \in 0 .. MaxFails
    BY <1>f DEF TypeOK, ExitOpenFails
  <2>2. TypeOK'
    BY <1>f, <2>1 DEF TypeOK, ExitOpenFails, disk, dogVars
  <2>3. DogEnded' /\ Written' /\ SavedAtExit'
    BY <1>f DEF TypeOK, DogEnded, Written, SavedAtExit, ExitOpenFails, disk, dogVars
  <2>4. QED
    BY <2>2, <2>3
<1>10. CASE XPRAMExit
  <2>1. file' \in Contents
    BY <1>10 DEF TypeOK, XPRAMExit, Contents
  <2>2. cpuCell' \in Cells
    BY <1>10 DEF TypeOK, XPRAMExit, Cells
  <2>3. TypeOK'
    BY <1>10, <2>1, <2>2 DEF TypeOK, XPRAMExit, dogVars, bounds
  <2>4. \A j \in Cells : j <= cpuCell => file'[j] = XPRAM'[j]
    BY <1>10 DEF TypeOK, Written, XPRAMExit, Contents, Cells
  <2>5. Written'
    BY <1>10, <2>4 DEF TypeOK, Written, XPRAMExit, Cells
  <2>6. SavedAtExit'
    <3>1. CASE cpuCell < XPRAM_SIZE
      BY <3>1, <1>10 DEF XPRAMExit, SavedAtExit
    <3>2. CASE ~(cpuCell < XPRAM_SIZE)
      <4>1. \A j \in Cells : file'[j] = XPRAM'[j]
        BY <3>2, <2>4 DEF TypeOK, Cells
      <4>2. file' = XPRAM'
        BY <4>1, <2>1, <2>3 DEF TypeOK, Contents
      <4>3. QED
        BY <4>2, <3>2, <1>10 DEF XPRAMExit, SavedAtExit
    <3>3. QED
      BY <3>1, <3>2
  <2>7. DogEnded'
    BY <1>10 DEF DogEnded, XPRAMExit, dogVars, bounds
  <2>8. QED
    BY <2>3, <2>5, <2>6, <2>7
<1>11. CASE Kill
  <2>1. kills' \in 0 .. MaxKills /\ 1 \in Cells
    BY <1>11 DEF TypeOK, Kill, Cells
  <2>2. XPRAM' \in Contents /\ last_xpram' \in Contents
    BY <1>11 DEF TypeOK, Kill, Loaded
  <2>3. TypeOK'
    BY <1>11, <2>1, <2>2 DEF TypeOK, Kill, disk, Loaded
  <2>4. DogEnded' /\ Written' /\ SavedAtExit'
    BY <1>11 DEF TypeOK, DogEnded, Written, SavedAtExit, Kill, disk, Loaded
  <2>5. QED
    BY <2>3, <2>4
<1>12. CASE UNCHANGED vars
  BY <1>12 DEF vars, TypeOK, DogEnded, Written, SavedAtExit
<1>13. QED
  BY <1>1, <1>2, <1>3, <1>4, <1>5, <1>6, <1>7, <1>8, <1>9, <1>e, <1>f, <1>10, <1>11, <1>12
  DEF Next, Watchdog, AtExit

LEMMA XPRAMInvariant == Spec => []XPRAMInv
BY InitXPRAM, XPRAMStep, PTL DEF Spec

\* Every variable keeps its type; no loop over the bytes leaves them.
THEOREM TypeCorrect == Spec => []TypeOK
<1>1. XPRAMInv => TypeOK
  BY DEF XPRAMInv
<1>2. QED
  BY <1>1, XPRAMInvariant, PTL

\* If it can be opened at the end, the file then holds XPRAM, and it never has two
\* writers, whatever the watchdog is doing when MacOS shuts down, whatever saves
\* have failed and whenever the process was killed before.
THEOREM WholeAtExit == Spec => []FileWhole
<1>1. XPRAMInv => FileWhole
  BY DEF XPRAMInv, FileWhole, OneWriter, DogEnded
<1>2. QED
  BY <1>1, XPRAMInvariant, PTL
-----------------------------------------------------------------------------
(* What the watchdog has yet to save.                                      *)

\* No byte has been written back, and no save has failed.
Undisturbed == ~again /\ fails = 0

\* The loop over the bytes begins at the first.
FromFirst == dog = "open" => dogCell = 1

\* The file's byte is no older than the watchdog's copy.
InFile(i) == last_xpram[i] <= file[i] /\ file[i] <= XPRAM[i]

\* Where the watchdog and ExitAll() are, and which bytes they have been at.
ByteSaved(i) ==
  /\ last_xpram[i] <= XPRAM[i]
  /\ signature => file[i] <= XPRAM[i]
  /\ signature /\ dog \in {"wait", "compare", "ended"} => InFile(i)
  /\ signature /\ dog = "copy" /\ i >= dogCell => InFile(i)
  /\ dog = "save" /\ i < dogCell => InFile(i)
  /\ cpu = "save" /\ i < cpuCell => InFile(i)

SavedInv == (Undisturbed => \A i \in Cells : ByteSaved(i))

\* A byte that the file does not have is one that the watchdog, when it looks
\* again, finds changed.
ChangesFound ==
  Undisturbed /\ signature /\ dog \in {"wait", "compare", "ended"} =>
    \A i \in Cells : file[i] = XPRAM[i] \/ last_xpram[i] # XPRAM[i]

LEMMA CellTypes ==
  TypeOK => /\ \A i \in Cells : XPRAM[i] \in Nat /\ last_xpram[i] \in Nat /\ file[i] \in Nat
            /\ XPRAM_SIZE \in Nat \ {0} /\ Cells = 1 .. XPRAM_SIZE /\ Cells \subseteq Nat
            /\ dogCell \in Cells /\ cpuCell \in Cells
<1> SUFFICES ASSUME TypeOK
             PROVE  /\ \A i \in Cells : XPRAM[i] \in Nat /\ last_xpram[i] \in Nat /\ file[i] \in Nat
                    /\ XPRAM_SIZE \in Nat \ {0} /\ Cells = 1 .. XPRAM_SIZE /\ Cells \subseteq Nat
                    /\ dogCell \in Cells /\ cpuCell \in Cells
  OBVIOUS
<1>1. ASSUME NEW f \in Contents, NEW i \in Cells PROVE f[i] \in Nat
  BY XPRAMAssumption DEF XPRAMAssumption, Contents
<1>2. XPRAM_SIZE \in Nat \ {0} /\ Cells = 1 .. XPRAM_SIZE /\ Cells \subseteq Nat
  BY XPRAMAssumption DEF XPRAMAssumption, Cells
<1>3. QED
  BY <1>1, <1>2 DEF TypeOK

LEMMA InitSaved == Init => SavedInv
<1> SUFFICES ASSUME Init, NEW i \in Cells PROVE ByteSaved(i)
  BY DEF SavedInv
<1>1. XPRAM[i] \in Nat /\ file[i] \in Nat /\ last_xpram[i] = XPRAM[i]
  BY InitXPRAM, CellTypes DEF XPRAMInv, Init
<1>2. signature => XPRAM[i] = file[i]
  BY DEF Init, Loaded
<1>3. QED
  BY <1>1, <1>2 DEF Init, ByteSaved, InFile

\* Failures are counted up only.
LEMMA StaysDisturbed == TypeOK /\ [Next]_vars /\ Undisturbed' => Undisturbed
<1> SUFFICES ASSUME TypeOK, [Next]_vars, ~Undisturbed PROVE ~Undisturbed'
  OBVIOUS
<1> USE DEF TypeOK, Undisturbed, bounds
<1>1. ASSUME NEW i \in Cells, NEW v \in Values, ClkNoMem(i, v) PROVE ~Undisturbed'
  BY <1>1 DEF ClkNoMem
<1>2. CASE XpramFunc \/ Compare \/ Copy \/ Open \/ Save
  BY <1>2 DEF XpramFunc, Compare, Copy, Open, Save
<1>3. CASE OpenFails
  BY <1>3 DEF OpenFails
<1>4. CASE QuitEmulator \/ Join \/ ExitOpen \/ ExitOpenFails \/ XPRAMExit
  BY <1>4 DEF QuitEmulator, Join, ExitOpen, ExitOpenFails, XPRAMExit
<1>5. CASE Kill
  BY <1>5 DEF Kill
<1>6. CASE UNCHANGED vars
  BY <1>6 DEF vars
<1>7. QED
  BY <1>1, <1>2, <1>3, <1>4, <1>5, <1>6 DEF Next, Watchdog, AtExit

LEMMA FirstStep == TypeOK /\ FromFirst /\ [Next]_vars => FromFirst'
<1> SUFFICES ASSUME TypeOK, FromFirst, [Next]_vars PROVE FromFirst'
  OBVIOUS
<1> USE DEF FromFirst, dogVars
<1>1. ASSUME NEW i \in Cells, NEW v \in Values, ClkNoMem(i, v) PROVE FromFirst'
  BY <1>1 DEF ClkNoMem
<1>2. CASE XpramFunc \/ Compare \/ Copy \/ Open \/ OpenFails \/ Save
  BY <1>2 DEF XpramFunc, Compare, Copy, Open, OpenFails, Save, LoopDog
<1>3. CASE QuitEmulator \/ Join \/ ExitOpen \/ ExitOpenFails \/ XPRAMExit \/ Kill
  BY <1>3 DEF QuitEmulator, Join, ExitOpen, ExitOpenFails, XPRAMExit, Kill
<1>4. CASE UNCHANGED vars
  BY <1>4 DEF vars
<1>5. QED
  BY <1>1, <1>2, <1>3, <1>4 DEF Next, Watchdog, AtExit

\* A step at one byte: bytes that MacOS writes grow, and the copy is taken before
\* the file.
LEMMA SavedStep == XPRAMInv /\ FromFirst /\ SavedInv /\ [Next]_vars => SavedInv'
<1> SUFFICES ASSUME XPRAMInv, FromFirst, SavedInv, [Next]_vars, Undisturbed', NEW i \in Cells
             PROVE  ByteSaved(i)'
  BY DEF SavedInv
<1>0. TypeOK /\ DogEnded /\ Undisturbed /\ ByteSaved(i)
  BY StaysDisturbed DEF XPRAMInv, SavedInv
<1>t. /\ XPRAM[i] \in Nat /\ last_xpram[i] \in Nat /\ file[i] \in Nat /\ i \in Nat
      /\ XPRAM_SIZE \in Nat \ {0} /\ Cells = 1 .. XPRAM_SIZE
      /\ dogCell \in Nat /\ cpuCell \in Nat
  BY <1>0, CellTypes
<1>f. /\ DOMAIN XPRAM = Cells /\ DOMAIN last_xpram = Cells /\ DOMAIN file = Cells
      /\ Values \subseteq Nat
      /\ dog \in {"wait", "compare", "copy", "open", "save", "ended"}
  BY <1>0, XPRAMAssumption DEF XPRAMAssumption, TypeOK, Contents
<1> USE DEF ByteSaved, InFile
<1>1. ASSUME NEW j \in Cells, NEW v \in Values, ClkNoMem(j, v) PROVE ByteSaved(i)'
  <2>1. XPRAM'[i] >= XPRAM[i] /\ XPRAM'[i] \in Nat
    <3>1. v \in Nat /\ XPRAM[j] \in Nat
      BY <1>0, <1>f, CellTypes
    <3>2. ~(v < XPRAM[j])
      BY <1>1 DEF ClkNoMem, Undisturbed
    <3>3. QED
      BY <3>1, <3>2, <1>1, <1>t, <1>f DEF ClkNoMem
  <2>2. UNCHANGED <<last_xpram, disk, dogVars, cpuVars>>
    BY <1>1 DEF ClkNoMem
  <2>3. QED
    BY <2>1, <2>2, <1>0, <1>t DEF disk, dogVars, cpuVars
<1>2. CASE XpramFunc
  BY <1>2, <1>0 DEF XpramFunc, disk, cpuVars
<1>3. CASE Compare
  BY <1>3, <1>0, <1>t DEF Compare, disk, cpuVars, LoopDog
<1>4. CASE Copy
  <2>1. cpu # "save"
    BY <1>0, <1>4 DEF DogEnded, Copy
  <2>2. last_xpram'[i] = (IF i = dogCell THEN XPRAM[i] ELSE last_xpram[i])
    BY <1>4, <1>f, <1>t DEF Copy
  <2>3. UNCHANGED <<XPRAM, disk, cpuVars>>
    BY <1>4 DEF Copy
  <2>4. (dog' = "copy" /\ dogCell' = dogCell + 1) \/ dog' = "open"
    BY <1>4 DEF Copy
  <2>5. dog = "copy"
    BY <1>4 DEF Copy
  <2>6. QED
    BY <2>1, <2>2, <2>3, <2>4, <2>5, <1>0, <1>t DEF disk, cpuVars
<1>5. CASE Open
  <2>1. cpu # "save" /\ dogCell' = 1
    BY <1>0, <1>5 DEF DogEnded, Open, FromFirst
  <2>2. QED
    BY <2>1, <1>5, <1>0, <1>t DEF Open, disk, cpuVars
<1>6. CASE OpenFails
  BY <1>6, <1>0 DEF OpenFails, Undisturbed, TypeOK
<1>7. CASE Save
  <2>1. cpu # "save" /\ cpu' = cpu /\ dog = "save"
    BY <1>0, <1>7 DEF DogEnded, Save, cpuVars
  <2>2. file'[i] = (IF i = dogCell THEN XPRAM[i] ELSE file[i])
    BY <1>7, <1>f, <1>t DEF Save
  <2>3. XPRAM' = XPRAM /\ last_xpram' = last_xpram
    BY <1>7 DEF Save
  <2>4. i < dogCell \/ i = dogCell => InFile(i)'
    BY <2>1, <2>2, <2>3, <1>0, <1>t
  <2>5. CASE dogCell < XPRAM_SIZE
    <3>1. dogCell' = dogCell + 1 /\ dog' = "save" /\ signature' = signature
      BY <2>5, <1>7 DEF Save
    <3>2. QED
      BY <2>1, <2>2, <2>3, <2>4, <3>1, <1>0, <1>t
  <2>6. CASE ~(dogCell < XPRAM_SIZE)
    <3>1. dog' \in {"wait", "ended"}
      BY <2>6, <1>7 DEF Save, LoopDog
    <3>2. InFile(i)'
      BY <2>4, <2>6, <1>t
    <3>3. QED
      BY <2>1, <2>3, <3>1, <3>2, <1>0
  <2>7. QED
    BY <2>5, <2>6
<1>8. CASE QuitEmulator
  BY <1>8, <1>0 DEF QuitEmulator, disk, dogVars
<1>9. CASE Join
  BY <1>9, <1>0 DEF Join, disk, dogVars
<1>e. CASE ExitOpen
  BY <1>e, <1>0, <1>t DEF ExitOpen, disk, dogVars
<1>o. CASE ExitOpenFails
  BY <1>o, <1>0 DEF ExitOpenFails, Undisturbed, TypeOK
<1>10. CASE XPRAMExit
  <2>1. dog = "ended" /\ dog' = "ended" /\ cpu = "save"
    BY <1>0, <1>10 DEF DogEnded, XPRAMExit, dogVars
  <2>2. file'[i] = (IF i = cpuCell THEN XPRAM[i] ELSE file[i])
    BY <1>10, <1>f, <1>t DEF XPRAMExit
  <2>3. XPRAM' = XPRAM /\ last_xpram' = last_xpram
    BY <1>10 DEF XPRAMExit
  <2>4. i < cpuCell \/ i = cpuCell => InFile(i)'
    BY <2>1, <2>2, <2>3, <1>0, <1>t
  <2>5. CASE cpuCell < XPRAM_SIZE
    <3>1. cpuCell' = cpuCell + 1 /\ signature' = signature
      BY <2>5, <1>10 DEF XPRAMExit
    <3>2. QED
      BY <2>1, <2>2, <2>3, <2>4, <3>1, <1>0, <1>t
  <2>6. CASE ~(cpuCell < XPRAM_SIZE)
    <3>1. InFile(i)'
      BY <2>4, <2>6, <1>t
    <3>2. QED
      BY <2>1, <2>3, <3>1, <1>0
  <2>7. QED
    BY <2>5, <2>6
<1>11. CASE Kill
  <2>1. last_xpram' = XPRAM' /\ file' = file /\ signature' = signature
    BY <1>11 DEF Kill, disk
  <2>2. (signature => XPRAM' = file) /\ XPRAM' \in Contents
    BY <1>11, <1>0, XPRAMAssumption DEF Kill, Loaded, TypeOK, XPRAMAssumption
  <2>3. XPRAM'[i] \in Nat
    BY <2>2, XPRAMAssumption DEF XPRAMAssumption, Contents
  <2>4. dog' = "wait" /\ cpu' = "run"
    BY <1>11 DEF Kill
  <2>5. QED
    BY <2>1, <2>2, <2>3, <2>4, <1>t
<1>12. CASE UNCHANGED vars
  BY <1>12, <1>0 DEF vars
<1>13. QED
  BY <1>1, <1>2, <1>3, <1>4, <1>5, <1>6, <1>7, <1>8, <1>9, <1>e, <1>o, <1>10, <1>11, <1>12
  DEF Next, Watchdog, AtExit

\* A change that MacOS makes while the watchdog copies or saves is in the file or
\* is found the next time: it takes its copy before it reads XPRAM for the file.
\* A process that was killed, even while it saved, starts with both as the file.  This is the part of ChangesSaved that does not depend on scheduling.
THEOREM NoChangeMissed == Spec => []ChangesFound
<1>1. Init => FromFirst
  BY DEF Init, FromFirst
<1>2. XPRAMInv /\ SavedInv => ChangesFound
  <2> SUFFICES ASSUME XPRAMInv, SavedInv, Undisturbed, signature,
                      dog \in {"wait", "compare", "ended"}, NEW i \in Cells
               PROVE  file[i] = XPRAM[i] \/ last_xpram[i] # XPRAM[i]
    BY DEF ChangesFound
  <2>1. XPRAM[i] \in Nat /\ last_xpram[i] \in Nat /\ file[i] \in Nat
    BY CellTypes DEF XPRAMInv
  <2>2. InFile(i)
    BY DEF SavedInv, ByteSaved
  <2>3. QED
    BY <2>1, <2>2 DEF InFile
<1>3. XPRAMInv /\ FromFirst /\ [Next]_vars => FromFirst'
  BY FirstStep DEF XPRAMInv
<1>4. QED
  BY <1>1, <1>2, <1>3, InitXPRAM, XPRAMStep, InitSaved, SavedStep, PTL DEF Spec
=============================================================================
