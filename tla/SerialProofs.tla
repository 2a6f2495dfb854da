---------------------------- MODULE SerialProofs ----------------------------
(***************************************************************************)
(* Proofs about Serial, for every set of calls.  The invariant relates,    *)
(* for each side, where the thread is, the semaphore and the driver's      *)
(* flags (SideInv), and what the CPU thread is doing (CallInv).            *)
(***************************************************************************)
EXTENDS Serial, TLAPS

\* A thread that has taken a request and has not reported it.
Working == {"io", "test", "done"}

\* A request is under way from the signal until it is reported, and then until
\* the interrupt; its I/O has been performed when it is reported.
SideInv(s) ==
  /\ thread[s] \in Working => pending[s] /\ ~done[s]
  /\ thread[s] \in {"test", "done"} => performed[s]
  /\ done[s] => pending[s] /\ performed[s]
  /\ request[s] = "done" => performed[s]
  /\ ~quitting => signal[s] <= 1
  /\ ~quitting /\ signal[s] > 0 =>
       pending[s] /\ ~done[s] /\ thread[s] \notin Working

\* What holds at each place of the CPU thread.
CallInv ==
  /\ quitting /\ is_open => cpu # "run"
  /\ cpu \in {"newptr", "error", "kill", "close"} => ~quitting
  /\ cpu = "kill" => is_open
  /\ cpu = "newptr" =>
       \A s \in Sides : /\ ~pending[s] /\ request[s] = "none" /\ signal[s] = 0
                        /\ thread[s] \notin Working
  /\ cpu = "joinin" => signal["out"] <= 1
  /\ cpu = "joinout" => thread["in"] = "none"
  /\ cpu \in {"dispose", "disposed"} \/ (cpu = "run" /\ ~is_open) =>
       \A s \in Sides : thread[s] = "none"

IInv == TypeOK /\ (\A s \in Sides : SideInv(s)) /\ CallInv /\ NoneForgotten

-----------------------------------------------------------------------------
\* All(v) is the function that is v on both sides.
LEMMA AllValue == ASSUME NEW v PROVE \A s \in Sides : All(v)[s] = v
BY DEF All

LEMMA AllType == ASSUME NEW S, NEW v \in S PROVE All(v) \in [Sides -> S]
BY DEF All

LEMMA AllTypes ==
  /\ All(FALSE) \in [Sides -> BOOLEAN]
  /\ All(0) \in [Sides -> 0 .. 2]
  /\ All("none") \in [Sides -> ThreadPlaces]
  /\ All("top") \in [Sides -> ThreadPlaces]
  /\ All("none") \in [Sides -> {"none", "issued", "done", "aborted"}]
<1>1. FALSE \in BOOLEAN /\ 0 \in 0 .. 2 /\ "none" \in ThreadPlaces /\ "top" \in ThreadPlaces
  BY DEF ThreadPlaces
<1>2. QED
  BY <1>1, AllType

LEMMA InitInv == Init => IInv
<1> SUFFICES ASSUME Init PROVE IInv
  OBVIOUS
<1>1. TypeOK
  BY AllTypes DEF Init, TypeOK
<1>2. ASSUME NEW s \in Sides PROVE SideInv(s)
  <2>1. /\ ~pending[s] /\ ~done[s] /\ ~performed[s] /\ signal[s] = 0
        /\ thread[s] = "none" /\ request[s] = "none"
    BY <1>2, AllValue DEF Init
  <2>2. QED
    BY <2>1 DEF Working, SideInv
<1>3. CallInv /\ NoneForgotten
  BY AllValue DEF Init, CallInv, NoneForgotten
<1>4. QED
  BY <1>1, <1>2, <1>3 DEF IInv

\* Every step of the CPU thread and of an I/O thread preserves the invariant.
LEMMA StepInv == IInv /\ [Next]_vars => IInv'
<1> SUFFICES ASSUME IInv, [Next]_vars PROVE IInv'
  OBVIOUS
<1>1. CASE SerialOpen
  <2>1. TypeOK'
    BY <1>1, AllTypes DEF IInv, TypeOK, SerialOpen, ioVars
  <2>2. ASSUME NEW t \in Sides PROVE SideInv(t)'
    BY <1>1 DEF SideInv, Working, SerialOpen, All
  <2>3. CallInv'
    BY <1>1 DEF CallInv, Working, SerialOpen, All
  <2>4. NoneForgotten'
    BY <1>1 DEF NoneForgotten, SerialOpen
  <2>5. QED
    BY <2>1, <2>2, <2>3, <2>4 DEF IInv
<1>2. CASE open_error
  <2>1. TypeOK'
    <3>1. ASSUME NEW s \in Sides
          PROVE  /\ [All("none") EXCEPT ![s] = "top"] \in [Sides -> ThreadPlaces]
                 /\ [All(FALSE) EXCEPT ![s] = TRUE] \in [Sides -> BOOLEAN]
      BY AllTypes DEF ThreadPlaces
    <3>2. thread' \in [Sides -> ThreadPlaces] /\ cancel' \in [Sides -> BOOLEAN]
      BY <1>2, <3>1, AllTypes DEF open_error
    <3>3. QED
      BY <1>2, <3>2, AllTypes DEF IInv, TypeOK, open_error, ioVars
  <2>2. ASSUME NEW t \in Sides PROVE SideInv(t)'
    BY <1>2 DEF SideInv, Working, open_error, All
  <2>3. CallInv'
    BY <1>2 DEF CallInv, open_error, All
  <2>4. NoneForgotten'
    BY <1>2 DEF NoneForgotten, open_error
  <2>5. QED
    BY <2>1, <2>2, <2>3, <2>4 DEF IInv
<1>3. CASE EndError
  <2>1. TypeOK'
    BY <1>3 DEF IInv, TypeOK, ThreadPlaces, EndError, All, ioVars
  <2>2. ASSUME NEW t \in Sides PROVE SideInv(t)'
    BY <1>3 DEF IInv, SideInv, Working, EndError, All, ioVars
  <2>3. CallInv'
    BY <1>3 DEF IInv, CallInv, EndError, All
  <2>4. NoneForgotten'
    BY <1>3 DEF IInv, NoneForgotten, EndError
  <2>5. QED
    BY <2>1, <2>2, <2>3, <2>4 DEF IInv
<1>4. CASE EndOpen
  <2>1. TypeOK'
    BY <1>4 DEF IInv, TypeOK, EndOpen
  <2>2. ASSUME NEW t \in Sides PROVE SideInv(t)'
    BY <1>4 DEF IInv, SideInv, EndOpen
  <2>3. CallInv'
    BY <1>4 DEF IInv, CallInv, EndOpen
  <2>4. NoneForgotten'
    BY <1>4 DEF IInv, CallInv, NoneForgotten, EndOpen
  <2>5. QED
    BY <2>1, <2>2, <2>3, <2>4 DEF IInv
<1>5. CASE KillIO
  <2>1. TypeOK'
    BY <1>5 DEF IInv, TypeOK, KillIO, ioVars
  <2>2. ASSUME NEW t \in Sides PROVE SideInv(t)'
    BY <1>5 DEF IInv, SideInv, KillIO, ioVars
  <2>3. CallInv'
    BY <1>5 DEF IInv, CallInv, KillIO
  <2>4. NoneForgotten'
    BY <1>5 DEF IInv, NoneForgotten, KillIO
  <2>5. QED
    BY <2>1, <2>2, <2>3, <2>4 DEF IInv
<1>6. CASE EndKillIO
  <2>1. TypeOK'
    BY <1>6 DEF IInv, TypeOK, EndKillIO, ioVars
  <2>2. ASSUME NEW t \in Sides PROVE SideInv(t)'
    BY <1>6 DEF IInv, SideInv, EndKillIO, ioVars
  <2>3. CallInv'
    BY <1>6 DEF IInv, CallInv, EndKillIO
  <2>4. NoneForgotten'
    BY <1>6 DEF IInv, NoneForgotten, EndKillIO
  <2>5. QED
    BY <2>1, <2>2, <2>3, <2>4 DEF IInv
<1>7. CASE SerialClose
  <2>1. TypeOK'
    BY <1>7 DEF IInv, TypeOK, SerialClose, ioVars
  <2>2. ASSUME NEW t \in Sides PROVE SideInv(t)'
    BY <1>7 DEF IInv, SideInv, SerialClose, ioVars
  <2>3. CallInv'
    BY <1>7 DEF IInv, CallInv, SerialClose
  <2>4. NoneForgotten'
    BY <1>7 DEF IInv, NoneForgotten, SerialClose
  <2>5. QED
    BY <2>1, <2>2, <2>3, <2>4 DEF IInv
<1>8. CASE QuitInput
  <2>1. TypeOK'
    BY <1>8 DEF IInv, TypeOK, Sides, SideInv, CallInv, QuitInput, Quit, ioVars
  <2>2. ASSUME NEW t \in Sides PROVE SideInv(t)'
    BY <1>8 DEF IInv, SideInv, QuitInput, Quit, ioVars
  <2>3. CallInv'
    BY <1>8 DEF IInv, SideInv, CallInv, Sides, QuitInput, Quit
  <2>4. NoneForgotten'
    BY <1>8 DEF NoneForgotten, QuitInput, Quit
  <2>5. QED
    BY <2>1, <2>2, <2>3, <2>4 DEF IInv
<1>9. CASE JoinInput
  <2>1. TypeOK'
    BY <1>9 DEF IInv, TypeOK, ThreadPlaces, Sides, CallInv, JoinInput, Quit, ioVars
  <2>2. ASSUME NEW t \in Sides PROVE SideInv(t)'
    BY <1>9 DEF IInv, SideInv, Working, JoinInput, Quit, ioVars
  <2>3. CallInv'
    BY <1>9 DEF IInv, TypeOK, CallInv, Sides, JoinInput
  <2>4. NoneForgotten'
    BY <1>9 DEF NoneForgotten, JoinInput, Quit
  <2>5. QED
    BY <2>1, <2>2, <2>3, <2>4 DEF IInv
<1>10. CASE JoinOutput
  <2>1. TypeOK'
    BY <1>10 DEF IInv, TypeOK, ThreadPlaces, JoinOutput, ioVars
  <2>2. ASSUME NEW t \in Sides PROVE SideInv(t)'
    BY <1>10 DEF IInv, SideInv, Working, JoinOutput, ioVars
  <2>3. CallInv'
    BY <1>10 DEF IInv, TypeOK, CallInv, Sides, JoinOutput
  <2>4. NoneForgotten'
    BY <1>10 DEF IInv, NoneForgotten, JoinOutput
  <2>5. QED
    BY <2>1, <2>2, <2>3, <2>4 DEF IInv
<1>11. CASE DisposePtr
  <2>1. TypeOK'
    BY <1>11 DEF IInv, TypeOK, DisposePtr
  <2>2. ASSUME NEW t \in Sides PROVE SideInv(t)'
    BY <1>11 DEF IInv, SideInv, DisposePtr
  <2>3. CallInv'
    BY <1>11 DEF IInv, CallInv, DisposePtr
  <2>4. NoneForgotten'
    BY <1>11 DEF IInv, NoneForgotten, DisposePtr
  <2>5. QED
    BY <2>1, <2>2, <2>3, <2>4 DEF IInv
<1>12. CASE EndClose
  <2>1. TypeOK'
    BY <1>12 DEF IInv, TypeOK, EndClose, ioVars
  <2>2. ASSUME NEW t \in Sides PROVE SideInv(t)'
    BY <1>12 DEF IInv, SideInv, EndClose, ioVars
  <2>3. CallInv'
    BY <1>12 DEF IInv, CallInv, EndClose
  <2>4. NoneForgotten'
    BY <1>12 DEF NoneForgotten, EndClose
  <2>5. QED
    BY <2>1, <2>2, <2>3, <2>4 DEF IInv
<1>13. CASE SerialExit
  <2>1. TypeOK'
    BY <1>13 DEF IInv, TypeOK, SerialExit, Cancel, ioVars
  <2>2. ASSUME NEW t \in Sides PROVE SideInv(t)'
    BY <1>13 DEF IInv, SideInv, SerialExit, Cancel, ioVars
  <2>3. CallInv'
    BY <1>13 DEF CallInv, SerialExit
  <2>4. NoneForgotten'
    BY <1>13 DEF IInv, NoneForgotten, SerialExit, Cancel
  <2>5. QED
    BY <2>1, <2>2, <2>3, <2>4 DEF IInv
<1>14. CASE ExitInput
  <2>1. TypeOK'
    BY <1>14 DEF IInv, TypeOK, ThreadPlaces, ExitInput, Cancel, ioVars
  <2>2. ASSUME NEW t \in Sides PROVE SideInv(t)'
    BY <1>14 DEF IInv, SideInv, Working, ExitInput, Cancel, ioVars
  <2>3. CallInv'
    BY <1>14 DEF CallInv, ExitInput
  <2>4. NoneForgotten'
    BY <1>14 DEF IInv, NoneForgotten, ExitInput, Cancel
  <2>5. QED
    BY <2>1, <2>2, <2>3, <2>4 DEF IInv
<1>15. CASE ExitOutput
  <2>1. TypeOK'
    BY <1>15 DEF IInv, TypeOK, ThreadPlaces, ExitOutput, ioVars
  <2>2. ASSUME NEW t \in Sides PROVE SideInv(t)'
    BY <1>15 DEF IInv, SideInv, Working, ExitOutput, ioVars
  <2>3. CallInv'
    BY <1>15 DEF CallInv, ExitOutput
  <2>4. NoneForgotten'
    BY <1>15 DEF IInv, NoneForgotten, ExitOutput
  <2>5. QED
    BY <2>1, <2>2, <2>3, <2>4 DEF IInv
<1>16. CASE SerialInterrupt
  <2>1. TypeOK'
    BY <1>16 DEF IInv, TypeOK, SerialInterrupt
  <2>2. ASSUME NEW t \in Sides PROVE SideInv(t)'
    BY <1>16 DEF IInv, SideInv, SerialInterrupt, Activated
  <2>3. CallInv'
    BY <1>16 DEF IInv, CallInv, SerialInterrupt, Activated
  <2>4. NoneForgotten'
    BY <1>16 DEF IInv, NoneForgotten, SerialInterrupt
  <2>5. QED
    BY <2>1, <2>2, <2>3, <2>4 DEF IInv
<1>17. ASSUME NEW s \in Sides, SerialPrime(s) PROVE IInv'
  <2>1. TypeOK'
    BY <1>17 DEF IInv, TypeOK, SideInv, CallInv, SerialPrime, prime
  <2>2. ASSUME NEW t \in Sides PROVE SideInv(t)'
    BY <1>17 DEF IInv, TypeOK, SideInv, Working, SerialPrime, prime
  <2>3. CallInv'
    BY <1>17 DEF IInv, CallInv, SerialPrime, prime
  <2>4. NoneForgotten'
    BY <1>17 DEF IInv, TypeOK, NoneForgotten, SerialPrime, prime
  <2>5. QED
    BY <2>1, <2>2, <2>3, <2>4 DEF IInv
<1>18. ASSUME NEW s \in Sides, Top(s) PROVE IInv'
  <2>1. TypeOK'
    BY <1>18 DEF IInv, TypeOK, ThreadPlaces, Top, Step, callVars
  <2>2. ASSUME NEW t \in Sides PROVE SideInv(t)'
    BY <1>18 DEF IInv, SideInv, Working, Top, Step, callVars
  <2>3. CallInv'
    BY <1>18 DEF IInv, CallInv, Working, Top, Step, callVars
  <2>4. NoneForgotten'
    BY <1>18 DEF IInv, NoneForgotten, Top, callVars
  <2>5. QED
    BY <2>1, <2>2, <2>3, <2>4 DEF IInv
<1>19. ASSUME NEW s \in Sides, Wait(s) PROVE IInv'
  <2>1. TypeOK'
    BY <1>19 DEF IInv, TypeOK, ThreadPlaces, Wait, Step, callVars
  <2>2. ASSUME NEW t \in Sides PROVE SideInv(t)'
    BY <1>19 DEF IInv, TypeOK, SideInv, Working, Wait, Step, callVars
  <2>3. CallInv'
    BY <1>19 DEF IInv, TypeOK, CallInv, Wait, Step, callVars
  <2>4. NoneForgotten'
    BY <1>19 DEF IInv, NoneForgotten, Wait, callVars
  <2>5. QED
    BY <2>1, <2>2, <2>3, <2>4 DEF IInv
<1>20. ASSUME NEW s \in Sides, Perform(s) PROVE IInv'
  <2>1. TypeOK'
    BY <1>20 DEF IInv, TypeOK, ThreadPlaces, Perform, Step, callVars
  <2>2. ASSUME NEW t \in Sides PROVE SideInv(t)'
    BY <1>20 DEF IInv, TypeOK, SideInv, Working, Perform, Step, callVars
  <2>3. CallInv'
    BY <1>20 DEF IInv, CallInv, Working, Perform, Step, callVars
  <2>4. NoneForgotten'
    BY <1>20 DEF IInv, NoneForgotten, Perform, callVars
  <2>5. QED
    BY <2>1, <2>2, <2>3, <2>4 DEF IInv
<1>21. ASSUME NEW s \in Sides, Aborted(s) PROVE IInv'
  <2>1. TypeOK'
    BY <1>21 DEF IInv, TypeOK, ThreadPlaces, Aborted, Step, callVars
  <2>2. ASSUME NEW t \in Sides PROVE SideInv(t)'
    BY <1>21 DEF IInv, TypeOK, SideInv, Working, Aborted, Step, callVars
  <2>3. CallInv'
    BY <1>21 DEF IInv, CallInv, Working, Aborted, Step, callVars
  <2>4. NoneForgotten'
    BY <1>21 DEF IInv, TypeOK, NoneForgotten, Aborted, callVars
  <2>5. QED
    BY <2>1, <2>2, <2>3, <2>4 DEF IInv
<1>22. ASSUME NEW s \in Sides, NotKilled(s) PROVE IInv'
  <2>1. TypeOK'
    BY <1>22 DEF IInv, TypeOK, ThreadPlaces, NotKilled, Step, callVars
  <2>2. ASSUME NEW t \in Sides PROVE SideInv(t)'
    BY <1>22 DEF IInv, SideInv, Working, NotKilled, Step, callVars
  <2>3. CallInv'
    BY <1>22 DEF IInv, CallInv, Working, NotKilled, Step, callVars
  <2>4. NoneForgotten'
    BY <1>22 DEF IInv, NoneForgotten, NotKilled, callVars
  <2>5. QED
    BY <2>1, <2>2, <2>3, <2>4 DEF IInv
<1>23. ASSUME NEW s \in Sides, Done(s) PROVE IInv'
  <2>1. TypeOK'
    BY <1>23 DEF IInv, TypeOK, ThreadPlaces, Done, Step, callVars
  <2>2. ASSUME NEW t \in Sides PROVE SideInv(t)'
    BY <1>23 DEF IInv, TypeOK, SideInv, Working, Done, Step, callVars
  <2>3. CallInv'
    BY <1>23 DEF IInv, CallInv, Working, Done, Step, callVars
  <2>4. NoneForgotten'
    BY <1>23 DEF IInv, NoneForgotten, Done, callVars
  <2>5. QED
    BY <2>1, <2>2, <2>3, <2>4 DEF IInv
<1>24. ASSUME NEW s \in Sides, Raise(s) PROVE IInv'
  <2>1. TypeOK'
    BY <1>24 DEF IInv, TypeOK, ThreadPlaces, Raise, Step, callVars
  <2>2. ASSUME NEW t \in Sides PROVE SideInv(t)'
    BY <1>24 DEF IInv, SideInv, Working, Raise, Step, callVars
  <2>3. CallInv'
    BY <1>24 DEF IInv, CallInv, Working, Raise, Step, callVars
  <2>4. NoneForgotten'
    BY <1>24 DEF IInv, NoneForgotten, Raise, callVars
  <2>5. QED
    BY <2>1, <2>2, <2>3, <2>4 DEF IInv
<1>25. CASE UNCHANGED vars
  BY <1>25 DEF IInv, TypeOK, SideInv, CallInv, NoneForgotten, vars
<1>26. QED
  BY <1>1, <1>2, <1>3, <1>4, <1>5, <1>6, <1>7, <1>8, <1>9, <1>10, <1>11, <1>12, <1>13, <1>14, <1>15, <1>16, <1>17, <1>18, <1>19, <1>20, <1>21, <1>22, <1>23, <1>24, <1>25
     DEF Next, Driver, Thread

LEMMA AlwaysInv == Spec => []IInv
BY InitInv, StepInv, PTL DEF Spec

\* Every variable keeps its type: in particular the threads' semaphores never
\* count more than a request and the signal to quit.
THEOREM TypeCorrect == Spec => []TypeOK
<1>1. IInv => TypeOK
  BY DEF IInv
<1>2. QED
  BY AlwaysInv, <1>1, PTL

\* While the port is open, a request is under way exactly as long as
\* read_pending or write_pending says so.
THEOREM RequestsNotForgotten == Spec => []NoneForgotten
<1>1. IInv => NoneForgotten
  BY DEF IInv
<1>2. QED
  BY AlwaysInv, <1>1, PTL

\* IODone is called for a request only after its own read() or write().
THEOREM CompletedAfterIO == Spec => []DoneAfterIO
<1>1. IInv => DoneAfterIO
  BY DEF IInv, SideInv, DoneAfterIO
<1>2. QED
  BY AlwaysInv, <1>1, PTL

\* No thread of a closed port is left once close() has returned.
THEOREM ClosedWithoutThreads == Spec => []NoThreadLeft
<1>1. IInv => NoThreadLeft
  BY DEF IInv, TypeOK, CallInv, NoThreadLeft, All
<1>2. QED
  BY AlwaysInv, <1>1, PTL
=============================================================================
