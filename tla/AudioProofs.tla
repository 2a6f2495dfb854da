---------------------------- MODULE AudioProofs -----------------------------
(***************************************************************************)
(* Proofs about Audio, for every bound.                                    *)
(***************************************************************************)
EXTENDS Audio, TLAPS

LEMMA Zero == 0 \in 0 .. MaxOpen /\ 0 \in 0 .. MaxSources /\ 0 \in 0 .. 1
BY AudioAssumption DEF AudioAssumption

\* open_count is never less than what MacOS has open.
Counted == open_count >= instances /\ (cpu = "newptr" => open_count < MaxOpen)

HandshakeInv == TypeOK /\ Handshake /\ Counted

LEMMA InitHandshake == Init => HandshakeInv
<1> SUFFICES ASSUME Init PROVE HandshakeInv
  OBVIOUS
<1>1. TypeOK
  <2>1. stream \in {"none", "top"} /\ enabled \in BOOLEAN
    BY DEF Init
  <2>2. QED
    BY <2>1, Zero DEF Init, TypeOK
<1>2. Handshake /\ Counted
  BY AudioAssumption DEF Init, Handshake, Counted, AudioAssumption
<1>3. QED
  BY <1>1, <1>2 DEF HandshakeInv

\* Every step keeps the types and the handshake of the thread and the interrupt.
LEMMA HandshakeStep == HandshakeInv /\ [Next]_vars => HandshakeInv'
<1> SUFFICES ASSUME HandshakeInv, [Next]_vars PROVE HandshakeInv'
  OBVIOUS
<1> USE AudioAssumption DEF AudioAssumption, HandshakeInv
<1>1. CASE Open
  <2>1. TypeOK'
    BY <1>1 DEF TypeOK, Handshake, Counted, Open, Running, streamVars, deviceVars
  <2>2. Handshake'
    BY <1>1 DEF TypeOK, Handshake, Open, Running, streamVars, deviceVars
  <2>3. Counted'
    BY <1>1 DEF TypeOK, Counted, Open, Running, streamVars, deviceVars
  <2>4. QED
    BY <2>1, <2>2, <2>3
<1>2. CASE EndOpen
  <2>1. TypeOK'
    <3>1. open_count' \in 0 .. MaxOpen /\ instances' \in 0 .. MaxOpen
      BY <1>2 DEF TypeOK, Handshake, Counted, EndOpen
    <3>2. audio_data' \in BOOLEAN
      BY <1>2 DEF TypeOK, Handshake, Counted, EndOpen
    <3>3. QED
      BY <3>1, <3>2, <1>2 DEF TypeOK, EndOpen, streamVars, deviceVars
  <2>2. Handshake'
    BY <1>2 DEF TypeOK, Handshake, EndOpen, streamVars, deviceVars
  <2>3. Counted'
    BY <1>2 DEF TypeOK, Counted, EndOpen, streamVars, deviceVars
  <2>4. QED
    BY <2>1, <2>2, <2>3
<1>3. CASE Close
  <2>1. TypeOK'
    BY <1>3 DEF TypeOK, Handshake, Counted, Close, Running, streamVars, deviceVars
  <2>2. Handshake'
    BY <1>3 DEF TypeOK, Handshake, Close, Running, streamVars, deviceVars
  <2>3. Counted'
    BY <1>3 DEF TypeOK, Counted, Close, Running, streamVars, deviceVars
  <2>4. QED
    BY <2>1, <2>2, <2>3
<1>4. CASE EndCloseMixer
  <2>1. TypeOK'
    BY <1>4 DEF TypeOK, Handshake, Counted, EndCloseMixer, streamVars, deviceVars
  <2>2. Handshake'
    BY <1>4 DEF TypeOK, Handshake, EndCloseMixer, streamVars, deviceVars
  <2>3. Counted'
    BY <1>4 DEF TypeOK, Counted, EndCloseMixer, streamVars, deviceVars
  <2>4. QED
    BY <2>1, <2>2, <2>3
<1>5. CASE EndDispose
  <2>1. TypeOK'
    <3>1. num_sources' = 0
      BY <1>5 DEF TypeOK, Handshake, Counted, EndDispose
    <3>2. QED
      BY <3>1, <1>5, Zero DEF TypeOK, EndDispose, streamVars, deviceVars
  <2>2. Handshake'
    BY <1>5 DEF TypeOK, Handshake, EndDispose, streamVars, deviceVars
  <2>3. Counted'
    BY <1>5 DEF TypeOK, Counted, EndDispose, streamVars, deviceVars
  <2>4. QED
    BY <2>1, <2>2, <2>3
<1>6. CASE InitOutputDevice
  <2>1. TypeOK'
    BY <1>6 DEF TypeOK, Handshake, Counted, InitOutputDevice, Running, streamVars, deviceVars
  <2>2. Handshake'
    BY <1>6 DEF TypeOK, Handshake, InitOutputDevice, Running, streamVars, deviceVars
  <2>3. Counted'
    BY <1>6 DEF TypeOK, Counted, InitOutputDevice, Running, streamVars, deviceVars
  <2>4. QED
    BY <2>1, <2>2, <2>3
<1>7. CASE EndOpenMixer
  <2>1. TypeOK'
    BY <1>7 DEF TypeOK, Handshake, Counted, EndOpenMixer, streamVars, deviceVars
  <2>2. Handshake'
    BY <1>7 DEF TypeOK, Handshake, EndOpenMixer, streamVars, deviceVars
  <2>3. Counted'
    BY <1>7 DEF TypeOK, Counted, EndOpenMixer, streamVars, deviceVars
  <2>4. QED
    BY <2>1, <2>2, <2>3
<1>8. CASE AddSource
  <2>1. TypeOK'
    BY <1>8 DEF TypeOK, Handshake, Counted, AddSource, streamVars, deviceVars
  <2>2. Handshake'
    BY <1>8 DEF TypeOK, Handshake, AddSource, streamVars, deviceVars
  <2>3. Counted'
    BY <1>8 DEF TypeOK, Counted, AddSource, streamVars, deviceVars
  <2>4. QED
    BY <2>1, <2>2, <2>3
<1>9. CASE RemoveSource
  <2>1. TypeOK'
    BY <1>9 DEF TypeOK, Handshake, Counted, RemoveSource, streamVars, deviceVars
  <2>2. Handshake'
    BY <1>9 DEF TypeOK, Handshake, RemoveSource, streamVars, deviceVars
  <2>3. Counted'
    BY <1>9 DEF TypeOK, Counted, RemoveSource, streamVars, deviceVars
  <2>4. QED
    BY <2>1, <2>2, <2>3
<1>10. CASE AudioSetInfo
  <2>1. TypeOK'
    BY <1>10 DEF TypeOK, Handshake, Counted, AudioSetInfo, Running, CloseAudio, streamVars
  <2>2. Handshake'
    BY <1>10 DEF TypeOK, Handshake, AudioSetInfo, Running, CloseAudio, streamVars
  <2>3. Counted'
    BY <1>10 DEF TypeOK, Counted, AudioSetInfo, Running, CloseAudio, streamVars
  <2>4. QED
    BY <2>1, <2>2, <2>3
<1>11. CASE EndSetInfo
  <2>1. TypeOK'
    BY <1>11 DEF TypeOK, Handshake, Counted, EndSetInfo
  <2>2. Handshake'
    BY <1>11 DEF TypeOK, Handshake, EndSetInfo
  <2>3. Counted'
    BY <1>11 DEF TypeOK, Counted, EndSetInfo
  <2>4. QED
    BY <2>1, <2>2, <2>3
<1>12. CASE AudioReset
  <2>1. TypeOK'
    <3>1. instances' = 0
      BY <1>12 DEF TypeOK, Handshake, Counted, AudioReset
    <3>2. QED
      BY <3>1, <1>12, Zero DEF TypeOK, AudioReset, streamVars, deviceVars
  <2>2. Handshake'
    BY <1>12 DEF TypeOK, Handshake, AudioReset, Running, streamVars, deviceVars
  <2>3. Counted'
    BY <1>12 DEF TypeOK, Counted, AudioReset, Running, streamVars, deviceVars
  <2>4. QED
    BY <2>1, <2>2, <2>3
<1>13. CASE AudioExit
  <2>1. TypeOK'
    BY <1>13 DEF TypeOK, Handshake, Counted, AudioExit, Running, CloseAudio, streamVars
  <2>2. Handshake'
    BY <1>13 DEF TypeOK, Handshake, AudioExit, Running, CloseAudio, streamVars
  <2>3. Counted'
    BY <1>13 DEF TypeOK, Counted, AudioExit, Running, CloseAudio, streamVars
  <2>4. QED
    BY <2>1, <2>2, <2>3
<1>14. CASE EndExit
  <2>1. TypeOK'
    BY <1>14 DEF TypeOK, Handshake, Counted, EndExit
  <2>2. Handshake'
    BY <1>14 DEF TypeOK, Handshake, EndExit
  <2>3. Counted'
    BY <1>14 DEF TypeOK, Counted, EndExit
  <2>4. QED
    BY <2>1, <2>2, <2>3
<1>15. CASE AudioInterrupt
  <2>1. TypeOK'
    BY <1>15 DEF TypeOK, Handshake, Counted, AudioInterrupt, callVars, deviceVars
  <2>2. Handshake'
    BY <1>15 DEF TypeOK, Handshake, AudioInterrupt, callVars, deviceVars
  <2>3. Counted'
    BY <1>15 DEF TypeOK, Counted, AudioInterrupt, callVars, deviceVars
  <2>4. QED
    BY <2>1, <2>2, <2>3
<1>16. CASE EndAudioInterrupt
  <2>1. TypeOK'
    <3>1. sem' \in 0 .. 1
      BY <1>16 DEF TypeOK, Handshake, Counted, EndAudioInterrupt
    <3>2. QED
      BY <3>1, <1>16 DEF TypeOK, EndAudioInterrupt, callVars, deviceVars
  <2>2. Handshake'
    BY <1>16 DEF TypeOK, Handshake, EndAudioInterrupt, callVars, deviceVars
  <2>3. Counted'
    BY <1>16 DEF TypeOK, Counted, EndAudioInterrupt, callVars, deviceVars
  <2>4. QED
    BY <2>1, <2>2, <2>3
<1>17. CASE Loop
  <2>1. TypeOK'
    BY <1>17 DEF TypeOK, Handshake, Counted, Loop, callVars, deviceVars
  <2>2. Handshake'
    BY <1>17 DEF TypeOK, Handshake, Loop, callVars, deviceVars
  <2>3. Counted'
    BY <1>17 DEF TypeOK, Counted, Loop, callVars, deviceVars
  <2>4. QED
    BY <2>1, <2>2, <2>3
<1>18. CASE Test
  <2>1. TypeOK'
    BY <1>18 DEF TypeOK, Handshake, Counted, Test, callVars, deviceVars
  <2>2. Handshake'
    BY <1>18 DEF TypeOK, Handshake, Test, callVars, deviceVars
  <2>3. Counted'
    BY <1>18 DEF TypeOK, Counted, Test, callVars, deviceVars
  <2>4. QED
    BY <2>1, <2>2, <2>3
<1>19. CASE Trigger
  <2>1. TypeOK'
    BY <1>19 DEF TypeOK, Handshake, Counted, Trigger, callVars, deviceVars
  <2>2. Handshake'
    BY <1>19 DEF TypeOK, Handshake, Trigger, callVars, deviceVars
  <2>3. Counted'
    BY <1>19 DEF TypeOK, Counted, Trigger, callVars, deviceVars
  <2>4. QED
    BY <2>1, <2>2, <2>3
<1>20. CASE SemWait
  <2>1. TypeOK'
    BY <1>20 DEF TypeOK, Handshake, Counted, SemWait, callVars, deviceVars
  <2>2. Handshake'
    BY <1>20 DEF TypeOK, Handshake, SemWait, callVars, deviceVars
  <2>3. Counted'
    BY <1>20 DEF TypeOK, Counted, SemWait, callVars, deviceVars
  <2>4. QED
    BY <2>1, <2>2, <2>3
<1>21. CASE Copy
  <2>1. TypeOK'
    BY <1>21 DEF TypeOK, Handshake, Counted, Copy, callVars, deviceVars
  <2>2. Handshake'
    BY <1>21 DEF TypeOK, Handshake, Copy, callVars, deviceVars
  <2>3. Counted'
    BY <1>21 DEF TypeOK, Counted, Copy, callVars, deviceVars
  <2>4. QED
    BY <2>1, <2>2, <2>3
<1>22. CASE UNCHANGED vars
  BY <1>22 DEF TypeOK, Handshake, Counted, vars
<1>23. QED
  BY <1>1, <1>2, <1>3, <1>4, <1>5, <1>6, <1>7, <1>8, <1>9, <1>10, <1>11, <1>12, <1>13, <1>14, <1>15, <1>16, <1>17, <1>18, <1>19, <1>20, <1>21, <1>22 DEF Next, Component, stream_func

\* Every variable keeps its type: the semaphore never counts two signals.
THEOREM TypeCorrect == Spec => []TypeOK
BY InitHandshake, HandshakeStep, PTL DEF Spec, HandshakeInv

\* One interrupt answers one request: a block of sound is handed to the
\* streaming thread exactly once, whatever the program, a change of format, a
\* reset or the end of the emulator come in between.
THEOREM BlockHandedOnce == Spec => []Handshake
BY InitHandshake, HandshakeStep, PTL DEF Spec, HandshakeInv

-----------------------------------------------------------------------------
\* Unless a reset has left open_count behind, the data area exists as long as an
\* instance or the mixer needs it, and only an open instance has a mixer.
DataInv ==
  open_count = instances =>
    /\ mixer \/ instances > 0 => audio_data
    /\ mixer => instances > 0 \/ cpu = "closemixer"
    /\ cpu \in {"openmixer", "closemixer"} => audio_data
    /\ cpu \in {"closemixer", "dispose"} => instances = 0
    /\ cpu = "dispose" => ~mixer
    /\ cpu = "openmixer" => instances > 0

LEMMA DataStep ==
  ASSUME TypeOK, Counted, DataInv, [Next]_vars
  PROVE  DataInv'
<1>1. CASE Open
  BY <1>1 DEF TypeOK, DataInv, Open, Running
<1>2. CASE EndOpen
  BY <1>2 DEF TypeOK, DataInv, EndOpen
<1>3. CASE Close
  BY <1>3 DEF TypeOK, DataInv, Close, Running
<1>4. CASE EndCloseMixer
  BY <1>4 DEF TypeOK, DataInv, EndCloseMixer
<1>5. CASE EndDispose
  BY <1>5 DEF TypeOK, DataInv, EndDispose
<1>6. CASE InitOutputDevice
  BY <1>6 DEF TypeOK, DataInv, InitOutputDevice, Running
<1>7. CASE EndOpenMixer
  BY <1>7 DEF TypeOK, DataInv, EndOpenMixer
<1>8. CASE AddSource
  BY <1>8 DEF TypeOK, DataInv, AddSource
<1>9. CASE RemoveSource
  BY <1>9 DEF TypeOK, DataInv, RemoveSource
<1>10. CASE AudioSetInfo
  BY <1>10 DEF TypeOK, DataInv, AudioSetInfo, Running, CloseAudio
<1>11. CASE EndSetInfo
  BY <1>11 DEF TypeOK, DataInv, EndSetInfo
<1>12. CASE AudioReset
  BY <1>12 DEF TypeOK, Counted, DataInv, AudioReset, Running
<1>13. CASE AudioExit
  BY <1>13 DEF TypeOK, DataInv, AudioExit, Running, CloseAudio
<1>14. CASE EndExit
  BY <1>14 DEF TypeOK, DataInv, EndExit
<1>15. CASE AudioInterrupt
  BY <1>15 DEF TypeOK, DataInv, AudioInterrupt, callVars, deviceVars
<1>16. CASE EndAudioInterrupt
  BY <1>16 DEF TypeOK, DataInv, EndAudioInterrupt, callVars, deviceVars
<1>17. CASE Loop
  BY <1>17 DEF TypeOK, DataInv, Loop, callVars, deviceVars
<1>18. CASE Test
  BY <1>18 DEF TypeOK, DataInv, Test, callVars, deviceVars
<1>19. CASE Trigger
  BY <1>19 DEF TypeOK, DataInv, Trigger, callVars, deviceVars
<1>20. CASE SemWait
  BY <1>20 DEF TypeOK, DataInv, SemWait, callVars, deviceVars
<1>21. CASE Copy
  BY <1>21 DEF TypeOK, DataInv, Copy, callVars, deviceVars
<1>22. CASE UNCHANGED vars
  BY <1>22 DEF DataInv, vars
<1>23. QED
  BY <1>1, <1>2, <1>3, <1>4, <1>5, <1>6, <1>7, <1>8, <1>9, <1>10, <1>11, <1>12, <1>13, <1>14, <1>15, <1>16, <1>17, <1>18, <1>19, <1>20, <1>21, <1>22 DEF Next, Component, stream_func

\* The interrupt calls the mixer only by routines of a data area that is there,
\* however often the component is opened and closed.
THEOREM DataAreaThere == Spec => DataAreaUsed
<1>1. Init => DataInv
  BY DEF Init, DataInv
<1>2. HandshakeInv /\ DataInv /\ [Next]_vars => DataInv'
  BY DataStep DEF HandshakeInv
<1>3. DataInv /\ [Next]_vars
        => [AudioInterrupt /\ mixer /\ open_count = instances => audio_data]_vars
  BY DEF DataInv
<1>4. QED
  BY <1>1, <1>2, <1>3, InitHandshake, HandshakeStep, PTL DEF Spec, DataAreaUsed
=============================================================================
