----------------------------- MODULE VideoProofs -----------------------------
(***************************************************************************)
(* Proofs about Video, for any pixel values, palettes, frame rates and     *)
(* calls.                                                                  *)
(***************************************************************************)
EXTENDS Video, TLAPS

\* The driver is only away between the end of its thread and the start of the
\* next one, or until the emulator ends if there is none.
Away == ~drv => redraw = "ended" /\ cpu \in {"open", "quit", "last join", "ended"}

\* The count of the frames that are left out.
FrameCount == tick_counter \in Nat /\ (tick_counter = 0 \/ tick_counter < frame_skip)

LEMMA InitVideo == Init => TypeOK /\ Away
<1> SUFFICES ASSUME Init PROVE TypeOK /\ Away
  OBVIOUS
<1>1. <<ramp, 0>> \in AllPalettes \X Values
  BY VideoAssumption DEF VideoAssumption, AllPalettes
<1>2. FrameCount
  BY DEF FrameCount, Init
<1>3. QED
  BY <1>1, <1>2, VideoAssumption DEF VideoAssumption, Init, TypeOK, FrameCount, Away, AllPalettes

\* The frames that are left out are counted up to the one that is drawn.
LEMMA FrameCounted ==
  ASSUME FrameCount, VideoRefresh
  PROVE  FrameCount' /\ redraw' \in {"compare", "palette"}
<1> USE DEF FrameCount
<1>1. tick_counter \in Nat /\ frame_skip \in Nat
  BY VideoAssumption DEF VideoAssumption
<1>2. CASE tick_counter + 1 >= frame_skip
  BY <1>1, <1>2 DEF VideoRefresh
<1>3. CASE ~(tick_counter + 1 >= frame_skip)
  BY <1>1, <1>3 DEF VideoRefresh
<1>4. QED
  BY <1>2, <1>3

\* Every step keeps the invariant: the driver is deleted by Join alone, when the
\* redraw thread has ended, and a thread is started by VideoOpen with a driver.
LEMMA VideoStep == TypeOK /\ Away /\ [Next]_vars => TypeOK' /\ Away'
<1> SUFFICES ASSUME TypeOK, Away, [Next]_vars PROVE TypeOK' /\ Away'
  OBVIOUS
<1> USE VideoAssumption DEF VideoAssumption, TypeOK, Away, AllPalettes,
                            pixels, palette, flags, others
<1>1. ASSUME NEW v \in Values, Draw(v) PROVE TypeOK' /\ Away'
  BY <1>1 DEF Draw
<1>2. ASSUME NEW p \in Palettes, SetEntries(p) PROVE TypeOK' /\ Away'
  BY <1>2 DEF SetEntries, SetPalette
<1>3. CASE SwitchMode
  BY <1>3 DEF SwitchMode, SetPalette
<1>4. CASE VideoInterrupt
  BY <1>4 DEF VideoInterrupt
<1>5. CASE VideoClose
  BY <1>5 DEF VideoClose
<1>6. CASE Join
  BY <1>6 DEF Join
<1>7. CASE VideoOpen
  BY <1>7 DEF VideoOpen
<1>o. CASE VideoOpenFails
  BY <1>o DEF VideoOpenFails
<1>8. CASE RedrawFunc
  BY <1>8 DEF RedrawFunc
<1>9. CASE Expose
  BY <1>9 DEF Expose
<1>10. CASE EmergencyQuit
  BY <1>10 DEF EmergencyQuit
<1>11. CASE EndEvents
  BY <1>11 DEF EndEvents
<1>12. CASE VideoRefresh
  <2>1. FrameCount' /\ redraw' \in {"compare", "palette"}
    BY <1>12, FrameCounted DEF FrameCount
  <2>2. drv
    BY <1>12 DEF VideoRefresh
  <2>3. QED
    BY <1>12, <2>1, <2>2 DEF VideoRefresh, FrameCount
<1>13. CASE Compare
  BY <1>13 DEF Compare
<1>14. CASE Copy
  BY <1>14 DEF Copy
<1>15. CASE Blit
  <2>1. screen' \in AllPalettes \X Values
    BY <1>15 DEF Blit
  <2>2. QED
    BY <1>15, <2>1 DEF Blit
<1>16. CASE HandlePaletteChanges
  BY <1>16 DEF HandlePaletteChanges
<1> HIDE VideoAssumption DEF VideoAssumption, TypeOK, Away, AllPalettes,
                             pixels, palette, flags, others
<1>17. CASE UNCHANGED vars
  BY <1>17 DEF vars, TypeOK, Away
<1>18. QED
  BY <1>1, <1>2, <1>3, <1>4, <1>5, <1>6, <1>7, <1>8, <1>9, <1>10, <1>11, <1>12, <1>13, <1>14,
     <1>15, <1>16, <1>17, <1>o DEF Next, Close, DoVideoRefresh

\* Every variable keeps its type; tick_counter is 0 or below frame_skip, also after
\* a switch of the mode in the middle of a count, which does not reset it.
THEOREM TypeCorrect == Spec => []TypeOK
BY InitVideo, VideoStep, PTL DEF Spec

\* The redraw thread meets no driver, surface or buffer that has been deleted,
\* however closing, opening, quitting and its own steps are interleaved.
THEOREM DriverThereAlways == Spec => []DriverThere
<1>1. Away => DriverThere
  BY DEF Away, DriverThere
<1>2. QED
  BY <1>1, InitVideo, VideoStep, PTL DEF Spec
-----------------------------------------------------------------------------
(* What the host's screen shows.                                           *)

\* While MacOS draws nothing that may have been there before, no copy is ahead of
\* the frame buffer.
CopyOlder == ~again => the_buffer_copy <= the_buffer

\* What the redraw thread will take for unchanged is on the screen.
EqualIsShown ==
  ~again /\ redraw # "blit" /\ the_buffer # 0 /\ the_buffer_copy = the_buffer =>
    screen \in AllPalettes \X {the_buffer}

LEMMA InitShown == Init => CopyOlder /\ EqualIsShown
BY DEF Init, CopyOlder, EqualIsShown

LEMMA ShownStep ==
  TypeOK /\ CopyOlder /\ EqualIsShown /\ [Next]_vars => CopyOlder' /\ EqualIsShown'
<1> SUFFICES ASSUME TypeOK, CopyOlder, EqualIsShown, [Next]_vars
             PROVE  CopyOlder' /\ EqualIsShown'
  OBVIOUS
<1>0. the_buffer \in Nat /\ the_buffer_copy \in Nat /\ Values \subseteq Nat
  BY VideoAssumption DEF VideoAssumption, TypeOK
<1> USE DEF pixels, palette, flags, others
<1>1. ASSUME NEW v \in Values, Draw(v) PROVE CopyOlder' /\ EqualIsShown'
  <2>1. CASE v < the_buffer
    BY <1>1, <2>1 DEF Draw, CopyOlder, EqualIsShown
  <2>2. CASE v >= the_buffer
    <3>1. v \in Nat /\ (again' = again)
      BY <1>0, <1>1, <2>2 DEF Draw, TypeOK
    <3>2. CopyOlder'
      BY <1>0, <1>1, <2>2, <3>1 DEF Draw, CopyOlder
    <3>3. ~again' /\ the_buffer_copy' = the_buffer' => the_buffer' = the_buffer
      BY <1>0, <1>1, <2>2, <3>1 DEF Draw, CopyOlder
    <3>4. EqualIsShown'
      BY <1>1, <3>1, <3>3 DEF Draw, EqualIsShown
    <3>5. QED
      BY <3>2, <3>4
  <2>3. QED
    BY <1>0, <2>1, <2>2
<1>2. ASSUME NEW p \in Palettes, SetEntries(p) PROVE CopyOlder' /\ EqualIsShown'
  BY <1>2 DEF SetEntries, CopyOlder, EqualIsShown
<1>3. CASE SwitchMode
  BY <1>3 DEF SwitchMode, CopyOlder, EqualIsShown
<1>4. CASE VideoInterrupt
  BY <1>4 DEF VideoInterrupt, CopyOlder, EqualIsShown
<1>5. CASE VideoClose
  BY <1>5 DEF VideoClose, CopyOlder, EqualIsShown
<1>6. CASE Join
  BY <1>6 DEF Join, CopyOlder, EqualIsShown
<1>7. CASE VideoOpen
  BY <1>7 DEF VideoOpen, CopyOlder, EqualIsShown
<1>o. CASE VideoOpenFails
  BY <1>o DEF VideoOpenFails, CopyOlder, EqualIsShown
<1>8. CASE RedrawFunc
  BY <1>8 DEF RedrawFunc, CopyOlder, EqualIsShown
<1>9. CASE Expose
  BY <1>0, <1>9 DEF Expose, CopyOlder, EqualIsShown
<1>10. CASE EmergencyQuit
  BY <1>10 DEF EmergencyQuit, CopyOlder, EqualIsShown
<1>11. CASE EndEvents
  BY <1>11 DEF EndEvents, CopyOlder, EqualIsShown
<1>12. CASE VideoRefresh
  BY <1>12 DEF VideoRefresh, CopyOlder, EqualIsShown
<1>13. CASE Compare
  BY <1>13 DEF Compare, CopyOlder, EqualIsShown
<1>14. CASE Copy
  BY <1>0, <1>14 DEF Copy, CopyOlder, EqualIsShown
<1>15. CASE Blit
  <2>1. screen' \in AllPalettes \X {the_buffer'}
    BY <1>15 DEF Blit, TypeOK
  <2>2. CopyOlder'
    BY <1>15 DEF Blit, CopyOlder
  <2>3. EqualIsShown'
    BY <2>1 DEF EqualIsShown, AllPalettes
  <2>4. QED
    BY <2>2, <2>3
<1>16. CASE HandlePaletteChanges
  BY <1>16 DEF HandlePaletteChanges, CopyOlder, EqualIsShown
<1>17. CASE UNCHANGED vars
  BY <1>17 DEF vars, CopyOlder, EqualIsShown
<1>18. QED
  BY <1>1, <1>2, <1>3, <1>4, <1>5, <1>6, <1>7, <1>8, <1>9, <1>10, <1>11, <1>12, <1>13, <1>14,
     <1>15, <1>16, <1>17, <1>o DEF Next, Close, DoVideoRefresh

\* What MacOS draws between the copy of a row and its blit is shown or differs from
\* the copy: pixels that are equal to their copy are on the screen, so that the
\* redraw thread may leave them out.  This is the part of PixelsShown that does not
\* depend on scheduling.
THEOREM UnchangedIsShown == Spec => []EqualIsShown
<1>1. Init => TypeOK /\ Away /\ CopyOlder /\ EqualIsShown
  BY InitVideo, InitShown
<1>2. TypeOK /\ Away /\ CopyOlder /\ EqualIsShown /\ [Next]_vars
        => (TypeOK /\ Away /\ CopyOlder /\ EqualIsShown)'
  BY VideoStep, ShownStep
<1>3. QED
  BY <1>1, <1>2, PTL DEF Spec
=============================================================================
