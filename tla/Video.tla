-------------------------------- MODULE Video --------------------------------
(***************************************************************************)
(* The display of SDL/video_sdl.cpp: MacOS draws into a frame buffer, sets *)
(* palettes and switches modes on the CPU thread, while the redraw thread  *)
(* handles the host's events and brings what changed to the host's screen. *)
(* One row of one of the boxes that are compared stands for the screen; it *)
(* has the same value everywhere.                                          *)
(***************************************************************************)
EXTENDS Naturals

CONSTANTS
  Values,      \* pixel values, 0 among them
  Palettes,    \* palettes that MacOS sets
  gray, ramp,  \* the palettes of set_gray_palette() and of a new display
  lost,        \* what an exposed part of the window shows
  frame_skip,  \* a frame out of so many is drawn
  Calls        \* what MacOS and the user do

ASSUME VideoAssumption ==
  /\ 0 \in Values /\ Values \subseteq Nat /\ frame_skip \in Nat
  /\ Calls \subseteq {"draw", "palette", "switch", "quit", "expose"}

VARIABLES
  drv,               \* the display driver is there, and with it the buffers
  the_buffer, the_buffer_copy,
  screen,            \* <<palette, value>> of the pixels on the host's screen
  ExpandMap,         \* colours of the pixel values
  sdl_palette_changed,
  redraw_thread_cancel,
  emerg_quit,
  tick_counter,      \* of video_refresh_window_static()
  redraw,            \* where the redraw thread is
  cpu,               \* where the CPU thread is
  again              \* history: MacOS has drawn what may have been there before

vars == <<drv, the_buffer, the_buffer_copy, screen, ExpandMap, sdl_palette_changed,
          redraw_thread_cancel, emerg_quit, tick_counter, redraw, cpu,
          again>>

pixels == <<the_buffer, the_buffer_copy, screen>>
palette == <<ExpandMap, sdl_palette_changed>>
flags == <<redraw_thread_cancel, emerg_quit>>

AllPalettes == Palettes \union {gray, ramp}

Init ==
  /\ drv = TRUE
  /\ the_buffer = 0 /\ the_buffer_copy = 0
  /\ screen = <<ramp, 0>> /\ ExpandMap = ramp
  /\ sdl_palette_changed = FALSE
  /\ redraw_thread_cancel = FALSE /\ emerg_quit = FALSE
  /\ tick_counter = 0
  /\ redraw = "wait" /\ cpu = "run" /\ again = FALSE

-----------------------------------------------------------------------------
(* The CPU thread.                                                         *)

Draw(v) ==
  /\ "draw" \in Calls /\ cpu = "run" /\ drv
  /\ the_buffer' = v
  /\ again' = (again \/ v < the_buffer)
  /\ UNCHANGED <<drv, the_buffer_copy, screen, palette, flags, tick_counter, redraw, cpu>>

\* set_palette() in a mode with a palette, under sdl_palette_lock
SetPalette(p) ==
  /\ ExpandMap' = p
  /\ sdl_palette_changed' = TRUE

\* cscSetEntries
SetEntries(p) ==
  /\ "palette" \in Calls /\ cpu = "run" /\ drv
  /\ SetPalette(p)
  /\ UNCHANGED <<drv, pixels, flags, tick_counter, again, redraw, cpu>>

\* switch_mode() begins with a gray palette.  (It sets current_mode before the redraw
\* thread has ended; sizes, which are what the thread reads there, are left out.)
SwitchMode ==
  /\ "switch" \in Calls /\ cpu = "run" /\ drv
  /\ SetPalette(gray)
  /\ cpu' = "switch"
  /\ UNCHANGED <<drv, pixels, flags, tick_counter, again, redraw>>

\* The interrupt quits if that was requested (it gives up frame_buffer_lock for
\* a moment otherwise, which no other thread takes).
VideoInterrupt ==
  /\ cpu = "run" /\ emerg_quit
  /\ cpu' = "quit"
  /\ UNCHANGED <<drv, pixels, palette, flags, tick_counter, again, redraw>>

\* A mutated form: the redraw thread is not asked to end.
VideoClose_NoCancel ==
  /\ cpu \in {"switch", "quit"}
  /\ cpu' = IF cpu = "switch" THEN "join" ELSE "last join"
  /\ UNCHANGED <<drv, pixels, palette, flags, tick_counter, again, redraw>>

VideoClose ==
  /\ cpu \in {"switch", "quit"}
  /\ redraw_thread_cancel' = TRUE
  /\ cpu' = IF cpu = "switch" THEN "join" ELSE "last join"
  /\ UNCHANGED <<drv, pixels, palette, emerg_quit, tick_counter, again, redraw>>

\* A mutated form: the driver is deleted while the redraw thread may run.
Join_NoWait ==
  /\ cpu \in {"join", "last join"}
  /\ drv' = FALSE
  /\ cpu' = IF cpu = "join" THEN "open" ELSE "ended"
  /\ UNCHANGED <<pixels, palette, flags, tick_counter, again, redraw>>

\* The redraw thread has ended: the driver is deleted.
Join ==
  /\ cpu \in {"join", "last join"} /\ redraw = "ended"
  /\ drv' = FALSE
  /\ cpu' = IF cpu = "join" THEN "open" ELSE "ended"
  /\ UNCHANGED <<pixels, palette, flags, tick_counter, again, redraw>>

\* No driver, or not its surface: an error is shown and the emulator ends.  (If only
\* the thread cannot be created nothing more is done; that is left out.)
VideoOpenFails ==
  /\ cpu = "open"
  /\ cpu' = "quit"
  /\ UNCHANGED <<drv, pixels, palette, flags, tick_counter, again, redraw>>

\* A new driver has new buffers and colours, and a thread.
VideoOpen ==
  /\ cpu = "open"
  /\ drv' = TRUE
  /\ the_buffer' = 0 /\ the_buffer_copy' = 0
  /\ screen' = <<ramp, 0>> /\ ExpandMap' = ramp
  /\ redraw_thread_cancel' = FALSE
  /\ redraw' = "wait" /\ cpu' = "run" /\ again' = FALSE
  /\ UNCHANGED <<sdl_palette_changed, emerg_quit, tick_counter>>

-----------------------------------------------------------------------------
(* The redraw thread.                                                      *)

others == <<palette, redraw_thread_cancel, cpu, again>>

\* The loop ends, or waits and handles events.
RedrawFunc ==
  /\ redraw = "wait"
  /\ redraw' = IF redraw_thread_cancel THEN "ended" ELSE "events"
  /\ UNCHANGED <<drv, pixels, others, emerg_quit, tick_counter>>

\* SDL_VIDEOEXPOSE
Expose ==
  /\ "expose" \in Calls /\ redraw = "events"
  /\ screen' = lost
  /\ the_buffer_copy' = 0
  /\ UNCHANGED <<drv, the_buffer, others, emerg_quit, tick_counter, redraw>>

\* Ctrl-Esc
EmergencyQuit ==
  /\ "quit" \in Calls /\ redraw = "events"
  /\ emerg_quit' = TRUE
  /\ UNCHANGED <<drv, pixels, others, tick_counter, redraw>>

EndEvents ==
  /\ redraw = "events"
  /\ redraw' = "refresh"
  /\ UNCHANGED <<drv, pixels, others, emerg_quit, tick_counter>>

\* A mutated form: the frames that are left out are counted on.
VideoRefresh_NoReset ==
  /\ redraw = "refresh"
  /\ tick_counter' = tick_counter + 1
  /\ redraw' = IF tick_counter' >= frame_skip THEN "compare" ELSE "palette"
  /\ UNCHANGED <<drv, pixels, others, emerg_quit>>

\* A frame out of frame_skip is drawn.
VideoRefresh ==
  /\ redraw = "refresh"
  /\ IF tick_counter + 1 >= frame_skip
     THEN tick_counter' = 0 /\ redraw' = "compare"
     ELSE tick_counter' = tick_counter + 1 /\ redraw' = "palette"
  /\ UNCHANGED <<drv, pixels, others, emerg_quit>>

Compare ==
  /\ redraw = "compare"
  /\ redraw' = IF the_buffer # the_buffer_copy THEN "copy" ELSE "palette"
  /\ UNCHANGED <<drv, pixels, others, emerg_quit, tick_counter>>

Copy ==
  /\ redraw = "copy"
  /\ the_buffer_copy' = the_buffer
  /\ redraw' = "blit"
  /\ UNCHANGED <<drv, the_buffer, screen, others, emerg_quit, tick_counter>>

\* A mutated form: the copy is blitted, and brought up to date after that.
Blit_ThenCopy ==
  /\ redraw = "blit"
  /\ screen' = <<ExpandMap, the_buffer_copy>>
  /\ the_buffer_copy' = the_buffer
  /\ redraw' = "palette"
  /\ UNCHANGED <<drv, the_buffer, others, emerg_quit, tick_counter>>

\* MacOS may have drawn again since the copy was made.
Blit ==
  /\ redraw = "blit"
  /\ screen' = <<ExpandMap, the_buffer>>
  /\ redraw' = "palette"
  /\ UNCHANGED <<drv, the_buffer, the_buffer_copy, others, emerg_quit,
                 tick_counter>>

\* The surface has 32 bits per pixel: its palette does not matter.
HandlePaletteChanges ==
  /\ redraw = "palette"
  /\ sdl_palette_changed' = FALSE
  /\ redraw' = "wait"
  /\ UNCHANGED <<drv, pixels, ExpandMap, flags, tick_counter, cpu, again>>

DoVideoRefresh ==
  EndEvents \/ VideoRefresh \/ Compare \/ Copy \/ Blit \/ HandlePaletteChanges

-----------------------------------------------------------------------------
Close == VideoClose \/ Join \/ VideoOpen \/ VideoOpenFails

Next ==
  \/ \E v \in Values : Draw(v)
  \/ \E p \in Palettes : SetEntries(p)
  \/ SwitchMode \/ VideoInterrupt \/ Close
  \/ RedrawFunc \/ Expose \/ EmergencyQuit \/ DoVideoRefresh

Spec == Init /\ [][Next]_vars

\* Both threads go on.  An interrupt comes 60 times a second, and again after
\* every switch of the mode.
Fairness ==
  /\ WF_vars(RedrawFunc \/ DoVideoRefresh)
  /\ WF_vars(Close) /\ SF_vars(VideoInterrupt)

FairSpec == Spec /\ Fairness

-----------------------------------------------------------------------------
(* Properties.                                                             *)

\* The type of every variable; the frames left out are fewer than frame_skip.
TypeOK ==
  /\ drv \in BOOLEAN
  /\ the_buffer \in Values /\ the_buffer_copy \in Values
  /\ screen \in (AllPalettes \X Values) \union {lost}
  /\ ExpandMap \in AllPalettes /\ sdl_palette_changed \in BOOLEAN
  /\ redraw_thread_cancel \in BOOLEAN /\ emerg_quit \in BOOLEAN /\ again \in BOOLEAN
  /\ tick_counter \in Nat /\ (tick_counter = 0 \/ tick_counter < frame_skip)
  /\ redraw \in {"wait", "events", "refresh", "compare", "copy", "blit", "palette", "ended"}
  /\ cpu \in {"run", "switch", "join", "open", "quit", "last join", "ended"}

\* The redraw thread uses the driver, its surface and its buffers while they are
\* there, even if MacOS switches the mode or the emulator ends.
DriverThere == redraw \in {"events", "compare", "copy", "blit", "palette"} => drv

\* "Update the surface from Mac screen": what MacOS draws comes to the screen,
\* also what it draws while the screen is brought up to date, unless it draws
\* something else or closes the display.  Not so what was there before: if pixels
\* change between Copy and Blit and change back later, they equal their copy.
PixelsShown ==
  \A v \in Values \ {0} :
    cpu = "run" /\ the_buffer = v ~>
      the_buffer # v \/ cpu # "run" \/ again \/ (screen # lost /\ screen[2] = v)

\* A switch of the mode ends: it joins the redraw thread whatever that does, and if
\* there is no display for the new mode, the emulator ends, not joining it again.
SwitchEnds == cpu = "switch" ~> cpu \in {"run", "ended"}

\* The emulator ends when the user asks for it, even while the mode is switched.
QuitEnds == emerg_quit ~> cpu = "ended"

\* Closing the display never waits for ever, for a switch or at the end.
ClosingEnds == SwitchEnds /\ QuitEnds
=============================================================================
