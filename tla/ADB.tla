--------------------------------- MODULE ADB ---------------------------------
(***************************************************************************)
(* Keyboard and mouse events of adb.cpp: the input thread (the redraw      *)
(* thread of SDL/video_sdl.cpp, which handles the host's events) and       *)
(* ADBInterrupt() on the CPU thread, which reports them to MacOS.  One     *)
(* coordinate and one button stand for the two and three of the code.      *)
(* The registers of ADBOp() are left out.                                  *)
(***************************************************************************)
EXTENDS Integers, Sequences

CONSTANTS
  Keys,             \* keyboard events: a key pressed or released
  KEY_BUFFER_SIZE,  \* size of the ring of keyboard events
  MaxWaiting,       \* bound: events that wait while the host goes on typing
  Modes,            \* the mouse modes used: a set of values of relative_mouse
  MaxMove,          \* bound: a move of the mouse, and the motion not read yet
  Reports,          \* what a relative report can express is in -Reports .. Reports - 1
  Booting           \* MacOS may not have started yet

ASSUME ADBAssumption ==
  /\ KEY_BUFFER_SIZE \in Nat \ {0} /\ MaxWaiting \in Nat
  /\ Modes \subseteq BOOLEAN /\ Modes # {}
  /\ MaxMove \in Nat /\ Reports \in Nat \ {0}
  /\ Booting \in BOOLEAN

VARIABLES
  mouse,           \* mouse_x, mouse_y
  mouse_button,
  relative_mouse,
  key_buffer, key_read_ptr, key_write_ptr,
  old_mouse, old_mouse_button,  \* reported last; MacOS knows the same
  flag,            \* INTFLAG_ADB
  input,           \* where the input thread is
  irq,             \* where ADBInterrupt() is
  mx, mb,          \* its copies of the mouse state
  started,         \* MacOS has started, and has set up its ADB globals
  waiting,         \* history: the keyboard events not reported yet
  unreported       \* history: relative motion made and not reported (% Span)

vars == <<mouse, mouse_button, relative_mouse, key_buffer, key_read_ptr, key_write_ptr,
          old_mouse, old_mouse_button, flag, input, irq, mx, mb, started, waiting,
          unreported>>

mouseVars == <<mouse, mouse_button, relative_mouse>>
keyVars == <<key_buffer, key_read_ptr, key_write_ptr, waiting>>
irqVars == <<old_mouse, old_mouse_button, irq, mx, mb, started>>

Slots == 0 .. KEY_BUFFER_SIZE - 1
Moves == -MaxMove .. MaxMove
Span == 2 * Reports

Init ==
  /\ mouse = 0 /\ mouse_button = FALSE
  /\ relative_mouse \in Modes
  /\ key_buffer = [i \in Slots |-> CHOOSE k \in Keys : TRUE]
  /\ key_read_ptr = 0 /\ key_write_ptr = 0
  /\ old_mouse = 0 /\ old_mouse_button = FALSE
  /\ flag = FALSE /\ input = "idle" /\ irq = "no"
  /\ mx = 0 /\ mb = FALSE
  /\ started \in (IF Booting THEN BOOLEAN ELSE {TRUE})
  /\ waiting = <<>> /\ unreported = 0

-----------------------------------------------------------------------------
(* The input thread.                                                       *)

\* ADBMouseMoved(), under mouse_lock.
ADBMouseMoved(x) ==
  /\ input = "idle"
  /\ IF relative_mouse
     THEN mouse + x \in Moves /\ mouse' = mouse + x
          /\ unreported' = (unreported + x) % Span
     ELSE x \geq 0 /\ mouse' = x /\ UNCHANGED unreported
  /\ input' = "raise"
  /\ UNCHANGED <<mouse_button, relative_mouse, keyVars, irqVars, flag>>

\* ADBMouseDown() and ADBMouseUp()
ADBMouseButton ==
  /\ input = "idle"
  /\ mouse_button' = ~mouse_button
  /\ input' = "raise"
  /\ UNCHANGED <<mouse, relative_mouse, unreported, keyVars, irqVars, flag>>

\* ADBSetRelMouseMode(): two writes without mouse_lock.
ADBSetRelMouseMode ==
  /\ input = "idle" /\ input' = "mode"
  /\ \E m \in Modes : m # relative_mouse /\ relative_mouse' = m
  /\ UNCHANGED <<mouse, mouse_button, unreported, keyVars, irqVars, flag>>

ResetMouse ==
  /\ input = "mode" /\ input' = "idle"
  /\ mouse' = 0
  /\ UNCHANGED <<mouse_button, relative_mouse, unreported, keyVars, irqVars, flag>>

\* ADBKeyDown() and ADBKeyUp(): the event is stored, and then the pointer moved.
ADBKey(k) ==
  /\ input = "idle" /\ Len(waiting) < MaxWaiting
  /\ key_buffer' = [key_buffer EXCEPT ![key_write_ptr] = k]
  /\ input' = "stored"
  /\ UNCHANGED <<mouseVars, key_read_ptr, key_write_ptr, waiting, irqVars, flag,
                 unreported>>

\* A mutated form: the pointer passes the end of the ring.
MovePtr_PastEnd ==
  /\ input = "stored"
  /\ key_write_ptr' = (key_write_ptr + 1) % (KEY_BUFFER_SIZE + 1)
  /\ waiting' = Append(waiting, key_buffer[key_write_ptr])
  /\ input' = "raise"
  /\ UNCHANGED <<mouseVars, key_buffer, key_read_ptr, irqVars, flag, unreported>>

MovePtr ==
  /\ input = "stored"
  /\ key_write_ptr' = (key_write_ptr + 1) % KEY_BUFFER_SIZE
  /\ waiting' = Append(waiting, key_buffer[key_write_ptr])
  /\ input' = "raise"
  /\ UNCHANGED <<mouseVars, key_buffer, key_read_ptr, irqVars, flag, unreported>>

\* SetInterruptFlag(INTFLAG_ADB); TriggerInterrupt();
Raise ==
  /\ input = "raise"
  /\ flag' = TRUE
  /\ input' = "idle"
  /\ UNCHANGED <<mouseVars, keyVars, irqVars, unreported>>

-----------------------------------------------------------------------------
(* The CPU thread.                                                         *)

hostVars == <<mouse_button, relative_mouse, input>>

HasMacStarted ==
  /\ ~started /\ started' = TRUE
  /\ UNCHANGED <<mouseVars, keyVars, old_mouse, old_mouse_button, flag, input, irq, mx,
                 mb, unreported>>

\* The flag is cleared; before MacOS has started nothing else is done, and before
\* its ADB globals are there ADBInterrupt() returns at once.
Interrupt ==
  /\ flag /\ irq = "no"
  /\ flag' = FALSE
  /\ irq' = IF started THEN "mouse" ELSE "no"
  /\ UNCHANGED <<mouse, hostVars, keyVars, old_mouse, old_mouse_button, mx, mb, started,
                 unreported>>

\* A mutated form: the motion taken is not forgotten.
GetMouse_Keeps ==
  /\ irq = "mouse" /\ irq' = "report"
  /\ mx' = mouse /\ mb' = mouse_button
  /\ UNCHANGED <<mouse, hostVars, keyVars, old_mouse, old_mouse_button, flag, started,
                 unreported>>

\* The mouse state is copied under mouse_lock.
GetMouse ==
  /\ irq = "mouse" /\ irq' = "report"
  /\ mx' = mouse /\ mb' = mouse_button
  /\ mouse' = IF relative_mouse THEN 0 ELSE mouse
  /\ UNCHANGED <<hostVars, keyVars, old_mouse, old_mouse_button, flag, started,
                 unreported>>

\* A report carries the low bits of the motion, a signed number.
Report(m) == ((m + Reports) % Span) - Reports

\* Motion and buttons are reported if they have changed; relative_mouse is read
\* once more.
ReportMouse ==
  /\ irq = "report" /\ irq' = "keys"
  /\ IF relative_mouse
     THEN /\ unreported' = (unreported - Report(mx)) % Span
          /\ UNCHANGED old_mouse
     ELSE /\ old_mouse' = mx
          /\ UNCHANGED unreported
  /\ old_mouse_button' = mb
  /\ mx' = 0 /\ mb' = FALSE
  /\ UNCHANGED <<mouse, hostVars, keyVars, flag, started>>

\* A mutated form: the ring is emptied when one event is read.
ReportKey_Empties ==
  /\ irq = "keys" /\ key_read_ptr # key_write_ptr
  /\ key_read_ptr' = key_write_ptr
  /\ waiting' = Tail(waiting)
  /\ UNCHANGED <<mouseVars, input, key_buffer, key_write_ptr, irqVars, flag, unreported>>

\* A keyboard event is read and reported.
ReportKey ==
  /\ irq = "keys" /\ key_read_ptr # key_write_ptr
  /\ key_read_ptr' = (key_read_ptr + 1) % KEY_BUFFER_SIZE
  /\ waiting' = Tail(waiting)
  /\ UNCHANGED <<mouseVars, input, key_buffer, key_write_ptr, irqVars, flag, unreported>>

\* A mutated form: the flag is cleared when the events have been reported.
EndInterrupt_Clears ==
  /\ irq = "keys" /\ key_read_ptr = key_write_ptr
  /\ irq' = "no" /\ flag' = FALSE
  /\ UNCHANGED <<mouseVars, input, keyVars, old_mouse, old_mouse_button, mx, mb, started,
                 unreported>>

EndInterrupt ==
  /\ irq = "keys" /\ key_read_ptr = key_write_ptr
  /\ irq' = "no"
  /\ UNCHANGED <<mouseVars, input, keyVars, old_mouse, old_mouse_button, flag, mx, mb,
                 started, unreported>>

ADBInterrupt == GetMouse \/ ReportMouse \/ ReportKey \/ EndInterrupt

-----------------------------------------------------------------------------
Next ==
  \/ \E x \in Moves : ADBMouseMoved(x)
  \/ \E k \in Keys : ADBKey(k)
  \/ ADBMouseButton \/ ADBSetRelMouseMode \/ ResetMouse \/ MovePtr \/ Raise
  \/ HasMacStarted \/ Interrupt \/ ADBInterrupt

Spec == Init /\ [][Next]_vars

\* Both threads go on, and an interrupt is taken when 68k code runs.  The host
\* stops typing at last: the loop over the ring goes on while it types.
Fairness ==
  /\ WF_vars(MovePtr \/ Raise \/ ResetMouse)
  /\ WF_vars(Interrupt) /\ WF_vars(ADBInterrupt)
  /\ <>[][~MovePtr]_vars

FairSpec == Spec /\ Fairness

-----------------------------------------------------------------------------
(* Properties.                                                             *)

\* The type of every variable.
TypeOK ==
  /\ mouse \in Moves /\ mx \in Moves /\ old_mouse \in Moves
  /\ mouse_button \in BOOLEAN /\ old_mouse_button \in BOOLEAN /\ mb \in BOOLEAN
  /\ relative_mouse \in Modes
  /\ key_buffer \in [Slots -> Keys] /\ key_read_ptr \in Slots /\ key_write_ptr \in Slots
  /\ flag \in BOOLEAN /\ started \in BOOLEAN
  /\ input \in {"idle", "stored", "raise", "mode"}
  /\ irq \in {"no", "mouse", "report", "keys"}
  /\ waiting \in Seq(Keys) /\ unreported \in 0 .. Span - 1

\* The events in the ring.
Buffered ==
  [i \in 1 .. ((key_write_ptr - key_read_ptr) % KEY_BUFFER_SIZE) |->
     key_buffer[(key_read_ptr + i - 1) % KEY_BUFFER_SIZE]]

\* "Process accumulated keyboard events": the ring holds the events that have
\* not been reported, all of them and in their order.
KeysInOrder == Buffered = waiting

\* Motion made and not reported is in the mouse state or in the interrupt's copy.
Conserved == (unreported - mouse - IF irq = "report" THEN mx ELSE 0) % Span = 0

\* While the mouse is in relative mode no motion is lost or reported twice, but
\* for what a report cannot express: multiples of Span, when the mouse moves
\* further than that between two interrupts.  (A change of the mode may confuse a
\* report: it is not one step, and ADBInterrupt() reads relative_mouse twice.)
MotionConserved == []relative_mouse => []Conserved

\* MacOS comes to know the state of the button and, in absolute mode, the position
\* of the mouse unless it moves again first, also if they change while
\* ADBInterrupt() runs.  (MacOS has started: before, nothing is reported.)
MouseReported ==
  /\ []started => (mouse_button # old_mouse_button ~> mouse_button = old_mouse_button)
  /\ [](started /\ ~relative_mouse) =>
       \A x \in 0 .. MaxMove : mouse = x ~> old_mouse = x \/ mouse # x

\* Every keyboard event is read in the end.
KeysReported == []started => (waiting # <<>> ~> waiting = <<>>)

\* Whatever the user does is reported, also if it happens while ADBInterrupt() is
\* at work on something else.
EventsReported == MouseReported /\ KeysReported
=============================================================================
