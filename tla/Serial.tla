------------------------------- MODULE Serial -------------------------------
(***************************************************************************)
(* A serial port: the driver calls of serial.cpp and the XSERDPort of      *)
(* serial_unix.cpp.  The CPU thread runs the 68k program, the driver calls *)
(* it makes and, whenever it runs 68k code, SerialInterrupt().  A port has *)
(* an input and an output thread, which wait for requests on a semaphore.  *)
(* Data, baud rates and the other line settings are left out.              *)
(***************************************************************************)
EXTENDS Naturals

CONSTANT Calls  \* what the program and the host do: some of AllCalls

AllCalls == {"KillIO", "Close", "Exit", "NoMemory", "NoThread"}

ASSUME CallsAssumption == Calls \subseteq AllCalls

VARIABLES
  is_open,    \* the port is open
  pending,    \* read_pending, write_pending
  done,       \* read_done, write_done
  dt,         \* the deferred task structures are allocated
  io_killed,  \* KillIO is in progress
  quitting,   \* close() wants the threads to end
  cancel,     \* input_thread_cancel, output_thread_cancel
  signal,     \* the semaphores input_signal and output_signal
  thread,     \* where each thread is
  flag,       \* INTFLAG_SERIAL
  cpu,        \* what the CPU thread does
  request,    \* history: the last request: none, issued, done or aborted
  performed   \* history: the I/O of the last request has been performed

vars == <<is_open, pending, done, dt, io_killed, quitting, cancel, signal,
          thread, flag, cpu, request, performed>>

Sides == {"in", "out"}
All(v) == [s \in Sides |-> v]

Init ==
  /\ is_open = FALSE /\ dt = FALSE
  /\ pending = All(FALSE) /\ done = All(FALSE)
  /\ io_killed = FALSE /\ quitting = FALSE /\ cancel = All(FALSE)
  /\ signal = All(0)
  /\ thread = All("none")
  /\ flag = FALSE
  /\ cpu = "run"
  /\ request = All("none") /\ performed = All(FALSE)

-----------------------------------------------------------------------------
(* Driver calls.                                                           *)

ioVars == <<dt, flag, performed>>

\* SerialOpen(): XSERDPort::open() starts the threads, then NewPtr is called.
SerialOpen ==
  /\ cpu = "run" /\ ~is_open
  /\ pending' = All(FALSE) /\ done' = All(FALSE)
  /\ io_killed' = FALSE /\ quitting' = FALSE /\ cancel' = All(FALSE)
  /\ signal' = All(0)
  /\ thread' = All("top")
  /\ cpu' = "newptr"
  /\ request' = All("none")
  /\ UNCHANGED <<is_open, ioVars>>

\* open_error: the host port could not be opened, or a thread not be created;
\* the other one is cancelled.
open_error ==
  /\ "NoThread" \in Calls
  /\ cpu = "run" /\ ~is_open
  /\ pending' = All(FALSE) /\ done' = All(FALSE)
  /\ io_killed' = FALSE /\ quitting' = FALSE
  /\ signal' = All(0)
  /\ \/ thread' = All("none") /\ cancel' = All(FALSE) /\ cpu' = "run"
     \/ \E s \in Sides :
          /\ thread' = [All("none") EXCEPT ![s] = "top"]
          /\ cancel' = [All(FALSE) EXCEPT ![s] = TRUE]
          /\ cpu' = "error"
  /\ request' = All("none")
  /\ UNCHANGED <<is_open, ioVars>>

EndError ==
  /\ cpu = "error"
  /\ \E s \in Sides : thread[s] = "ended"
  /\ thread' = All("none")
  /\ cpu' = "run"
  /\ UNCHANGED <<is_open, pending, done, io_killed, quitting, cancel, signal,
                 request, ioVars>>

\* The deferred task structures are there, or the port is closed again.
EndOpen ==
  /\ cpu = "newptr"
  /\ \/ dt' = TRUE /\ is_open' = TRUE /\ cpu' = "run"
     \/ "NoMemory" \in Calls /\ cpu' = "close" /\ UNCHANGED <<dt, is_open>>
  /\ UNCHANGED <<pending, done, io_killed, quitting, cancel, signal, thread,
                 flag, request, performed>>

\* prime_in(), prime_out(): the request is passed to the thread.
prime(s) ==
  /\ pending' = [pending EXCEPT ![s] = TRUE]
  /\ done' = [done EXCEPT ![s] = FALSE]
  /\ signal' = [signal EXCEPT ![s] = @ + 1]

\* SerialPrime(): the Device Manager has one request at a time under way.
SerialPrime(s) ==
  /\ cpu = "run" /\ is_open
  /\ ~pending[s] /\ request[s] # "issued"
  /\ prime(s)
  /\ request' = [request EXCEPT ![s] = "issued"]
  /\ performed' = [performed EXCEPT ![s] = FALSE]
  /\ UNCHANGED <<is_open, dt, io_killed, quitting, cancel, thread, flag, cpu>>

KillIO ==
  /\ "KillIO" \in Calls
  /\ cpu = "run" /\ is_open
  /\ io_killed' = TRUE
  /\ cpu' = "kill"
  /\ UNCHANGED <<is_open, pending, done, quitting, cancel, signal, thread,
                 request, ioVars>>

\* while (read_pending || write_pending) usleep(10000);
EndKillIO ==
  /\ cpu = "kill"
  /\ pending = All(FALSE)
  /\ io_killed' = FALSE
  /\ cpu' = "run"
  /\ UNCHANGED <<is_open, pending, done, quitting, cancel, signal, thread,
                 request, ioVars>>

SerialClose ==
  /\ "Close" \in Calls
  /\ cpu = "run" /\ is_open
  /\ cpu' = "close"
  /\ UNCHANGED <<is_open, pending, done, io_killed, quitting, cancel, signal,
                 thread, request, ioVars>>

\* XSERDPort::close(): ends and joins the input thread, then the output one.
Quit(s) ==
  /\ quitting' = TRUE
  /\ signal' = [signal EXCEPT ![s] = @ + 1]
  /\ UNCHANGED <<is_open, pending, done, io_killed, cancel, request, ioVars>>

QuitInput ==
  /\ cpu = "close"
  /\ Quit("in")
  /\ cpu' = "joinin"
  /\ UNCHANGED thread

\* A mutated form: the output thread is forgotten.
JoinInput_Only ==
  /\ cpu = "joinin" /\ thread["in"] = "ended"
  /\ thread' = [thread EXCEPT !["in"] = "none"]
  /\ cpu' = IF is_open THEN "dispose" ELSE "run"
  /\ UNCHANGED <<is_open, pending, done, io_killed, quitting, cancel, signal,
                 request, ioVars>>

JoinInput ==
  /\ cpu = "joinin" /\ thread["in"] = "ended"
  /\ thread' = [thread EXCEPT !["in"] = "none"]
  /\ Quit("out")
  /\ cpu' = "joinout"

JoinOutput ==
  /\ cpu = "joinout" /\ thread["out"] = "ended"
  /\ thread' = [thread EXCEPT !["out"] = "none"]
  /\ cpu' = IF is_open THEN "dispose" ELSE "run"
  /\ UNCHANGED <<is_open, pending, done, io_killed, quitting, cancel, signal,
                 request, ioVars>>

\* Execute68kTrap() of DisposePtr, in which interrupts are taken as in any
\* 68k code; then SerialClose() marks the port as closed.
DisposePtr ==
  /\ cpu = "dispose"
  /\ dt' = FALSE
  /\ cpu' = "disposed"
  /\ UNCHANGED <<is_open, pending, done, io_killed, quitting, cancel, signal,
                 thread, flag, request, performed>>

EndClose ==
  /\ cpu = "disposed"
  /\ is_open' = FALSE
  /\ cpu' = "run"
  /\ UNCHANGED <<pending, done, io_killed, quitting, cancel, signal, thread,
                 request, ioVars>>

\* SerialExit(), the destructor: cancels and joins the threads in turn.
Cancel(s) ==
  /\ cancel' = IF thread[s] = "none" THEN cancel ELSE [cancel EXCEPT ![s] = TRUE]
  /\ UNCHANGED <<is_open, pending, done, io_killed, quitting, signal, request, ioVars>>

SerialExit ==
  /\ "Exit" \in Calls
  /\ cpu = "run"
  /\ Cancel("in")
  /\ cpu' = "exitin"
  /\ UNCHANGED thread

ExitInput ==
  /\ cpu = "exitin" /\ thread["in"] \in {"none", "ended"}
  /\ thread' = [thread EXCEPT !["in"] = "none"]
  /\ Cancel("out")
  /\ cpu' = "exitout"

ExitOutput ==
  /\ cpu = "exitout" /\ thread["out"] \in {"none", "ended"}
  /\ thread' = [thread EXCEPT !["out"] = "none"]
  /\ cpu' = "exited"
  /\ UNCHANGED <<is_open, pending, done, io_killed, quitting, cancel, signal,
                 request, ioVars>>

-----------------------------------------------------------------------------
(* SerialInterrupt().                                                      *)

\* The CPU thread takes interrupts whenever it runs 68k code.
Running68k == cpu \in {"run", "newptr", "dispose", "disposed"}

\* Mutated forms: the done flags are not tested; an "else if" in serial_irq().
Activated_NotDone == {s \in Sides : is_open /\ pending[s]}
Activated_ElseIf ==
  {s \in Sides : /\ is_open /\ pending[s] /\ done[s]
                 /\ s = "out" => ~(pending["in"] /\ done["in"])}

Activated == {s \in Sides : is_open /\ pending[s] /\ done[s]}

\* The deferred tasks activated call IODone.
SerialInterrupt ==
  /\ flag /\ Running68k
  /\ flag' = FALSE
  /\ pending' = [s \in Sides |-> pending[s] /\ s \notin Activated]
  /\ done' = [s \in Sides |-> done[s] /\ s \notin Activated]
  /\ request' = [s \in Sides |-> IF s \in Activated THEN "done" ELSE request[s]]
  /\ UNCHANGED <<is_open, dt, io_killed, quitting, cancel, signal, thread, cpu,
                 performed>>

-----------------------------------------------------------------------------
(* input_func() and output_func().                                         *)

callVars == <<is_open, dt, io_killed, quitting, cancel, cpu>>

Step(s, from, to) ==
  /\ thread[s] = from
  /\ thread' = [thread EXCEPT ![s] = to]

\* while (!input_thread_cancel)
Top(s) ==
  /\ Step(s, "top", IF cancel[s] THEN "ended" ELSE "wait")
  /\ UNCHANGED <<callVars, pending, done, signal, flag, request, performed>>

\* A mutated form: the request is polled for and never taken.
Wait_Polls(s) ==
  /\ signal[s] > 0
  /\ Step(s, "wait", IF quitting THEN "ended" ELSE "io")
  /\ UNCHANGED <<callVars, pending, done, signal, flag, request, performed>>

\* sem_wait(): a thread that is to quit leaves its request as it is.
Wait(s) ==
  /\ signal[s] > 0
  /\ signal' = [signal EXCEPT ![s] = @ - 1]
  /\ Step(s, "wait", IF quitting THEN "ended" ELSE "io")
  /\ UNCHANGED <<callVars, pending, done, flag, request, performed>>

\* read() or write() returns.
Perform(s) ==
  /\ Step(s, "io", "test")
  /\ performed' = [performed EXCEPT ![s] = TRUE]
  /\ UNCHANGED <<callVars, pending, done, signal, flag, request>>

\* A mutated form: the aborted request stays pending.
Aborted_Pending(s) ==
  /\ io_killed
  /\ Step(s, "test", "top")
  /\ done' = [done EXCEPT ![s] = FALSE]
  /\ request' = [request EXCEPT ![s] = "aborted"]
  /\ UNCHANGED <<callVars, pending, signal, flag, performed>>

\* if (s->io_killed)
Aborted(s) ==
  /\ io_killed
  /\ Step(s, "test", "top")
  /\ pending' = [pending EXCEPT ![s] = FALSE]
  /\ done' = [done EXCEPT ![s] = FALSE]
  /\ request' = [request EXCEPT ![s] = "aborted"]
  /\ UNCHANGED <<callVars, signal, flag, performed>>

NotKilled(s) ==
  /\ ~io_killed
  /\ Step(s, "test", "done")
  /\ UNCHANGED <<callVars, pending, done, signal, flag, request, performed>>

Done(s) ==
  /\ Step(s, "done", "raise")
  /\ done' = [done EXCEPT ![s] = TRUE]
  /\ UNCHANGED <<callVars, pending, signal, flag, request, performed>>

\* SetInterruptFlag(INTFLAG_SERIAL); TriggerInterrupt();
Raise(s) ==
  /\ Step(s, "raise", "top")
  /\ flag' = TRUE
  /\ UNCHANGED <<callVars, pending, done, signal, request, performed>>

Thread(s) ==
  Top(s) \/ Wait(s) \/ Perform(s) \/ Aborted(s) \/ NotKilled(s) \/ Done(s) \/ Raise(s)

-----------------------------------------------------------------------------
\* What the driver does once it has been called.
Driver ==
  \/ EndError \/ EndOpen \/ EndKillIO \/ QuitInput \/ JoinInput \/ JoinOutput
  \/ DisposePtr \/ EndClose \/ ExitInput \/ ExitOutput

Next ==
  \/ SerialOpen \/ open_error \/ KillIO \/ SerialClose \/ SerialExit
  \/ \E s \in Sides : SerialPrime(s) \/ Thread(s)
  \/ Driver \/ SerialInterrupt

Spec == Init /\ [][Next]_vars

\* The threads run, their reads and writes return, and an interrupt is taken
\* when 68k code runs (Interrupts.tla).
Fairness ==
  /\ WF_vars(Driver) /\ SF_vars(SerialInterrupt)
  /\ \A s \in Sides : WF_vars(Thread(s))

FairSpec == Spec /\ Fairness

-----------------------------------------------------------------------------
(* Properties.                                                             *)

ThreadPlaces == {"none", "top", "wait", "io", "test", "done", "raise", "ended"}

\* The type of every variable; a semaphore counts at most one request and the
\* signal to quit.
TypeOK ==
  /\ is_open \in BOOLEAN /\ dt \in BOOLEAN /\ io_killed \in BOOLEAN
  /\ quitting \in BOOLEAN /\ flag \in BOOLEAN
  /\ pending \in [Sides -> BOOLEAN] /\ done \in [Sides -> BOOLEAN]
  /\ cancel \in [Sides -> BOOLEAN] /\ performed \in [Sides -> BOOLEAN]
  /\ signal \in [Sides -> 0 .. 2]
  /\ thread \in [Sides -> ThreadPlaces]
  /\ cpu \in {"run", "newptr", "error", "kill", "close", "joinin", "joinout", "dispose",
              "disposed", "exitin", "exitout", "exited"}
  /\ request \in [Sides -> {"none", "issued", "done", "aborted"}]

\* A request is completed only after its own read() or write(), though the
\* interrupt of an earlier request, or of the other side, may come at any time.
DoneAfterIO == \A s \in Sides : request[s] = "done" => performed[s]

\* While the port is open and not being closed, a request is under way exactly
\* as long as the driver says so: KillIO, the threads and the interrupt never
\* leave a request that nobody will complete.
NoneForgotten ==
  is_open /\ ~quitting => \A s \in Sides : pending[s] <=> request[s] = "issued"

\* When the program runs and the port is closed, no thread is left that could
\* use the port's file or the program's buffers.
NoThreadLeft == cpu = "run" /\ ~is_open => thread = All("none")

\* A request is completed in the end if the port is not closed and KillIO and
\* the end of the emulator do not get in between.
EventuallyCompleted ==
  \A s \in Sides :
    request[s] = "issued" ~>
      request[s] # "issued" \/ quitting \/ cpu \in {"kill", "exitin", "exitout", "exited"}

\* Closing the port returns, whatever the threads are doing, once the reads and
\* writes they are in return.
CloseReturns == cpu = "close" ~> cpu = "run"

\* What the program has asked the port for comes to an end.
CallsEnd == EventuallyCompleted /\ CloseReturns
=============================================================================
