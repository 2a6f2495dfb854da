------------------------------- MODULE Audio -------------------------------
(***************************************************************************)
(* The sound output component of audio.cpp and its streaming thread in     *)
(* SDL/audio_sdl.cpp.  The CPU thread runs the component's functions and,  *)
(* whenever it runs 68k code, AudioInterrupt(), which hands one block of   *)
(* sound to the thread.  Volumes, formats and the sound itself are left    *)
(* out.                                                                    *)
(***************************************************************************)
EXTENDS Naturals

CONSTANTS
  Calls,       \* what may happen: some of AllCalls
  MaxOpen,     \* bound: open/close nesting count
  MaxSources   \* bound: sources

AllCalls == {"SetInfo", "Reset", "Exit"}

ASSUME AudioAssumption ==
  /\ Calls \subseteq AllCalls
  /\ MaxOpen \in Nat \ {0} /\ MaxSources \in Nat \ {0}

VARIABLES
  audio_data,   \* the global data area is allocated
  open_count,   \* open/close nesting count
  instances,    \* history: the component instances that MacOS has open
  mixer,        \* AudioStatus.mixer is set
  num_sources,  \* AudioStatus.num_sources
  audio_open,   \* the SDL device is open
  enabled,      \* SDL wants the thread to go on
  flag,         \* INTFLAG_AUDIO
  sem,          \* audio_irq_done_sem
  stream,       \* where the streaming thread is
  fetched,      \* the stream info is of the interrupt that was triggered last
  irq,          \* AudioInterrupt() is in progress
  cpu           \* what else the CPU thread does

vars == <<audio_data, open_count, instances, mixer, num_sources, audio_open,
          enabled, flag, sem, stream, fetched, irq, cpu>>

streamVars == <<flag, sem, stream, fetched>>
deviceVars == <<audio_open, enabled>>

\* AudioInit(): the device may not be there, and there is no sound then.
Init ==
  /\ audio_data = FALSE /\ open_count = 0 /\ instances = 0
  /\ mixer = FALSE /\ num_sources = 0
  /\ audio_open \in BOOLEAN /\ enabled = audio_open
  /\ stream = IF audio_open THEN "top" ELSE "none"
  /\ flag = FALSE /\ sem = 0 /\ fetched = FALSE
  /\ irq = FALSE /\ cpu = "run"

-----------------------------------------------------------------------------
(* AudioDispatch().  Memory Manager and mixer calls run 68k code, in which *)
(* interrupts are taken.                                                   *)

Running == cpu = "run" /\ ~irq

\* kComponentOpenSelect
Open ==
  /\ Running /\ open_count < MaxOpen
  /\ IF audio_data
     THEN open_count' = open_count + 1 /\ instances' = instances + 1 /\ UNCHANGED cpu
     ELSE cpu' = "newptr" /\ UNCHANGED <<open_count, instances>>
  /\ UNCHANGED <<audio_data, mixer, num_sources, irq, streamVars, deviceVars>>

\* A mutated form: the instance that allocates the data area is not counted.
EndOpen_NotCounted ==
  /\ cpu = "newptr" /\ ~irq
  /\ \/ audio_data' = TRUE /\ instances' = instances + 1
     \/ UNCHANGED <<audio_data, instances>>
  /\ cpu' = "run"
  /\ UNCHANGED <<open_count, mixer, num_sources, irq, streamVars, deviceVars>>

\* The data area is there, or memFullErr is returned.
EndOpen ==
  /\ cpu = "newptr" /\ ~irq
  /\ \/ /\ audio_data' = TRUE
        /\ open_count' = open_count + 1 /\ instances' = instances + 1
     \/ UNCHANGED <<audio_data, open_count, instances>>
  /\ cpu' = "run"
  /\ UNCHANGED <<mixer, num_sources, irq, streamVars, deviceVars>>

\* A mutated form: the data area is freed although there is a mixer.
Close_Mixer ==
  /\ Running /\ instances > 0
  /\ instances' = instances - 1 /\ open_count' = open_count - 1
  /\ cpu' = IF open_count = 1 /\ audio_data THEN "dispose" ELSE "run"
  /\ num_sources' = IF open_count = 1 /\ ~audio_data THEN 0 ELSE num_sources
  /\ UNCHANGED <<audio_data, mixer, irq, streamVars, deviceVars>>

\* kComponentCloseSelect: when the last instance closes the mixer is closed; if
\* there is none, the data area is freed and the sources are forgotten.
Close ==
  /\ Running /\ instances > 0
  /\ instances' = instances - 1 /\ open_count' = open_count - 1
  /\ cpu' = IF open_count = 1 /\ audio_data
            THEN IF mixer THEN "closemixer" ELSE "dispose"
            ELSE "run"
  /\ num_sources' = IF open_count = 1 /\ ~audio_data THEN 0 ELSE num_sources
  /\ UNCHANGED <<audio_data, mixer, irq, streamVars, deviceVars>>

EndCloseMixer ==
  /\ cpu = "closemixer" /\ ~irq
  /\ mixer' = FALSE
  /\ cpu' = "run"
  /\ UNCHANGED <<audio_data, open_count, instances, num_sources, irq, streamVars, deviceVars>>

EndDispose ==
  /\ cpu = "dispose" /\ ~irq
  /\ audio_data' = FALSE /\ num_sources' = 0
  /\ cpu' = "run"
  /\ UNCHANGED <<open_count, instances, mixer, irq, streamVars, deviceVars>>

\* kSoundComponentInitOutputDeviceSelect
InitOutputDevice ==
  /\ Running /\ instances > 0
  /\ audio_open /\ ~mixer
  /\ cpu' = "openmixer"
  /\ UNCHANGED <<audio_data, open_count, instances, mixer, num_sources, irq,
                 streamVars, deviceVars>>

EndOpenMixer ==
  /\ cpu = "openmixer" /\ ~irq
  /\ mixer' \in BOOLEAN
  /\ cpu' = "run"
  /\ UNCHANGED <<audio_data, open_count, instances, num_sources, irq, streamVars, deviceVars>>

\* Sources are added and removed by the Sound Manager, also from the routines
\* it calls when a block has been played, within AudioInterrupt().
AddSource ==
  /\ cpu = "run" /\ instances > 0 /\ mixer /\ num_sources < MaxSources
  /\ num_sources' = num_sources + 1
  /\ UNCHANGED <<audio_data, open_count, instances, mixer, irq, cpu, streamVars, deviceVars>>

RemoveSource ==
  /\ cpu = "run" /\ instances > 0 /\ mixer /\ num_sources > 0
  /\ num_sources' = num_sources - 1
  /\ UNCHANGED <<audio_data, open_count, instances, mixer, irq, cpu, streamVars, deviceVars>>

\* AudioSetInfo() of a new format; SDL_CloseAudio() waits for the thread.
CloseAudio ==
  /\ enabled' = FALSE
  /\ UNCHANGED <<audio_data, open_count, instances, mixer, num_sources, audio_open, irq,
                 streamVars>>

AudioSetInfo ==
  /\ "SetInfo" \in Calls
  /\ Running /\ instances > 0 /\ num_sources = 0
  /\ CloseAudio
  /\ cpu' = "setinfo"

\* The device is opened again, or cannot be.
EndSetInfo ==
  /\ cpu = "setinfo" /\ stream \in {"none", "ended"}
  /\ audio_open' \in BOOLEAN /\ enabled' = audio_open'
  /\ stream' = IF audio_open' THEN "top" ELSE "none"
  /\ cpu' = "run"
  /\ UNCHANGED <<audio_data, open_count, instances, mixer, num_sources, flag, sem,
                 fetched, irq>>

\* MacOS starts again and has forgotten what it had open.
AudioReset ==
  /\ "Reset" \in Calls
  /\ Running
  /\ audio_data' = FALSE /\ instances' = 0
  /\ UNCHANGED <<open_count, mixer, num_sources, irq, cpu, streamVars, deviceVars>>

AudioExit ==
  /\ "Exit" \in Calls
  /\ Running
  /\ CloseAudio
  /\ cpu' = "exit"

EndExit ==
  /\ cpu = "exit" /\ stream \in {"none", "ended"}
  /\ stream' = "none" /\ audio_open' = FALSE
  /\ cpu' = "exited"
  /\ UNCHANGED <<audio_data, open_count, instances, mixer, num_sources, enabled, flag,
                 sem, fetched, irq>>

-----------------------------------------------------------------------------
(* AudioInterrupt().                                                       *)

callVars == <<audio_data, open_count, instances, mixer, cpu, deviceVars>>

Running68k == cpu \in {"run", "newptr", "closemixer", "dispose", "openmixer"}

AudioInterrupt ==
  /\ flag /\ Running68k
  /\ flag' = FALSE
  /\ irq' = TRUE
  /\ UNCHANGED <<callVars, num_sources, sem, stream, fetched>>

\* Mutated forms: the stream info is kept when there is no mixer; the thread is
\* signalled only when there is one.
EndAudioInterrupt_NoMixer ==
  /\ irq /\ irq' = FALSE
  /\ fetched' = (fetched \/ mixer)
  /\ sem' = sem + 1
  /\ UNCHANGED <<callVars, num_sources, flag, stream>>

EndAudioInterrupt_NoSignal ==
  /\ irq /\ irq' = FALSE
  /\ fetched' = TRUE
  /\ sem' = IF mixer THEN sem + 1 ELSE sem
  /\ UNCHANGED <<callVars, num_sources, flag, stream>>

\* The mixer has returned the next block, or there is no mixer and no block;
\* the thread is signalled.
EndAudioInterrupt ==
  /\ irq /\ irq' = FALSE
  /\ fetched' = TRUE
  /\ sem' = sem + 1
  /\ UNCHANGED <<callVars, num_sources, flag, stream>>

-----------------------------------------------------------------------------
(* SDL_RunAudio() and stream_func().                                       *)

\* while (audio->enabled); then stream_func() tests num_sources.
Loop ==
  /\ stream = "top"
  /\ stream' = IF enabled THEN "test" ELSE "ended"
  /\ UNCHANGED <<callVars, num_sources, flag, sem, fetched, irq>>

Test ==
  /\ stream = "test"
  /\ stream' = IF num_sources > 0 THEN "trigger" ELSE "top"
  /\ UNCHANGED <<callVars, num_sources, flag, sem, fetched, irq>>

\* A mutated form: the thread reads the block without waiting for it.
Trigger_NoWait ==
  /\ stream = "trigger"
  /\ flag' = TRUE
  /\ stream' = "copy"
  /\ fetched' = FALSE
  /\ UNCHANGED <<callVars, num_sources, sem, irq>>

\* SetInterruptFlag(INTFLAG_AUDIO); TriggerInterrupt();
Trigger ==
  /\ stream = "trigger"
  /\ flag' = TRUE
  /\ stream' = "wait"
  /\ fetched' = FALSE
  /\ UNCHANGED <<callVars, num_sources, sem, irq>>

SemWait ==
  /\ stream = "wait" /\ sem > 0
  /\ sem' = sem - 1
  /\ stream' = "copy"
  /\ UNCHANGED <<callVars, num_sources, flag, fetched, irq>>

Copy ==
  /\ stream = "copy"
  /\ stream' = "top"
  /\ UNCHANGED <<callVars, num_sources, flag, sem, fetched, irq>>

stream_func == Loop \/ Test \/ Trigger \/ SemWait \/ Copy

-----------------------------------------------------------------------------
\* What the component does once it has been called.
Component ==
  EndOpen \/ EndCloseMixer \/ EndDispose \/ EndOpenMixer \/ EndSetInfo \/ EndExit

Next ==
  \/ Open \/ Close \/ InitOutputDevice \/ AddSource \/ RemoveSource
  \/ AudioSetInfo \/ AudioReset \/ AudioExit
  \/ Component \/ AudioInterrupt \/ EndAudioInterrupt \/ stream_func

Spec == Init /\ [][Next]_vars

\* The threads run, and an interrupt is taken when 68k code runs.
Fairness ==
  /\ WF_vars(Component) /\ SF_vars(AudioInterrupt) /\ WF_vars(EndAudioInterrupt)
  /\ WF_vars(stream_func)

FairSpec == Spec /\ Fairness

-----------------------------------------------------------------------------
(* Properties.                                                             *)

\* The type of every variable; the semaphore counts one signal at most.
TypeOK ==
  /\ audio_data \in BOOLEAN /\ mixer \in BOOLEAN /\ audio_open \in BOOLEAN
  /\ enabled \in BOOLEAN /\ flag \in BOOLEAN /\ fetched \in BOOLEAN /\ irq \in BOOLEAN
  /\ open_count \in 0 .. MaxOpen /\ instances \in 0 .. MaxOpen
  /\ num_sources \in 0 .. MaxSources
  /\ sem \in 0 .. 1
  /\ stream \in {"none", "top", "test", "trigger", "wait", "copy", "ended"}
  /\ cpu \in {"run", "newptr", "closemixer", "dispose", "openmixer", "setinfo", "exit",
              "exited"}

\* One interrupt answers one request of the thread: while it waits, the request
\* is in exactly one of the flag, the interrupt and the semaphore, and at other
\* times in none; so a block is never handed out twice, and what the thread
\* copies is of the interrupt it waited for.
Handshake ==
  /\ stream = "wait" <=> flag \/ irq \/ sem = 1
  /\ ~(flag /\ irq) /\ ~(flag /\ sem = 1) /\ ~(irq /\ sem = 1)
  /\ sem = 1 \/ stream = "copy" => fetched

\* The interrupt calls the mixer by a routine in the data area, which is there
\* however often the component is opened and closed; but not once MacOS has
\* been reset with instances open, which open_count goes on counting.
DataAreaUsed ==
  [][AudioInterrupt /\ mixer /\ open_count = instances => audio_data]_vars

\* "the streaming thread triggers the INTFLAG_AUDIO interrupt which will cause
\* the MacOS thread to eventually call AudioInterrupt()".
EventuallyCalled == flag ~> irq

\* A thread that waits for a block gets one, or the notice that there is none,
\* if no format change and not the end of the emulator get in between.
EventuallySignalled ==
  stream = "wait" ~> stream = "copy" \/ cpu \in {"setinfo", "exit", "exited"}
=============================================================================
