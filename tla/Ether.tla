-------------------------------- MODULE Ether -------------------------------
(***************************************************************************)
(* Packet reception of the Ethernet driver: ether.cpp and the reception    *)
(* thread of Unix/ether_unix.cpp, for a network device that could be       *)
(* opened.  The CPU thread runs MacOS, which attaches protocol handlers,   *)
(* and EtherInterrupt(), which reads all packets that have arrived and     *)
(* calls their handlers.  Packets are told apart by their protocol only;   *)
(* sending and multicast addresses keep no state and are left out.         *)
(***************************************************************************)
EXTENDS Naturals, Sequences

CONSTANTS
  Protocols,  \* packet types
  Runt,       \* a packet of less than 14 bytes
  CanReset,   \* MacOS may be restarted
  MaxPackets  \* bound: packets in the device's queue

ASSUME EtherAssumption ==
  Runt \notin Protocols /\ CanReset \in BOOLEAN /\ MaxPackets \in Nat \ {0}

VARIABLES
  net_protocols,    \* the protocols that have a handler
  ether_data,       \* the driver's data: none, or of which life of MacOS
  ether_packet,     \* the cached packet buffer: likewise
  n_ether_packets,  \* packet buffers in use
  packet,           \* the buffer of the interrupt under way: likewise
  queue,            \* packets that wait in the device
  flag,             \* INTFLAG_ETHER
  int_ack,          \* the interrupt acknowledge semaphore
  thread,           \* where the reception thread is
  irq               \* where EtherInterrupt() is

vars == <<net_protocols, ether_data, ether_packet, n_ether_packets, packet, queue,
          flag, int_ack, thread, irq>>

\* A block of MacOS memory: "old" if MacOS was restarted since.
Blocks == {"none", "old", "new"}
Aged(b) == IF b = "new" THEN "old" ELSE b

Init ==
  /\ net_protocols = {}
  /\ ether_data = "none" /\ ether_packet = "none" /\ packet = "none"
  /\ n_ether_packets = 0
  /\ queue = <<>>
  /\ flag = FALSE /\ int_ack = 0
  /\ thread = "poll" /\ irq = "no"

-----------------------------------------------------------------------------
(* MacOS and the network.                                                  *)

threadVars == <<flag, int_ack, thread>>
bufferVars == <<ether_packet, n_ether_packets, packet>>

\* EtherOpen(); MacOS opens the driver once.  Nothing has changed if the allocation
\* fails, nor while it runs 68k code: an interrupt in it finds what one before it does.
EtherOpen ==
  /\ irq = "no" /\ ether_data # "new"
  /\ ether_data' = "new"
  /\ UNCHANGED <<net_protocols, bufferVars, queue, threadVars, irq>>

\* EtherControl(kENetAttachPH) and (kENetDetachPH), also from a handler; the
\* calls fail without effect if the protocol has a handler, or has none.
AttachPH(p) ==
  /\ irq \in {"no", "handler"} /\ ether_data = "new"
  /\ p \notin net_protocols
  /\ net_protocols' = net_protocols \cup {p}
  /\ UNCHANGED <<ether_data, bufferVars, queue, threadVars, irq>>

DetachPH(p) ==
  /\ irq \in {"no", "handler"} /\ ether_data = "new"
  /\ p \in net_protocols
  /\ net_protocols' = net_protocols \ {p}
  /\ UNCHANGED <<ether_data, bufferVars, queue, threadVars, irq>>

\* A mutated form: the handlers stay attached.
EtherReset_Handlers ==
  /\ CanReset /\ irq = "no"
  /\ ether_data' = Aged(ether_data) /\ ether_packet' = Aged(ether_packet)
  /\ UNCHANGED <<net_protocols, n_ether_packets, packet, queue, threadVars, irq>>

\* MacOS is restarted and its memory initialized again.
EtherReset ==
  /\ CanReset /\ irq = "no"
  /\ net_protocols' = {}
  /\ ether_data' = Aged(ether_data) /\ ether_packet' = Aged(ether_packet)
  /\ UNCHANGED <<n_ether_packets, packet, queue, threadVars, irq>>

Arrive(p) ==
  /\ Len(queue) < MaxPackets
  /\ queue' = Append(queue, p)
  /\ UNCHANGED <<net_protocols, ether_data, bufferVars, threadVars, irq>>

-----------------------------------------------------------------------------
(* EtherInterrupt().                                                       *)

macVars == <<net_protocols, ether_data>>

\* 68k code runs, and interrupts are taken, in MacOS, in the Memory Manager
\* and in a handler.
Running68k == irq \in {"no", "alloc", "handler"}

\* A mutated form: only a new buffer is counted.
EtherInterrupt_CountNew ==
  /\ flag /\ Running68k
  /\ flag' = FALSE
  /\ IF ether_packet # "none" /\ n_ether_packets = 0
     THEN packet' = ether_packet /\ irq' = "read" /\ UNCHANGED n_ether_packets
     ELSE packet' = packet /\ irq' = "alloc" /\ n_ether_packets' = n_ether_packets + 1
  /\ UNCHANGED <<macVars, ether_packet, queue, int_ack, thread>>

\* EthernetPacket(): the cached buffer is used unless it is in use.
EtherInterrupt ==
  /\ flag /\ Running68k
  /\ flag' = FALSE
  /\ n_ether_packets' = n_ether_packets + 1
  /\ IF ether_packet # "none" /\ n_ether_packets = 0
     THEN packet' = ether_packet /\ irq' = "read"
     ELSE packet' = packet /\ irq' = "alloc"
  /\ UNCHANGED <<macVars, ether_packet, queue, int_ack, thread>>

EndAlloc ==
  /\ irq = "alloc" /\ irq' = "read"
  /\ packet' = "new"
  /\ ether_packet' = IF ether_packet = "none" THEN "new" ELSE ether_packet
  /\ UNCHANGED <<macVars, n_ether_packets, queue, threadVars>>

Readable == queue # <<>> /\ Head(queue) # Runt

\* A packet is read and, if its protocol has a handler, the handler is called.
Read ==
  /\ irq = "read"
  /\ Readable
  /\ queue' = Tail(queue)
  /\ irq' = IF Head(queue) \in net_protocols THEN "handler" ELSE "read"
  /\ UNCHANGED <<macVars, bufferVars, threadVars>>

EndHandler ==
  /\ irq = "handler" /\ irq' = "read"
  /\ UNCHANGED <<macVars, bufferVars, queue, threadVars>>

\* A mutated form: the interrupt is acknowledged only when the queue is empty.
EndInterrupt_NoAck ==
  /\ irq = "read" /\ irq' = "no"
  /\ ~Readable
  /\ queue' = IF queue = <<>> THEN queue ELSE Tail(queue)
  /\ n_ether_packets' = n_ether_packets - 1
  /\ packet' = "none"
  /\ int_ack' = IF queue = <<>> THEN int_ack + 1 ELSE int_ack
  /\ UNCHANGED <<macVars, ether_packet, flag, thread>>

\* No packet, or a short one: ~EthernetPacket() and sem_post().  The destructor
\* keeps the cached buffer; by OneInterrupt there is no other.
EndInterrupt ==
  /\ irq = "read" /\ irq' = "no"
  /\ ~Readable
  /\ queue' = IF queue = <<>> THEN queue ELSE Tail(queue)
  /\ n_ether_packets' = n_ether_packets - 1
  /\ packet' = "none"
  /\ int_ack' = int_ack + 1
  /\ UNCHANGED <<macVars, ether_packet, flag, thread>>

-----------------------------------------------------------------------------
(* receive_func().                                                         *)

Poll ==
  /\ thread = "poll" /\ queue # <<>>
  /\ thread' = "trigger"
  /\ UNCHANGED <<macVars, bufferVars, queue, flag, int_ack, irq>>

\* A mutated form: the thread does not wait for the acknowledge.
Trigger_NoWait ==
  /\ thread = "trigger"
  /\ thread' = "poll"
  /\ flag' = TRUE
  /\ UNCHANGED <<macVars, bufferVars, queue, int_ack, irq>>

Trigger ==
  /\ thread = "trigger"
  /\ thread' = "wait"
  /\ flag' = TRUE
  /\ UNCHANGED <<macVars, bufferVars, queue, int_ack, irq>>

SemWait ==
  /\ thread = "wait" /\ int_ack > 0
  /\ thread' = "poll"
  /\ int_ack' = int_ack - 1
  /\ UNCHANGED <<macVars, bufferVars, queue, flag, irq>>

receive_func == Poll \/ Trigger \/ SemWait

-----------------------------------------------------------------------------
Interrupt == EndAlloc \/ Read \/ EndHandler \/ EndInterrupt

Next ==
  \/ EtherOpen \/ EtherReset
  \/ \E p \in Protocols : AttachPH(p) \/ DetachPH(p)
  \/ \E p \in Protocols \cup {Runt} : Arrive(p)
  \/ EtherInterrupt \/ Interrupt \/ receive_func

Spec == Init /\ [][Next]_vars

\* The threads run, a handler returns, and an interrupt is taken when 68k code
\* runs.
Fairness ==
  WF_vars(EtherInterrupt) /\ WF_vars(Interrupt) /\ WF_vars(receive_func)

FairSpec == Spec /\ Fairness

-----------------------------------------------------------------------------
(* Properties.                                                             *)

\* The type of every variable.
TypeOK ==
  /\ net_protocols \subseteq Protocols
  /\ ether_data \in Blocks /\ ether_packet \in Blocks /\ packet \in Blocks
  /\ n_ether_packets \in Nat
  /\ queue \in Seq(Protocols \cup {Runt}) /\ Len(queue) <= MaxPackets
  /\ flag \in BOOLEAN /\ int_ack \in 0 .. 1
  /\ thread \in {"poll", "trigger", "wait"}
  /\ irq \in {"no", "alloc", "read", "handler"}

\* "should be at most 1": one packet buffer is in use at a time, since the
\* acknowledge keeps interrupts from being nested: while the thread waits, its
\* request is in exactly one of the flag, the interrupt and the semaphore.
OneInterrupt ==
  /\ n_ether_packets <= 1
  /\ thread = "wait" <=> flag \/ irq # "no" \/ int_ack = 1
  /\ ~(flag /\ irq # "no") /\ ~(flag /\ int_ack = 1) /\ ~(irq # "no" /\ int_ack = 1)

\* A handler is called with the driver data of the MacOS that attached it, and
\* packets are read to a buffer (which may be one of the MacOS before).
HandlerHasData ==
  /\ irq = "handler" => ether_data = "new"
  /\ irq \in {"read", "handler"} => packet # "none"

\* A packet that has arrived is looked for, unless a short one in front of it
\* makes the interrupt return; then there is another interrupt.
PacketsRead == queue # <<>> ~> queue = <<>> \/ irq = "read"
=============================================================================
