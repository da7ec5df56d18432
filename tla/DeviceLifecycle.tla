--------------------------- MODULE DeviceLifecycle ---------------------------
(***************************************************************************)
(* The device from DeviceAdd to its removal: the PnP and power callbacks, the    *)
(* interrupt callbacks with the DPC that serves the queues, and the requests the  *)
(* parallel queue hands to VirtioVgpuIoControl, with IoStop beside them.          *)
(*                                                                           *)
(* The framework (WDF) is external and taken at its word: callbacks come in the   *)
(* order DeviceAdd, PrepareHardware, D0Entry, InterruptEnable, requests; then     *)
(* IoStop for every request the driver owns, InterruptDisable, D0Exit; from there *)
(* D0Entry again or ReleaseHardware.  ReleaseHardware is also called after a      *)
(* PrepareHardware or a D0Entry that failed.  No DPC runs after InterruptDisable.  *)
(*                                                                           *)
(* Abstractions.  A request is one call of a handler, which may push one command   *)
(* and wait for it.  What a handler does is in the other modules.                  *)
(***************************************************************************)
EXTENDS Integers, Sequences, FiniteSets

CONSTANTS Requests,   \* requests clients send
          QueueOf,    \* the queue the command of each request goes to
          Faults,     \* calls that may fail: "virtio", "block", "bitmap", "spinlock", "queues"
          MaxStarts   \* bound: times the device is prepared or powered up

NumVirtQueues == 2    \* COMMAND_QUEUE and CONTROL_QUEUE
Queues == 0..(NumVirtQueues - 1)

ASSUME LifecycleAssumption ==
    /\ QueueOf \in [Requests -> Queues]
    /\ Faults \subseteq {"virtio", "block", "bitmap", "spinlock", "queues"}
    /\ MaxStarts \in Nat

VARIABLES phase,      \* where the framework is with the device
          held,       \* what PrepareHardware has set up and ReleaseHardware not torn down
          VgpuMemoryAddress,  \* the pointer in the device context is not NULL
          signaled,   \* the interrupts are message-signalled
          enabled,    \* queues whose callback is enabled
          req,        \* each request
          ring, used, \* requests whose command the host has, or has completed
          asserted,   \* interrupts raised and not yet taken by the ISR
          dpcs,       \* DPCs queued by the ISR
          serving,    \* the queues the DPC of each message has yet to read
          starts

device == <<phase, held, VgpuMemoryAddress, starts>>
interrupts == <<enabled, asserted, dpcs, serving>>
commands == <<ring, used>>
vars == <<phase, held, VgpuMemoryAddress, signaled, enabled, req, ring, used, asserted, dpcs,
          serving, starts>>

Things == {"virtio", "VirtQueues", "VirtQueueLocks", "Capsets", "block", "bitmap", "notify", "idr",
           "lookaside"}
Phases == {"none", "added", "prepared", "failed", "entered", "working", "stopping", "quiet",
           "exited", "released", "gone"}
MaxMessage == NumVirtQueues         \* one more than there are queues
Messages == IF signaled THEN 0..MaxMessage ELSE {0}

\* done: how often the request has been completed.
Request == [pc : {"new", "handler", "wait", "woken", "returned"}, done : 0..2]
InDriver == {r \in Requests : req[r].pc \in {"handler", "wait", "woken"}}

\* The driver is loaded (DriverEntry).
Init ==
    /\ phase = "none" /\ held = {} /\ VgpuMemoryAddress = FALSE
    /\ signaled \in BOOLEAN
    /\ enabled = {} /\ asserted = {} /\ dpcs = {}
    /\ serving = [m \in 0..MaxMessage |-> <<>>]
    /\ req = [r \in Requests |-> [pc |-> "new", done |-> 0]]
    /\ ring = {} /\ used = {}
    /\ starts = 0

-----------------------------------------------------------------------------
(* PnP and power.                                                           *)

\* The context is zeroed and the interrupts and the queue are created; the device is
\* gone if one of these fails.
VirtioVgpuDeviceAdd ==
    /\ phase = "none"
    /\ phase' \in {"added", "gone"}
    /\ UNCHANGED <<held, VgpuMemoryAddress, signaled, interrupts, req, commands, starts>>

\* What is set up before each call that can fail, and what is when none has.
UpTo(fault) ==
    CASE fault = "virtio" -> {}
      [] fault = "block" -> {"virtio", "VirtQueues", "VirtQueueLocks", "Capsets"}
      [] fault = "spinlock" -> Things \ {"notify", "idr", "lookaside"}
      [] fault = "bitmap" -> Things \ {"bitmap"}
      [] fault = "none" -> Things

\* Slip: the ids are not initialised.
PrepareWithoutIdr ==
    /\ phase \in {"added", "released"} /\ starts < MaxStarts
    /\ held' = Things \ {"idr"}
    /\ phase' = "prepared"
    /\ VgpuMemoryAddress' = TRUE
    /\ starts' = starts + 1
    /\ UNCHANGED <<signaled, interrupts, req, commands>>

\* The device fails to start, but for a bitmap: InitializeVgpuMemory returns nothing.
\* The pointer is assigned by MmAllocateContiguousMemory, and only by it.
VirtioVgpuDevicePrepareHardware ==
    /\ phase \in {"added", "released"} /\ starts < MaxStarts
    /\ \E fault \in {"none"} \cup (Faults \cap {"virtio", "block", "spinlock", "bitmap"}) :
        /\ held' = UpTo(fault)
        /\ phase' = IF fault \in {"none", "bitmap"} THEN "prepared" ELSE "failed"
        /\ VgpuMemoryAddress' = IF fault = "virtio" THEN VgpuMemoryAddress ELSE fault # "block"
    /\ starts' = starts + 1
    /\ UNCHANGED <<signaled, interrupts, req, commands>>

\* VirtIOWdfInitQueues; the queues are empty.
VirtioVgpuDeviceD0Entry ==
    /\ phase = "prepared" \/ (phase = "exited" /\ starts < MaxStarts)
    /\ \E fault \in {"none"} \cup (Faults \cap {"queues"}) :
        phase' = IF fault = "none" THEN "entered" ELSE "failed"
    /\ starts' = IF phase = "exited" THEN starts + 1 ELSE starts
    /\ UNCHANGED <<held, VgpuMemoryAddress, signaled, interrupts, req, commands>>

\* Slip: a message number is taken for the index of a queue unchecked.
EnableEveryMessage ==
    /\ phase = "entered"
    /\ enabled' = IF signaled THEN Messages ELSE Queues
    /\ phase' = "working"
    /\ UNCHANGED <<held, VgpuMemoryAddress, signaled, req, commands, asserted, dpcs, serving, starts>>

\* virtqueue_enable_cb for the queue of each message, or for all of them.
VirtioVgpuInterruptEnable ==
    /\ phase = "entered"
    /\ enabled' = IF signaled THEN Messages \cap Queues ELSE Queues
    /\ phase' = "working"
    /\ UNCHANGED <<held, VgpuMemoryAddress, signaled, req, commands, asserted, dpcs, serving, starts>>

\* The framework stops handing out requests.
Stop ==
    /\ phase = "working"
    /\ phase' = "stopping"
    /\ UNCHANGED <<held, VgpuMemoryAddress, signaled, interrupts, req, commands, starts>>

\* Once no request is left that was not completed.
VirtioVgpuInterruptDisable ==
    /\ phase = "stopping" /\ \A r \in InDriver : req[r].done > 0
    /\ enabled' = IF signaled THEN enabled \ Messages ELSE {}
    /\ phase' = "quiet"
    /\ UNCHANGED <<held, VgpuMemoryAddress, signaled, req, commands, asserted, dpcs, serving, starts>>

\* VirtIOWdfDestroyQueues: commands in flight are dropped, nobody is woken.
VirtioVgpuDeviceD0Exit ==
    /\ phase = "quiet" /\ dpcs = {} /\ \A m \in 0..MaxMessage : serving[m] = <<>>
    /\ ring' = {} /\ used' = {} /\ asserted' = {}
    /\ phase' = "exited"
    /\ UNCHANGED <<held, VgpuMemoryAddress, signaled, enabled, req, dpcs, serving, starts>>

\* What ReleaseHardware tears down: what the pointers say is there, and, whatever happened
\* before, the ids, the look-aside lists, the notification and the virtio device.
TearsDown ==
    (held \cap {"VirtQueues", "VirtQueueLocks", "Capsets"})
        \cup (IF VgpuMemoryAddress THEN {"block", "bitmap"} ELSE {})
        \cup {"idr", "lookaside", "notify", "virtio"}

\* Slip: the memory block is left to itself.
ReleaseKeepsMemory ==
    /\ phase \in {"exited", "failed"}
    /\ held' = held \ (TearsDown \ {"block", "bitmap"})
    /\ phase' \in {"released", "gone"}
    /\ UNCHANGED <<VgpuMemoryAddress, signaled, interrupts, req, commands, starts>>

\* VgpuMemoryAddress keeps its value.
VirtioVgpuDeviceReleaseHardware ==
    /\ phase \in {"exited", "failed"}
    /\ held' = held \ TearsDown
    /\ phase' \in {"released", "gone"}
    /\ UNCHANGED <<VgpuMemoryAddress, signaled, interrupts, req, commands, starts>>

-----------------------------------------------------------------------------
(* Requests.                                                                *)

Step(r, from, to) == req[r].pc = from /\ req' = [req EXCEPT ![r].pc = to]

\* The parallel queue hands a request to VirtioVgpuIoControl.
Dispatch(r) ==
    /\ phase = "working" /\ Step(r, "new", "handler")
    /\ UNCHANGED <<device, signaled, interrupts, commands>>

\* The handler pushes a command and waits.  A handler that outlives the stop (IoStop does not
\* end it) pushes to a queue D0Exit has destroyed, under a lock of an array the release has
\* freed: whatever that does, no command reaches the host, and that is all that is kept of it.
HandlerWaits(r) ==
    /\ Step(r, "handler", "wait")
    /\ ring' = IF phase \in {"working", "stopping", "quiet"} THEN ring \cup {r} ELSE ring
    /\ UNCHANGED <<device, signaled, interrupts, used>>

\* WdfRequestCompleteWithInformation, at the end of the handler.
VirtioVgpuIoControl(r) ==
    /\ req[r].pc \in {"handler", "woken"}
    /\ req' = [req EXCEPT ![r] = [pc |-> "returned", done |-> req[r].done + 1]]
    /\ UNCHANGED <<device, signaled, interrupts, commands>>

\* Slip: a request whose handler waits is left alone.
IoStopLeavesWaiting(r) ==
    /\ phase = "stopping" /\ req[r].pc \in {"handler", "woken"} /\ req[r].done = 0
    /\ req' = [req EXCEPT ![r].done = 1]
    /\ UNCHANGED <<device, signaled, interrupts, commands>>

\* A request the driver owns, which is never cancelable, is completed; its handler
\* knows nothing of it.
VirtioVgpuIoStop(r) ==
    /\ phase = "stopping" /\ r \in InDriver /\ req[r].done = 0
    /\ req' = [req EXCEPT ![r].done = 1]
    /\ UNCHANGED <<device, signaled, interrupts, commands>>

-----------------------------------------------------------------------------
(* The host and its interrupts.                                             *)

Vector(q) == IF signaled THEN q ELSE 0

HostComplete(r) ==
    /\ r \in ring
    /\ ring' = ring \ {r} /\ used' = used \cup {r}
    /\ asserted' = IF QueueOf[r] \in enabled THEN asserted \cup {Vector(QueueOf[r])} ELSE asserted
    /\ UNCHANGED <<device, signaled, req, enabled, dpcs, serving>>

\* A message that belongs to no queue.
OtherMessage ==
    /\ signaled /\ phase = "working"
    /\ asserted' = asserted \cup {MaxMessage}
    /\ UNCHANGED <<device, signaled, req, commands, enabled, dpcs, serving>>

\* The ISR queues the DPC if the message or the ISR status is ours; queueing it twice
\* is queueing it once.
VirtioVgpuInterruptIsr(m) ==
    /\ m \in asserted /\ phase \in {"working", "stopping"}
    /\ asserted' = asserted \ {m} /\ dpcs' = dpcs \cup {m}
    /\ UNCHANGED <<device, signaled, req, commands, enabled, serving>>

\* Slip: the queue of the message number, even if there are no messages.
DpcByNumber(m) ==
    /\ m \in dpcs /\ serving[m] = <<>>
    /\ dpcs' = dpcs \ {m}
    /\ serving' = [serving EXCEPT ![m] = IF m < NumVirtQueues THEN <<m>> ELSE <<0, 1>>]
    /\ UNCHANGED <<device, signaled, req, commands, enabled, asserted>>

\* The DPC reads the queue of its message, or every queue.
VirtioVgpuInterruptDpc(m) ==
    /\ m \in dpcs /\ serving[m] = <<>>
    /\ dpcs' = dpcs \ {m}
    /\ serving' = [serving EXCEPT ![m] = IF signaled /\ m < NumVirtQueues THEN <<m>> ELSE <<0, 1>>]
    /\ UNCHANGED <<device, signaled, req, commands, enabled, asserted>>

\* One turn of the loop of VirtioVgpuReadFromQueue: a buffer, whose handler is woken, or
\* the end of the queue.
VirtioVgpuReadFromQueue(m) ==
    /\ serving[m] # <<>>
    /\ LET there == {r \in used : QueueOf[r] = Head(serving[m])}
       IN  IF there = {}
           THEN serving' = [serving EXCEPT ![m] = Tail(@)] /\ UNCHANGED <<req, used>>
           ELSE \E r \in there : /\ used' = used \ {r} /\ Step(r, "wait", "woken")
                                 /\ UNCHANGED serving
    /\ UNCHANGED <<device, signaled, ring, enabled, asserted, dpcs>>

-----------------------------------------------------------------------------
Power ==
    \/ VirtioVgpuDeviceAdd \/ VirtioVgpuDevicePrepareHardware \/ VirtioVgpuDeviceD0Entry
    \/ VirtioVgpuInterruptEnable \/ Stop \/ VirtioVgpuInterruptDisable \/ VirtioVgpuDeviceD0Exit
    \/ VirtioVgpuDeviceReleaseHardware

Handle(r) == Dispatch(r) \/ HandlerWaits(r) \/ VirtioVgpuIoControl(r) \/ VirtioVgpuIoStop(r)

Interrupt(m) == VirtioVgpuInterruptIsr(m) \/ VirtioVgpuInterruptDpc(m) \/ VirtioVgpuReadFromQueue(m)

Next ==
    \/ Power
    \/ \E r \in Requests : Handle(r) \/ HostComplete(r)
    \/ OtherMessage
    \/ \E m \in 0..MaxMessage : Interrupt(m)

Spec == Init /\ [][Next]_vars

\* The framework goes on with a stop it has begun and calls IoStop for every request; the
\* processor takes interrupts and runs DPCs.  Neither the host nor the client, and so no
\* handler, is under an obligation.
Fairness ==
    /\ \A r \in Requests : WF_vars(VirtioVgpuIoStop(r))
    /\ WF_vars(VirtioVgpuInterruptDisable) /\ WF_vars(VirtioVgpuDeviceD0Exit)
    /\ \A m \in 0..MaxMessage : /\ WF_vars(VirtioVgpuInterruptIsr(m))
                                /\ WF_vars(VirtioVgpuInterruptDpc(m) \/ VirtioVgpuReadFromQueue(m))

FairSpec == Spec /\ Fairness

-----------------------------------------------------------------------------
\* The types of the state.
TypeOK ==
    /\ phase \in Phases /\ held \subseteq Things
    /\ VgpuMemoryAddress \in BOOLEAN /\ signaled \in BOOLEAN
    /\ enabled \subseteq Queues
    /\ req \in [Requests -> Request]
    /\ ring \subseteq Requests /\ used \subseteq Requests
    /\ asserted \subseteq Messages /\ dpcs \subseteq Messages
    /\ serving \in [0..MaxMessage -> Seq(Queues)]
    /\ starts \in 0..MaxStarts

\* ReleaseHardware leaves nothing behind of what PrepareHardware set up, after any start and
\* any number of power cycles.  (The contexts of processes that still live are not among it:
\* vgpu.c:463 reports them and leaves them.)
StoppedHoldsNothing == phase \in {"none", "added", "released", "gone"} => held = {}

\* "ASSERT(Idrs[i].Initilaized);" (idr.c:54), "ASSERT(VgpuMemory.bInitialize);"
\* (memory.c:66): ReleaseHardware tears down what is there, each thing once.
\* (Unregistering a routine that is not registered, or an absent device, is harmless.)
TornDownOnce == phase \in {"exited", "failed"} => TearsDown \ {"notify", "virtio"} \subseteq held

\* "the driver owns the request and it will not be able to process it" (vgpu.c:574):
\* a request is completed by IoStop or by its handler.
CompletedOnce == \A r \in Requests : req[r].done <= 1

\* A stop comes to its end whatever the host does: IoStop completes the requests whose
\* handlers wait without a timeout.
StopCompletes == phase = "stopping" ~> phase = "exited"

\* What the host has completed is fetched, or dropped when the device stops: with messages
\* and with a line, whichever queue it is on, however interrupts coalesce.
CompletionsServed == \A r \in Requests : r \in used ~> r \notin used
=============================================================================
