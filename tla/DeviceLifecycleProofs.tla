------------------------ MODULE DeviceLifecycleProofs ------------------------
(***************************************************************************)
(* Proofs about the device lifecycle, for any set of requests, any faults and    *)
(* any number of starts.                                                         *)
(*                                                                           *)
(* That ReleaseHardware leaves nothing behind rests on the pointer it tests: it   *)
(* may be stale, but is never NULL while the memory block or its bitmap is there  *)
(* (PointerTells).  That it tears down only what is there holds as long as no      *)
(* PrepareHardware fails: what is there is then everything, from prepare to release *)
(* (AllThere).                                                                    *)
(***************************************************************************)
EXTENDS DeviceLifecycle, TLAPS

\* IoStop completes a request once, and only while its handler has not.
CompletedTwiceAtMost == \A r \in Requests : req[r].pc # "returned" => req[r].done <= 1

\* A memory block or a bitmap that is there is found by the test of VgpuMemoryAddress.
PointerTells == held \cap {"block", "bitmap"} # {} => VgpuMemoryAddress

\* The invariant that every step preserves, whatever fails.
IInv == TypeOK /\ CompletedTwiceAtMost /\ PointerTells /\ StoppedHoldsNothing

\* Without a fault in PrepareHardware a device that is not stopped has everything.
AllThere == phase \notin {"none", "added", "released", "gone"} => held = Things

-----------------------------------------------------------------------------
\* The state in which the driver is loaded.
LEMMA InitIInv == Init => IInv
<1> SUFFICES ASSUME Init PROVE IInv
  OBVIOUS
<1>1. req \in [Requests -> Request] /\ starts \in 0..MaxStarts
  BY LifecycleAssumption DEF Init, Request
<1>2. serving \in [0..MaxMessage -> Seq(Queues)]
  BY DEF Init
<1>3. VgpuMemoryAddress \in BOOLEAN /\ signaled \in BOOLEAN
  BY Zenon DEF Init
<1>4. TypeOK
  BY <1>1, <1>2, <1>3 DEF Init, TypeOK, Phases
<1> QED BY <1>4 DEF Init, IInv, CompletedTwiceAtMost, PointerTells, StoppedHoldsNothing

\* What PrepareHardware has set up when it returns is part of the device, and with the
\* memory block or its bitmap the pointer.
LEMMA UpToLemma ==
  ASSUME NEW fault \in {"none", "virtio", "block", "spinlock", "bitmap"}
  PROVE  /\ UpTo(fault) \subseteq Things
         /\ UpTo(fault) \cap {"block", "bitmap"} # {} => fault \notin {"virtio", "block"}
         /\ fault = "none" => UpTo(fault) = Things
  BY DEF UpTo, Things

\* The PnP and power callbacks preserve the invariant.
LEMMA PowerPreserves == IInv /\ Power => IInv'
<1> SUFFICES ASSUME IInv, Power PROVE IInv'
  OBVIOUS
<1> USE DEF IInv
<1>1. CASE VirtioVgpuDeviceAdd
  BY <1>1 DEF VirtioVgpuDeviceAdd, interrupts, commands, TypeOK, Messages, CompletedTwiceAtMost, PointerTells,
     StoppedHoldsNothing, Phases
<1>2. CASE VirtioVgpuDevicePrepareHardware
  <2>1. PICK fault \in {"none", "virtio", "block", "spinlock", "bitmap"} :
          /\ held' = UpTo(fault)
          /\ phase' = IF fault \in {"none", "bitmap"} THEN "prepared" ELSE "failed"
          /\ VgpuMemoryAddress' = IF fault = "virtio" THEN VgpuMemoryAddress ELSE fault # "block"
    BY <1>2, Zenon DEF VirtioVgpuDevicePrepareHardware
  <2>2. /\ starts < MaxStarts /\ starts' = starts + 1
        /\ UNCHANGED <<signaled, enabled, asserted, dpcs, serving, req, ring, used>>
    BY <1>2 DEF VirtioVgpuDevicePrepareHardware, interrupts, commands
  <2>3. PointerTells'
    BY <2>1, UpToLemma DEF TypeOK, PointerTells
  <2>4. VgpuMemoryAddress' \in BOOLEAN
    BY <2>1, Zenon DEF TypeOK
  <2>5. held' \subseteq Things /\ phase' \in Phases /\ starts' \in 0..MaxStarts
    BY <2>1, <2>2, UpToLemma, LifecycleAssumption DEF TypeOK, Phases
  <2>6. TypeOK'
    BY <2>2, <2>4, <2>5 DEF TypeOK, Messages
  <2> QED BY <2>1, <2>2, <2>3, <2>6 DEF CompletedTwiceAtMost, StoppedHoldsNothing
<1>3. CASE VirtioVgpuDeviceD0Entry
  BY <1>3, LifecycleAssumption DEF VirtioVgpuDeviceD0Entry, interrupts, commands, TypeOK, Messages, CompletedTwiceAtMost,
     PointerTells, StoppedHoldsNothing, Phases
<1>4. CASE VirtioVgpuInterruptEnable
  BY <1>4 DEF VirtioVgpuInterruptEnable, interrupts, commands, TypeOK, Messages, CompletedTwiceAtMost,
     PointerTells, StoppedHoldsNothing, Phases
<1>5. CASE Stop
  BY <1>5 DEF Stop, interrupts, commands, TypeOK, Messages, CompletedTwiceAtMost, PointerTells, StoppedHoldsNothing, Phases
<1>6. CASE VirtioVgpuInterruptDisable
  BY <1>6 DEF VirtioVgpuInterruptDisable, interrupts, commands, TypeOK, Messages, CompletedTwiceAtMost,
     PointerTells, StoppedHoldsNothing, Phases
<1>7. CASE VirtioVgpuDeviceD0Exit
  BY <1>7 DEF VirtioVgpuDeviceD0Exit, TypeOK, Messages, CompletedTwiceAtMost, PointerTells, StoppedHoldsNothing, Phases
<1>8. CASE VirtioVgpuDeviceReleaseHardware
  <2>1. held \subseteq TearsDown
    BY DEF TearsDown, TypeOK, Things, PointerTells
  <2>2. held' = {} /\ phase' \in {"released", "gone"}
    BY <1>8, <2>1 DEF VirtioVgpuDeviceReleaseHardware
  <2> QED
    BY <1>8, <2>2 DEF VirtioVgpuDeviceReleaseHardware, interrupts, commands, TypeOK, Messages, CompletedTwiceAtMost,
       PointerTells, StoppedHoldsNothing, Phases
<1> QED BY <1>1, <1>2, <1>3, <1>4, <1>5, <1>6, <1>7, <1>8 DEF Power

\* The steps of requests preserve the invariant.
LEMMA HandlePreserves == ASSUME IInv, NEW r \in Requests, Handle(r) PROVE IInv'
<1> USE DEF IInv
<1>1. CASE Dispatch(r)
  BY <1>1 DEF Dispatch, Step, device, interrupts, commands, TypeOK, Messages, CompletedTwiceAtMost, PointerTells,
     StoppedHoldsNothing, Request
<1>2. CASE HandlerWaits(r)
  BY <1>2 DEF HandlerWaits, Step, device, interrupts, TypeOK, Messages, CompletedTwiceAtMost, PointerTells,
     StoppedHoldsNothing, Request
<1>3. CASE VirtioVgpuIoControl(r)
  BY <1>3 DEF VirtioVgpuIoControl, device, interrupts, commands, TypeOK, Messages, CompletedTwiceAtMost, PointerTells,
     StoppedHoldsNothing, Request
<1>4. CASE VirtioVgpuIoStop(r)
  BY <1>4 DEF VirtioVgpuIoStop, InDriver, device, interrupts, commands, TypeOK, Messages, CompletedTwiceAtMost,
     PointerTells, StoppedHoldsNothing, Request
<1> QED BY <1>1, <1>2, <1>3, <1>4 DEF Handle

\* Interrupts, and the DPC that wakes handlers, preserve the invariant.
LEMMA InterruptPreserves == ASSUME IInv, NEW m \in 0..MaxMessage, Interrupt(m) PROVE IInv'
<1> USE DEF IInv
<1>1. CASE VirtioVgpuInterruptIsr(m)
  BY <1>1 DEF VirtioVgpuInterruptIsr, device, commands, TypeOK, Messages, CompletedTwiceAtMost, PointerTells,
     StoppedHoldsNothing
<1>2. CASE VirtioVgpuInterruptDpc(m)
  <2> DEFINE queues == IF signaled /\ m < NumVirtQueues THEN <<m>> ELSE <<0, 1>>
  <2>1. queues \in Seq(Queues)
    <3>1. 0 \in Queues /\ 1 \in Queues /\ (m < NumVirtQueues => m \in Queues)
      BY DEF Queues, NumVirtQueues, MaxMessage
    <3>2. <<0, 1>> \in Seq(Queues) /\ (m < NumVirtQueues => <<m>> \in Seq(Queues))
      BY <3>1
    <3> QED BY <3>2
  <2>2. serving' = [serving EXCEPT ![m] = queues] /\ dpcs' = dpcs \ {m}
    BY <1>2 DEF VirtioVgpuInterruptDpc
  <2> HIDE DEF queues
  <2>3. serving' \in [0..MaxMessage -> Seq(Queues)] /\ dpcs' \subseteq Messages
    BY <2>1, <2>2 DEF TypeOK
  <2> QED
    BY <1>2, <2>3 DEF VirtioVgpuInterruptDpc, device, commands, TypeOK, Messages, CompletedTwiceAtMost, PointerTells,
       StoppedHoldsNothing
<1>3. CASE VirtioVgpuReadFromQueue(m)
  <2>1. CASE {r \in used : QueueOf[r] = Head(serving[m])} = {}
    <3>1. Tail(serving[m]) \in Seq(Queues)
      BY <1>3 DEF VirtioVgpuReadFromQueue, TypeOK
    <3>2. serving' \in [0..MaxMessage -> Seq(Queues)]
      BY <1>3, <2>1, <3>1 DEF VirtioVgpuReadFromQueue, TypeOK
    <3> QED
      BY <1>3, <2>1, <3>2 DEF VirtioVgpuReadFromQueue, device, TypeOK, Messages, CompletedTwiceAtMost, PointerTells,
         StoppedHoldsNothing
  <2>2. CASE {r \in used : QueueOf[r] = Head(serving[m])} # {}
    <3>1. PICK r \in used : used' = used \ {r} /\ Step(r, "wait", "woken") /\ serving' = serving
      BY <1>3, <2>2 DEF VirtioVgpuReadFromQueue
    <3> QED
      BY <1>3, <3>1 DEF VirtioVgpuReadFromQueue, Step, device, TypeOK, Messages, CompletedTwiceAtMost, PointerTells,
         StoppedHoldsNothing, Request
  <2> QED BY <2>1, <2>2
<1> QED BY <1>1, <1>2, <1>3 DEF Interrupt

\* Every step preserves the invariant.
LEMMA NextIInv == IInv /\ [Next]_vars => IInv'
<1> SUFFICES ASSUME IInv, [Next]_vars PROVE IInv'
  OBVIOUS
<1>1. CASE Power
  BY <1>1, PowerPreserves
<1>2. ASSUME NEW r \in Requests, Handle(r) PROVE IInv'
  BY <1>2, HandlePreserves
<1>3. ASSUME NEW r \in Requests, HostComplete(r) PROVE IInv'
  <2>1. Vector(QueueOf[r]) \in Messages
    BY LifecycleAssumption DEF Vector, Messages, MaxMessage, Queues, NumVirtQueues
  <2>2. asserted' \subseteq Messages /\ Messages' = Messages
    BY <1>3, <2>1 DEF HostComplete, IInv, TypeOK, Messages
  <2> QED
    BY <1>3, <2>2 DEF HostComplete, device, IInv, TypeOK, CompletedTwiceAtMost, PointerTells, StoppedHoldsNothing
<1>4. CASE OtherMessage
  BY <1>4 DEF OtherMessage, device, commands, IInv, TypeOK, Messages, MaxMessage, NumVirtQueues, CompletedTwiceAtMost,
     PointerTells, StoppedHoldsNothing
<1>5. ASSUME NEW m \in 0..MaxMessage, Interrupt(m) PROVE IInv'
  BY <1>5, InterruptPreserves
<1>6. CASE UNCHANGED vars
  BY <1>6 DEF vars, IInv, TypeOK, Messages, CompletedTwiceAtMost, PointerTells, StoppedHoldsNothing
<1> QED BY <1>1, <1>2, <1>3, <1>4, <1>5, <1>6 DEF Next

\* The invariant holds of every behaviour.
LEMMA Invariant == Spec => []IInv
  BY InitIInv, NextIInv, PTL DEF Spec

-----------------------------------------------------------------------------
\* The state keeps its types whatever fails: an interrupt message is never taken for the
\* index of a queue that is not there (vgpu.c:217), and no request is completed more than
\* twice, once by IoStop and once by its handler.
THEOREM TypeCorrect == Spec => []TypeOK
  BY Invariant, PTL DEF IInv

\* After any start, failed or not, and any number of power cycles, a device that is
\* stopped holds neither memory nor lists, ids, queues or the notification
\* (VirtioVgpuDeviceReleaseHardware).
THEOREM StoppedHoldsNothingHolds == Spec => []StoppedHoldsNothing
  BY Invariant, PTL DEF IInv

\* Without a fault in PrepareHardware every step keeps everything there until the release.
LEMMA AllThereStep ==
  ASSUME Faults \subseteq {"queues"}
  PROVE  AllThere /\ [Next]_vars => AllThere'
<1> SUFFICES ASSUME AllThere, [Next]_vars PROVE AllThere'
  OBVIOUS
<1> USE DEF AllThere
<1>1. CASE Power
  <2>1. CASE VirtioVgpuDevicePrepareHardware
    BY <2>1, UpToLemma DEF VirtioVgpuDevicePrepareHardware
  <2> QED
    BY <1>1, <2>1 DEF Power, VirtioVgpuDeviceAdd, VirtioVgpuDeviceD0Entry, VirtioVgpuInterruptEnable, Stop,
       VirtioVgpuInterruptDisable, VirtioVgpuDeviceD0Exit, VirtioVgpuDeviceReleaseHardware
<1>2. ASSUME NEW r \in Requests, Handle(r) \/ HostComplete(r) PROVE AllThere'
  BY <1>2 DEF Handle, Dispatch, HandlerWaits, VirtioVgpuIoControl, VirtioVgpuIoStop, HostComplete, device
<1>3. ASSUME NEW m \in 0..MaxMessage, Interrupt(m) PROVE AllThere'
  BY <1>3 DEF Interrupt, VirtioVgpuInterruptIsr, VirtioVgpuInterruptDpc, VirtioVgpuReadFromQueue, device
<1> QED BY <1>1, <1>2, <1>3 DEF Next, OtherMessage, device, vars

\* As long as no PrepareHardware fails, ReleaseHardware finds everything it tears down
\* (vgpu.c:486, 490-492), after a D0Entry that failed too.
THEOREM TornDownOnceHolds ==
  ASSUME Faults \subseteq {"queues"}
  PROVE  Spec => []TornDownOnce
<1>1. Init => AllThere
  BY DEF Init, AllThere
<1>2. AllThere /\ [Next]_vars => AllThere'
  BY AllThereStep
<1>3. AllThere => TornDownOnce
  BY DEF AllThere, TornDownOnce, TearsDown, Things
<1> QED BY <1>1, <1>2, <1>3, PTL DEF Spec
=============================================================================
