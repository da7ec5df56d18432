------------------------------ MODULE VirglFence ------------------------------
(***************************************************************************)
(* The busy/idle protocol of virgl resources and the life of a command, for  *)
(* one virgl context: handler threads (control.c) that create, use, wait for  *)
(* and map resources, the command queue (command.c), the host, and the        *)
(* completion DPC (vgpu.c).                                                   *)
(*                                                                           *)
(* A resource is busy when its StateEvent is clear.  UpdateResourceState       *)
(* (control.h) clears it for the resources a command names before the command  *)
(* is pushed, and sets it again in the DPC when the command comes back.  It    *)
(* takes no lock: its comparison, its write of FenceId and its change of the   *)
(* event are separate steps here, of threads and of DPCs alike.                *)
(*                                                                           *)
(* Abstractions.  A memory block stands for a region of VgpuMemory.  A handle  *)
(* array is a set, gone through in any order.  Commands that change nothing    *)
(* here when they complete (CREATE, ATTACH_BACKING) are of type "other".       *)
(* Clients use the handles an ioctl has returned to them.                      *)
(***************************************************************************)
EXTENDS Integers, Sequences, FiniteSets

CONSTANTS Threads,       \* handler threads of the process
          FencedThreads, \* those that submit with VIRTGPU_EXECBUF_FENCE_FD_OUT
          Dpcs,          \* processors that can run the completion DPC
          Blocks,        \* memory blocks of VgpuMemory
          Ops,           \* the ioctls this instance issues
          Faults,        \* which calls may fail: "probe", "pool", "mapio"
          HostInOrder,   \* the host completes commands in ring order
          RingSize,      \* slots of COMMAND_QUEUE
          MaxRes,        \* bound: resources created
          MaxFence,      \* bound: fence ids handed out
          MaxInFlight    \* bound: commands prepared, queued or being completed

ASSUME ConstAssumption ==
    /\ FencedThreads \subseteq Threads
    /\ Threads \cap Dpcs = {}
    /\ IsFiniteSet(Threads) /\ IsFiniteSet(Dpcs)
    /\ HostInOrder \in BOOLEAN
    /\ RingSize \in Nat /\ MaxRes \in Nat /\ MaxFence \in Nat /\ MaxInFlight \in Nat
    /\ "none" \notin Blocks

VARIABLES res,        \* the VIRGL_RESOURCE of each id
          act,        \* what each thread and each DPC is doing
          ring,       \* commands the host has not completed
          used,       \* completed commands the DPC has not fetched
          free,       \* blocks that belong to nobody
          signalled,  \* fence ids whose FenceObject has been set
          nextRes, nextFence    \* the counters of idr.c

vars == <<res, act, ring, used, free, signalled, nextRes, nextFence>>

Actors == Threads \cup Dpcs
Ids == 1..MaxRes
Fences == 0..MaxFence          \* 0: no fence
NoBlock == "none"

\* st: "known" once the ioctl that created the resource has returned its handle.
\* va: Buffer.Memory.VirtualAddress is valid.  mdl: Share.pMdl is not NULL.
Resource == [st : {"none", "listed", "known"}, kind : {"fence", "buffer", "blob"}, event : BOOLEAN,
             FenceId : Fences, va : BOOLEAN, mdl : BOOLEAN, blk : Blocks \cup {NoBlock}]
NoResource == [st |-> "none", kind |-> "fence", event |-> TRUE, FenceId |-> 0,
               va |-> FALSE, mdl |-> FALSE, blk |-> NoBlock]

\* A VGPU_BUFFER.  after: the in-fence its submitter waited for.
Command == [type : {"submit", "xfer", "mapblob", "other"}, ids : SUBSET Ids, fence : Fences,
            after : Fences, blk : Blocks \cup {NoBlock}]
Other == [type |-> "other", ids |-> {}, fence |-> 0, after |-> 0, blk |-> NoBlock]

\* An actor: the command it prepares or completes, the ids it has still to
\* update, the one it is at, and its place.
Activity == [cmd : Command, todo : SUBSET Ids, cur : Ids \cup {0},
             pc : {"idle", "infence", "alloc", "update", "write", "event", "push", "wait",
                   "mapwait", "mapshare", "mapuser", "callback"}]
Idle == [cmd |-> Other, todo |-> {}, cur |-> 0, pc |-> "idle"]

Init ==
    /\ res = [i \in Ids |-> NoResource]
    /\ act = [a \in Actors |-> Idle]
    /\ ring = <<>> /\ used = <<>>
    /\ free = Blocks
    /\ signalled = {}
    /\ nextRes = 1 /\ nextFence = 1

Known == {i \in Ids : res[i].st = "known"}
NeedFence == Cardinality({t \in FencedThreads : act[t].pc \in {"infence", "alloc"}})
InFlight == Len(ring) + Len(used) + Cardinality({a \in Actors : act[a].cmd # Other})

\* Actor a becomes r.
To(a, r) == act' = [act EXCEPT ![a] = r]
Return(t) == To(t, Idle)

-----------------------------------------------------------------------------
(* The command queue.                                                       *)

\* PushQueue: virtqueue_add_buf fails when no slot is left.
Room == RingSize - (Len(ring) + Len(used))
PushQueue(cmd) == ring' = IF Room > 0 THEN Append(ring, cmd) ELSE ring

\* Two pushes in a row by the same handler.
PushTwo(cmd1, cmd2) == ring' = CASE Room > 1 -> ring \o <<cmd1, cmd2>>
                                 [] Room = 1 -> Append(ring, cmd1)
                                 [] Room < 1 -> ring

\* The host completes a command.
HostComplete ==
    \E i \in 1..Len(ring) :
        /\ HostInOrder => i = 1
        /\ used' = Append(used, ring[i])
        /\ ring' = SubSeq(ring, 1, i - 1) \o SubSeq(ring, i + 1, Len(ring))
        /\ UNCHANGED <<res, act, free, signalled, nextRes, nextFence>>

-----------------------------------------------------------------------------
(* UpdateResourceState(ResourceIds, Busy, FenceId), by a thread (busy) or a   *)
(* DPC (idle), one resource at a time.                                       *)

Busy(a) == a \in Threads

\* KeSetEvent releases every thread that waits for the event.
Released(A, i) ==
    [a \in Actors |-> CASE A[a].pc = "wait" /\ A[a].cur = i -> Idle
                        [] A[a].pc = "mapwait" /\ A[a].cur = i -> [A[a] EXCEPT !.pc = "mapshare"]
                        [] OTHER -> A[a]]

\* KeClearEvent or KeSetEvent on resource i by a, which goes on as r.
ChangeEvent(a, i, r) ==
    LET A == [act EXCEPT ![a] = r]
    IN  /\ res' = [res EXCEPT ![i].event = ~Busy(a)]
        /\ act' = IF Busy(a) THEN A ELSE Released(A, i)

\* Slip: a completion with the resource's own fence does not count.
StrictlyNewer(a, i) == act[a].cmd.fence > res[i].FenceId

\* FenceId >= resource->FenceId
Newer(a, i) == act[a].cmd.fence >= res[i].FenceId

\* The comparison.  Without a fence the event is changed at once.
UpdateCompare(a) ==
    /\ act[a].pc = "update"
    /\ \E i \in act[a].todo :
        LET rest == [act[a] EXCEPT !.todo = @ \ {i}]
        IN  \/ act[a].cmd.fence = 0 /\ ChangeEvent(a, i, rest)
            \/ /\ act[a].cmd.fence # 0 /\ Newer(a, i)
               /\ To(a, [rest EXCEPT !.cur = i, !.pc = "write"])
               /\ UNCHANGED res
            \/ /\ act[a].cmd.fence # 0 /\ ~Newer(a, i)
               /\ To(a, rest)
               /\ UNCHANGED res
    /\ UNCHANGED <<ring, used, free, signalled, nextRes, nextFence>>

\* resource->FenceId = FenceId
UpdateWrite(a) ==
    /\ act[a].pc = "write"
    /\ res' = [res EXCEPT ![act[a].cur].FenceId = act[a].cmd.fence]
    /\ To(a, [act[a] EXCEPT !.pc = "event"])
    /\ UNCHANGED <<ring, used, free, signalled, nextRes, nextFence>>

UpdateEvent(a) ==
    /\ act[a].pc = "event"
    /\ ChangeEvent(a, act[a].cur, [act[a] EXCEPT !.pc = "update", !.cur = 0])
    /\ UNCHANGED <<ring, used, free, signalled, nextRes, nextFence>>

UpdateResourceState(a) == UpdateCompare(a) \/ UpdateWrite(a) \/ UpdateEvent(a)

-----------------------------------------------------------------------------
(* The ioctl handlers.                                                      *)

MayStart(t, op) == act[t].pc = "idle" /\ op \in Ops

\* CtlCreateResource.  Nobody can name the resource before it is in the list, so
\* the whole handler is one step.  A resource of size 1 has no buffer.  If no
\* memory is left the host's resource stays and the handle is not returned.
CtlCreateResource(t, kind) ==
    /\ MayStart(t, "create") /\ nextRes <= MaxRes /\ InFlight < MaxInFlight
    /\ nextRes' = nextRes + 1
    /\ \/ /\ kind = "fence"
          /\ PushQueue(Other)
          /\ res' = [res EXCEPT ![nextRes] = [NoResource EXCEPT !.st = "known"]]
          /\ UNCHANGED free
       \/ /\ kind = "buffer" /\ free = {}
          /\ PushQueue(Other)
          /\ UNCHANGED <<res, free>>
       \/ /\ kind = "buffer"
          /\ \E b \in free :
                /\ PushTwo(Other, Other)
                /\ free' = free \ {b}
                /\ res' = [res EXCEPT ![nextRes] = [NoResource EXCEPT
                              !.st = "known", !.kind = "buffer", !.va = TRUE, !.blk = b]]
    /\ UNCHANGED <<act, used, signalled, nextFence>>

\* Slip: a blob starts idle, like the other resources.
CtlCreateBlobIdle(t) ==
    /\ MayStart(t, "blob") /\ nextRes <= MaxRes /\ InFlight < MaxInFlight
    /\ nextRes' = nextRes + 1
    /\ PushQueue(Other)
    /\ res' = [res EXCEPT ![nextRes] = [NoResource EXCEPT !.st = "listed", !.kind = "blob"]]
    /\ To(t, [Idle EXCEPT !.cmd = [Other EXCEPT !.type = "mapblob", !.ids = {nextRes}], !.pc = "push"])
    /\ UNCHANGED <<used, free, signalled, nextFence>>

\* CtlCreateBlobResource up to the insertion into the list: busy until mapped.
CtlCreateBlobResource(t) ==
    /\ MayStart(t, "blob") /\ nextRes <= MaxRes /\ InFlight < MaxInFlight
    /\ nextRes' = nextRes + 1
    /\ PushQueue(Other)
    /\ res' = [res EXCEPT ![nextRes] =
                  [NoResource EXCEPT !.st = "listed", !.kind = "blob", !.event = FALSE]]
    /\ To(t, [Idle EXCEPT !.cmd = [Other EXCEPT !.type = "mapblob", !.ids = {nextRes}], !.pc = "push"])
    /\ UNCHANGED <<used, free, signalled, nextFence>>

\* MapBlobResource; the handler then returns the handle.
MapBlobResource(t) ==
    /\ act[t].pc = "push" /\ act[t].cmd.type = "mapblob"
    /\ PushQueue(act[t].cmd)
    /\ res' = [i \in Ids |-> IF i \in act[t].cmd.ids THEN [res[i] EXCEPT !.st = "known"] ELSE res[i]]
    /\ Return(t)
    /\ UNCHANGED <<used, free, signalled, nextRes, nextFence>>

\* CtlTransferHost: the resource is made busy without a fence, ...
CtlTransferHost(t, i) ==
    /\ MayStart(t, "xfer") /\ i \in Known /\ InFlight < MaxInFlight
    /\ ChangeEvent(t, i, [Idle EXCEPT !.cmd = [Other EXCEPT !.type = "xfer", !.ids = {i}], !.pc = "push"])
    /\ UNCHANGED <<ring, used, free, signalled, nextRes, nextFence>>

\* ... and TransferHost3D pushes the command, whether or not it fits.
TransferHost3D(t) ==
    /\ act[t].pc = "push" /\ act[t].cmd.type = "xfer"
    /\ PushQueue(act[t].cmd)
    /\ Return(t)
    /\ UNCHANGED <<res, used, free, signalled, nextRes, nextFence>>

\* CtlSubmitCommand with handles ids and, if after # 0, an in-fence.
CtlSubmitCommand(t, ids, after) ==
    /\ MayStart(t, "submit") /\ InFlight < MaxInFlight
    /\ t \in FencedThreads => nextFence + NeedFence <= MaxFence
    /\ To(t, [Idle EXCEPT !.cmd = [Other EXCEPT !.type = "submit", !.ids = ids, !.after = after],
                          !.pc = "infence"])
    /\ UNCHANGED <<res, ring, used, free, signalled, nextRes, nextFence>>

\* Slip: the in-fence is not waited for.
SkipInFence(t) ==
    /\ act[t].pc = "infence"
    /\ To(t, [act[t] EXCEPT !.pc = "alloc"])
    /\ UNCHANGED <<res, ring, used, free, signalled, nextRes, nextFence>>

\* The wait for the in-fence; the next step can fail before it has any effect.
WaitInFence(t) ==
    /\ act[t].pc = "infence"
    /\ act[t].cmd.after # 0 => act[t].cmd.after \in signalled
    /\ To(t, [act[t] EXCEPT !.pc = "alloc"])
    /\ UNCHANGED <<res, ring, used, free, signalled, nextRes, nextFence>>

\* AllocateVgpuMemory for the command, then a fence id, then the probe of the
\* handle array: a failure there returns with the block and the id lost.
TakeCommandBuffer(t) ==
    /\ act[t].pc = "alloc"
    /\ \/ /\ free = {} /\ Return(t)
          /\ UNCHANGED <<free, nextFence>>
       \/ \E b \in free, fence \in {IF t \in FencedThreads THEN nextFence ELSE 0} :
            /\ free' = free \ {b}
            /\ nextFence' = IF fence # 0 THEN nextFence + 1 ELSE nextFence
            /\ \/ To(t, [act[t] EXCEPT !.cmd.blk = b, !.cmd.fence = fence,
                                      !.todo = act[t].cmd.ids, !.pc = "update"])
               \/ "probe" \in Faults /\ act[t].cmd.ids # {} /\ Return(t)
    /\ UNCHANGED <<res, ring, used, signalled, nextRes>>

\* Slip: a queued command is treated as done.
SubmitTakenAsDone(t) ==
    /\ act[t].pc = "update" /\ act[t].todo = {} /\ t \in Threads
    /\ PushQueue(act[t].cmd)
    /\ Return(t)
    /\ free' = free \cup {act[t].cmd.blk}
    /\ signalled' = signalled \cup {act[t].cmd.fence}
    /\ UNCHANGED <<res, used, nextRes, nextFence>>

\* The copy of the handles, then SubmitCommand.  If the copy cannot be allocated,
\* or the queue is full, the handler returns an error and nothing is undone.
SubmitCommand(t) ==
    /\ act[t].pc = "update" /\ act[t].todo = {} /\ t \in Threads
    /\ \/ PushQueue(act[t].cmd)
       \/ "pool" \in Faults /\ act[t].cmd.ids # {} /\ UNCHANGED ring
    /\ Return(t)
    /\ UNCHANGED <<res, used, free, signalled, nextRes, nextFence>>

\* CtlWait: returns at once if the resource is idle (as the NOWAIT form always
\* does), else blocks without a timeout.
CtlWait(t, i) ==
    /\ MayStart(t, "wait") /\ i \in Known
    /\ ~res[i].event
    /\ To(t, [Idle EXCEPT !.cur = i, !.pc = "wait"])
    /\ UNCHANGED <<res, ring, used, free, signalled, nextRes, nextFence>>

\* CtlMap of a resource that has a buffer and no pMdl; with one, the answer is UserAdderss.
CtlMap(t, i) ==
    /\ MayStart(t, "map") /\ i \in Known
    /\ res[i].kind # "fence" /\ ~res[i].mdl
    /\ To(t, [Idle EXCEPT !.cur = i, !.pc = IF res[i].event THEN "mapshare" ELSE "mapwait"])
    /\ UNCHANGED <<res, ring, used, free, signalled, nextRes, nextFence>>

\* CreateUserShareMemory: pMdl is set, or nothing is and CtlMap fails.  Without a valid
\* kernel address what it does depends on what the recycled VIRGL_RESOURCE held.
MapShare(t) ==
    /\ act[t].pc = "mapshare"
    /\ \/ /\ res' = [res EXCEPT ![act[t].cur].mdl = TRUE]
          /\ To(t, [act[t] EXCEPT !.pc = "mapuser"])
       \/ Return(t) /\ UNCHANGED res
    /\ UNCHANGED <<ring, used, free, signalled, nextRes, nextFence>>

\* MmMapLockedPagesSpecifyCache gives the client an address, or the MDL is freed and
\* CtlMap resets pMdl, also when it is another thread's: two threads may map a resource at
\* once, and the first MDL is then lost or freed twice, which is not modelled.
MapUser(t) ==
    /\ act[t].pc = "mapuser"
    /\ \/ UNCHANGED res
       \/ res' = [res EXCEPT ![act[t].cur].mdl = FALSE]
    /\ Return(t)
    /\ UNCHANGED <<ring, used, free, signalled, nextRes, nextFence>>

-----------------------------------------------------------------------------
(* The completion DPC, VirtioVgpuReadFromQueue.                             *)

\* virtqueue_get_buf, and the switch on the type of the command.
ReadFromQueue(d) ==
    /\ act[d].pc = "idle" /\ used # <<>>
    /\ used' = Tail(used)
    /\ LET cmd == Head(used)
       IN  To(d, CASE cmd.type \in {"submit", "xfer"} ->
                        [Idle EXCEPT !.cmd = cmd, !.todo = cmd.ids, !.pc = "update"]
                   [] cmd.type = "mapblob" -> [Idle EXCEPT !.cmd = cmd, !.pc = "callback"]
                   [] cmd.type = "other" -> Idle)
    /\ UNCHANGED <<res, ring, free, signalled, nextRes, nextFence>>

\* Slip: a command without resources is not finished.
FinishSkipsEmpty(d) ==
    /\ act[d].pc = "update" /\ act[d].todo = {}
    /\ To(d, Idle)
    /\ IF act[d].cmd.ids = {} THEN UNCHANGED <<signalled, free>>
       ELSE /\ signalled' = signalled \cup ({act[d].cmd.fence} \ {0})
            /\ free' = free \cup ({act[d].cmd.blk} \ {NoBlock})
    /\ UNCHANGED <<res, ring, used, nextRes, nextFence>>

\* Slip: the memory of a transfer, which has none, is freed too.
FinishFreesAlways(d) ==
    /\ act[d].pc = "update" /\ act[d].todo = {}
    /\ signalled' = signalled \cup ({act[d].cmd.fence} \ {0})
    /\ free' = free \cup {act[d].cmd.blk}
    /\ To(d, Idle)
    /\ UNCHANGED <<res, ring, used, nextRes, nextFence>>

\* After the resources: the fence object is set, the command's memory goes back
\* to VgpuMemory and the buffer is freed.  In one step: nothing here looks at the
\* block between the two.
FinishCommand(d) ==
    /\ act[d].pc = "update" /\ act[d].todo = {}
    /\ signalled' = signalled \cup ({act[d].cmd.fence} \ {0})
    /\ free' = free \cup ({act[d].cmd.blk} \ {NoBlock})
    /\ To(d, Idle)
    /\ UNCHANGED <<res, ring, used, nextRes, nextFence>>

\* MapBlobResourceCallback: if MmMapIoSpaceEx fails the event is not set.
MapBlobResourceCallback(d) ==
    /\ act[d].pc = "callback"
    /\ \E i \in act[d].cmd.ids :
          \/ /\ res' = [res EXCEPT ![i].va = TRUE, ![i].event = TRUE]
             /\ act' = Released([act EXCEPT ![d] = Idle], i)
          \/ "mapio" \in Faults /\ To(d, Idle) /\ UNCHANGED res
    /\ UNCHANGED <<ring, used, free, signalled, nextRes, nextFence>>

-----------------------------------------------------------------------------
Start(t) ==
    \/ \E kind \in {"fence", "buffer"} : CtlCreateResource(t, kind)
    \/ CtlCreateBlobResource(t)
    \/ \E i \in Ids : CtlTransferHost(t, i) \/ CtlWait(t, i) \/ CtlMap(t, i)
    \/ \E ids \in SUBSET Known, after \in 0..(nextFence - 1) : CtlSubmitCommand(t, ids, after)

Continue(t) ==
    \/ MapBlobResource(t) \/ TransferHost3D(t) \/ WaitInFence(t) \/ TakeCommandBuffer(t)
    \/ UpdateResourceState(t) \/ SubmitCommand(t) \/ MapShare(t) \/ MapUser(t)

Dpc(d) ==
    \/ ReadFromQueue(d) \/ UpdateResourceState(d) \/ FinishCommand(d)
    \/ MapBlobResourceCallback(d)

Next ==
    \/ \E t \in Threads : Start(t) \/ Continue(t)
    \/ \E d \in Dpcs : Dpc(d)
    \/ HostComplete

Spec == Init /\ [][Next]_vars

\* A started handler and the DPC keep running, and the host answers.  Clients may
\* stop issuing requests at any time.
Fairness ==
    /\ \A t \in Threads : WF_vars(Continue(t))
    /\ \A d \in Dpcs : WF_vars(Dpc(d))
    /\ WF_vars(HostComplete)

FairSpec == Spec /\ Fairness

-----------------------------------------------------------------------------
\* The types of the state, after any failure: only real blocks are free, only real
\* fences are set.
TypeOK ==
    /\ res \in [Ids -> Resource]
    /\ act \in [Actors -> Activity]
    /\ ring \in Seq(Command) /\ used \in Seq(Command)
    /\ free \subseteq Blocks
    /\ signalled \subseteq Fences
    /\ nextRes \in 1..(MaxRes + 1) /\ nextFence \in 1..(MaxFence + 1)

\* The commands that are prepared, queued, completed or being completed, each at
\* its place.
Places == {<<"act", a>> : a \in Actors} \cup {<<"ring", i>> : i \in 1..Len(ring)}
             \cup {<<"used", i>> : i \in 1..Len(used)}
At(p) == CASE p[1] = "act" -> act[p[2]].cmd
           [] p[1] = "ring" -> ring[p[2]]
           [] p[1] = "used" -> used[p[2]]

\* The memory of a command the host may still read is not free, and is neither
\* another command's nor a resource's, whatever fails and however completions are
\* ordered.
CommandMemoryExclusive ==
    \A p \in Places : At(p).blk # NoBlock =>
        /\ At(p).blk \notin free
        /\ \A q \in Places : p # q => At(q).blk # At(p).blk
        /\ \A i \in Ids : res[i].blk # At(p).blk

\* Without a fault no block is lost: each is free, a resource's or a command's.
NoBlockLeaked ==
    Blocks \subseteq free \cup {res[i].blk : i \in Ids} \cup {At(p).blk : p \in Places}

\* A fence object is set only after the host has completed its command.
SignalledMeansDone ==
    \A p \in Places : At(p).fence # 0 /\ p[1] # "act" => At(p).fence \notin signalled

\* The host does not see a command that was submitted behind an in-fence while
\* the command of that fence is still queued or waits for its DPC.
InFenceOrder ==
    \A p, q \in Places : p[1] = "ring" /\ At(p).after # 0 /\ q[1] \in {"ring", "used"}
        => At(q).fence # At(p).after

\* Where fence f is: its submission is with a handler, in the ring, completed but not
\* finished by a DPC, or gone.
FenceStage(f) ==
    IF f >= nextFence THEN "unissued"
    ELSE IF f \in signalled THEN "signalled"
    ELSE IF \E t \in Threads : act[t].cmd.fence = f THEN "preparing"
    ELSE IF \E i \in 1..Len(ring) : ring[i].fence = f THEN "queued"
    ELSE IF (\E i \in 1..Len(used) : used[i].fence = f) \/ \E d \in Dpcs : act[d].cmd.fence = f
         THEN "completed"
    ELSE "lost"

\* A handler can fail after it has taken a fence id: the probe, the copy, a full queue.
SubmissionsCanFail == {"probe", "pool"} \cap Faults # {} \/ RingSize <= MaxInFlight

Life == INSTANCE FenceLife WITH FenceIds <- 1..MaxFence, Lossy <- SubmissionsCanFail,
                                stage <- [f \in 1..MaxFence |-> FenceStage(f)]

\* CtlSubmitCommand, the queue, the host and the DPCs take every fence through FenceLife:
\* issued in order, queued, completed and set once each, and dropped only by a failure.
FenceLifeSpec == Life!Spec

\* What will set the event of resource i: a handler that has yet to push a
\* command naming it, such a command in the queue whose fence is not too old, or
\* the DPC that is completing one.
Setter(i) ==
    \/ \E t \in Threads : act[t].cmd.type # "other" /\ i \in act[t].cmd.ids
    \/ \E p \in Places : /\ p[1] # "act" /\ i \in At(p).ids
                         /\ At(p).fence = 0 \/ At(p).fence >= res[i].FenceId
    \/ \E d \in Dpcs : \/ act[d].pc = "callback" /\ i \in act[d].cmd.ids
                       \/ act[d].pc \in {"write", "event"} /\ act[d].cur = i
                       \/ /\ act[d].pc \in {"update", "write", "event"} /\ i \in act[d].todo
                          /\ act[d].cmd.fence = 0 \/ act[d].cmd.fence >= res[i].FenceId

\* A busy resource is never forgotten: something on its way will make it idle.
BusyHasSetter == \A i \in Ids : res[i].st # "none" /\ ~res[i].event => Setter(i)

\* "initialize blob resource as busy until map blob callback was completed"
\* (control.c:548): a blob whose event is set has been mapped.
BlobBusyUntilMapped ==
    \A i \in Ids : res[i].st # "none" /\ res[i].kind = "blob" /\ res[i].event => res[i].va

\* CtlMap shares a buffer only once its kernel address is there.
MapAfterBlobMapped == \A t \in Threads : act[t].pc = "mapshare" => res[act[t].cur].va

\* "backup these handles to make them idle later" (control.c:963): a busy resource
\* becomes idle.
BusyBecomesIdle == \A i \in Ids : (res[i].st = "known" /\ ~res[i].event) ~> res[i].event

\* CtlWait and CtlMap, which wait without a timeout, return.
WaitersReturn == \A t \in Threads : act[t].pc \in {"wait", "mapwait"} ~> act[t].pc = "idle"

\* The fence object of every fence id that was handed out is set.
FencesSignalled == \A f \in 1..MaxFence : f < nextFence ~> f \in signalled
=============================================================================
