# Verification of the Mvisor Windows vgpu driver

TLA+ models of the kernel-mode driver in `kernelmode/vgpu`, the TLC runs that
check them on small instances, and TLAPS proofs for every size. Paths below are
relative to `src/kernelmode/vgpu` unless they say otherwise.

## 1. The system

User-mode OpenGL (a patch of Mesa, `src/usermode`) talks to the driver by ioctl.
The driver keeps one *virgl context* per process, a list of *resources* in each
context, and pushes virtio-gpu commands to the host; a DPC handles what the host
has completed. The request queue is parallel (`vgpu.c:645`), so any number of
handlers run at once, with the DPC of each interrupt message beside them.

| Part | State | Operations | Talks to |
|---|---|---|---|
| page allocator, `memory.c` | bitmap, available size, last free index, one spin lock | initialise, uninitialise, allocate, free, shrink | handlers (resource backings, command buffers), DPC (frees) |
| id allocator, `idr.c` | per type a counter, a free list, a lock | initialise, uninitialise, get (with and without the free list), put | creation of resources, fenced submits |
| resources, `control.c`, `control.h` | per resource an event (set = idle), a fence id, a buffer, a user mapping | create, create blob, close, transfer, submit, wait, map | both allocators, the queue, the DPC |
| command queue, `command.c` | two virtqueues (control, command), a lock each | push, one function per command | host |
| completion DPC, `vgpu.c:53-175` | none of its own | fetch, switch on the type, free | resources, page allocator, waiting threads |
| contexts, `control.c:256-382`, `vgpu.c:36-51` | `VirglContextList`, one `ResourceList` per context | init, destroy, process exit | control queue, resources |
| capability sets, `control.c:143-254`, `command.c:103-157` | `Capsets` | get parameters, get capabilities (synchronous commands) | control queue, DPC |
| device lifecycle, `vgpu.c:347-664` | queues, memory block, lists, interrupts | add, prepare, D0 entry and exit, interrupt enable and disable, release, IoStop | everything |
| scatter-gather list, `command.c:78-101` | none | build | command queue |

What is hard to get right, and hard to reach by a test:

* `UpdateResourceState` compares, writes and signals without a lock, from
  handlers and DPCs at once;
* completions arrive in any order, and each one may make a resource idle;
* waits have no timeout, so anything lost (a push that did not fit, a mapping that
  failed) can block a handler for good;
* memory goes back to the pool without waiting for the host;
* checks and the changes that depend on them are often two critical sections;
* the table of capability sets is filled by whoever comes first, without a lock;
* the framework calls the release after a start that failed halfway, and stops the
  device while handlers wait for the host;
* the context list is walked without its lock by the handlers, and both the context and
  the resource lists by the DPC.

`PROJECT.json` lists these under "hazards", each at its line, with the properties
that catch it or the reason why none does yet.

What makes each part correct: the allocators hand out nothing twice and lose
nothing; memory of a command the host may read is not reused; a fence is set
after its command and in-fences order commands; a busy resource becomes idle and
waiters return; a blob is not used before it is mapped; the host ends up with
exactly the contexts and resources the driver lists, and never with one piece of
memory attached twice; a handler works on the context of its own process, however the
list changes while it is searched; a client sees the host's capability sets; a stop
completes and leaves nothing behind of what the start had set up.

## 2. Modules

| Module | Models | Notes |
|---|---|---|
| `PagePool` | what `memory.c` promises | abstract specification |
| `VgpuMemory` | `memory.c` | refines `PagePool` |
| `VgpuMemoryProofs` | | theorems about `VgpuMemory` |
| `Idr` | `idr.c` | |
| `IdrProofs` | | theorems about `Idr` |
| `FenceLife` | what the driver promises of a fence id | abstract specification |
| `VirglFence` | `control.h`, the resource handlers of `control.c`, `PushQueue`, the DPC | one context; refines `FenceLife` |
| `VirglFenceProofs` | | theorems about the memory and the fences in `VirglFence` |
| `VirglBusyProofs` | | theorems about busy and idle in `VirglFence` and its refinement of `FenceLife`; extends `VirglFenceProofs` |
| `VirglLifetime` | contexts, creation and deletion of resources, both queues, the host | several processes |
| `VirglLifetimeProofs` | | theorems about the driver's side of `VirglLifetime` |
| `VirglHostProofs` | | theorems about the host's side; extends `VirglLifetimeProofs` |
| `Capsets` | the capability sets, their synchronous commands, `BuildSGElement`, the DPC that wakes | several processes, restarts |
| `CapsetsProofs` | | theorems about `Capsets` |
| `DeviceLifecycle` | `DeviceAdd` to removal, interrupts, dispatch of requests, `IoStop` | the framework is external |
| `DeviceLifecycleProofs` | | theorems about `DeviceLifecycle` |
| `MC...` | constants for TLC | |

The definitions called *slips* in the modules are plausible mistakes in the code
they stand before. They are used by no specification: each is put in the place of
the definition that follows to see that a property notices.

### VgpuMemory

Sizes are pages: every caller rounds up to `PAGE_SIZE`. An *owner* is one
`MEMORY_DESCRIPTOR` with the call that fills or frees it. `AllocateVgpuMemory` is
three steps: the call, the comparison with `AvailableMemorySize` outside the lock
(`AllocateCheck`), the critical section (`AllocateLocked`). The other operations are
one critical section each. Initialisation may fail (`memory.c:45`); it tells nobody.

`RtlFindBits` is external: it is what `RtlFindClearBitsAndSet` and
`RtlFindSetBitsAndClear` are taken to do: the first run at or after the hint, else
the first from bit 0. Freeing depends on it (`memory.c:125`): with a search that
honours the hint only to its byte, `BitmapExact`, `Disjoint` and the refinement
fail, which is what the slip `FindBitsByByte` shows.

### Idr

One counter and one list per type, one action per function. The copied id is the
counter modulo the width of the type. `held` says which object carries which id;
`DropId` is the close that does not put the id back (`control.c:615`).

### VirglFence

Threads run `CtlCreateResource`, `CtlCreateBlobResource`, `CtlTransferHost`,
`CtlSubmitCommand`, `CtlWait` and `CtlMap`; DPCs run `VirtioVgpuReadFromQueue`.
`UpdateResourceState` is three steps per resource (compare, write `FenceId`, change
the event). A submit is: wait for the in-fence; allocate memory and a fence id, with
the failure of the probe after that; update each resource; copy the handles and push,
with both failures. `MapBlobResourceCallback` may fail to map. `CtlMap` is three steps:
the look at `pMdl` and at the event, the MDL (`MapShare`), the client's address or the reset
of `pMdl` (`MapUser`). Any thread may call it, two at once as well; what `pMdl` and the address are
worth then is nothing the driver sees to, and no property is stated of them. A DPC's
`KeSetEvent` of a fence and its `FreeVgpuMemory` are one step.
The host completes any command, or the oldest, as `HostInOrder` says. Handles are
used only after the ioctl that created them has returned. A memory block stands
for a region of `VgpuMemory`, whose exclusiveness that module establishes.
Resources are not closed here.

`FenceLife` is what a client with a fence may count on: the id is handed out in order, to one
submission, which is prepared, queued and completed once each before the fence object is set;
a submission may be dropped only if it is `Lossy`. `FenceStage` reads the stage of an id off the
handlers, the ring, the completed commands and the DPCs, and `SubmissionsCanFail` says when a
handler can fail after it has taken an id: the probe, the copy of the handles, or a ring that is
smaller than the load.

### VirglLifetime

Handlers are cut at every push and every change of a list or of the pool. The host
executes each queue in order, the two queues independently; a command for a
resource it does not have is an error and changes nothing. A queue has `RingSize` slots
and refuses a command when they are taken; the handlers do not notice, and `lost` records
that it has happened, because what the host holds is then anybody's guess. The pool
runs out as well: a creation that finds no block leaves its resource to the host
(`Abandoned`). The drain of a destroyed context holds `ResourceListSpinLock`; insertions
and removals wait for it.

A handler that uses a context searches `VirglContextList` without its lock
(`GetVirglContextFromListUnsafe`, `control.h:42-58`): each entry it comes to is a step (`WalkOn`, with
`walk` the entry it stands on), between which other processes insert, unlink and free theirs.
An entry that is unlinked keeps the `Flink` it had (`left`), so a walk that stands on it goes on
from there; if it was freed as well the walk may also end anyhow (`WalkAstray`), since its memory
may have been used again. The locked search of `GetVirglContextFromList` is one step (`Found`).

What the driver leaves to its clients is stated by two guards, neither of which it checks.
`MayUse`: no thread uses or creates the context of a process while another creates it, which
`virgl_screen_mutex` sees to in `virgl_drm_screen_create`
(`src/usermode/mesa-virgl-icd-for-windows.patch:2310-2388`). `Alone`: the destruction comes from
`DllMain` at `DLL_PROCESS_DETACH` (patch, 1598-1605), under no mutex, or from `ProcessNotify`; in
both cases the other threads of the process have ended. (A DLL that is unloaded while threads of its
process are inside the driver is not modelled.) A client closes a handle once (its references are counted).

### Capsets

`CtlGetParams` finds the table empty and runs `GetCapsInfo`, a synchronous command per
capset; nothing keeps a second call from doing the same at the same time. The stores into
an entry and the read and the write of the mask's `|=` are steps of their own.
`CtlGetCaps` reads the table when it scans, when it compares the size, when it builds the
command and when it copies. Sizes are in units of which `PAGE` make a page, so that
`BuildSGElement`, with its comparison that is one too weak, cuts a response into the
descriptors it would. Sizes are whatever the host says: the driver compares them with the
client's buffer and with nothing else. A response that needs more than the three elements left
of `sg` (`Fits`) has one written behind the array, which has the outcomes such a write can
have: the machine stops (`OverrunStops`, the state `"overrun"`), or the call goes on with a response that
is there or not (`Written`); with two elements too many the list is refused and the response
stays empty. A restart empties the table and the flag and keeps the mask; it comes when no
handler runs, while `IoStop` (see `DeviceLifecycle`) may let one outlive the table. The ids a request for a
context may name are small: `MAX_CAPSET_ID` is not reached.

### DeviceLifecycle

The framework (WDF) is external. It is taken to call `DeviceAdd`, `PrepareHardware`,
`D0Entry`, `InterruptEnable`, then to dispatch requests; to stop with `IoStop` for every
request the driver owns, `InterruptDisable`, `D0Exit`; then `D0Entry` again or
`ReleaseHardware`. `ReleaseHardware` also follows a `PrepareHardware` or a `D0Entry` that
failed, and no DPC runs after `InterruptDisable`. `held` is what is set up, `TearsDown`
what `ReleaseHardware` would tear down in this state, which depends on pointers for some things
and on nothing for others. A request is a handler that may push a command to one of
the queues and wait. Interrupts are messages, one per queue with one to spare, or a line;
an interrupt that is raised twice before the ISR runs, and a DPC that is queued twice, count
once. A handler that outlives the stop pushes through a queue that `D0Exit` has destroyed and a
lock array that the release has freed (`command.c:36-37`); of that `HandlerWaits` keeps only that no
command reaches the host.

## 3. Runs

All passing runs are exhaustive for their bounds.

| Run | Checks | Instance and why it is enough |
|---|---|---|
| `VgpuMemory` | `TypeOK`, `Disjoint`, `BitmapExact`, `InBlock`, `AvailExact`, `RefusedOnlyWhenFull`, `PoolSpec` | 3 owners, 8 pages (the least the 32K assertion admits), sizes 0, 1, 3, 4, 8, 9: fragmentation, wrap of the search, the exact fit, one too many, the empty size |
| `Idr` | `TypeOK`, `UniqueIds` | 3 holders, counters that run past the width of the smaller type |
| `FenceRobust` | `TypeOK`, `CommandMemoryExclusive`, `SignalledMeansDone`, `InFenceOrder`, `FenceLifeSpec` | 2 fenced threads, 2 DPCs, unordered host, 2 slots for up to 3 commands, every failure |
| `FenceBusy` | `BusyHasSetter`, `NoBlockLeaked`, `FenceLifeSpec` (no submission is `Lossy`) | 1 fenced and 1 unfenced thread, 2 DPCs, unordered host, no failure, 3 commands in flight on one resource |
| `FenceLive` | `BlobBusyUntilMapped`, `MapAfterBlobMapped`, `BusyBecomesIdle`, `WaitersReturn`, `FencesSignalled` | fair, blobs, 1 fenced and 1 unfenced thread, which both map, 1 DPC, host in order, no failure |
| `Lifetime` | `TypeOK`, `HostCommandsValid`, `HostMirrorsDriver`, `HostBackingExclusive`, `BlocksAccounted`, `WalkFindsContext` | 2 threads of a process and 1 of another, 2 contexts, so that a walk meets a foreign entry that is unlinked and freed under it, two resources of any kind, one block, so that it is reused and runs out, queues of 2 slots, so that they overflow |
| `Capsets` | `TypeOK`, `InitializedMeansFilled`, `CapsAnswered`, `AcceptedCapsetOffered`, `TableSettles`, `CallsReturn` | fair; 2 processes, 3 capsets, whose responses take exactly three elements, one more and two more, one restart, requests with the right and the wrong size, version and id |
| `Lifecycle` | `TypeOK`, `StoppedHoldsNothing`, `TornDownOnce`, `StopCompletes`, `CompletionsServed` | fair; 3 starts, `D0Entry` may fail, a request on each queue, messages and a line |

One resource is enough in the fence runs because `UpdateResourceState` treats the
resources of a command one by one and no property relates two resources; two
fences and three commands are the least with an older, an equal and a newer one on
the same resource. `Lifetime` has the `VIEW`
`UntilLost`: handlers see of the queues only whether they are full, which sets `lost`, and once that is set no
property speaks of the queues or of the host but for their types, so states that differ in nothing else are
one. Without it nine states in ten are of this kind.

`CHECK_DEADLOCK FALSE` is set where the system may stop: in `FenceRobust` a handler
waits for a fence whose submission failed, in `Lifetime` the processes have used up
their contexts and ended, in `Capsets` the overrun of `sg` has stopped the machine, in the
lifecycle runs the device is gone.

Runs that show a disagreement between the code and what it says:

| Run | Statement | What happens |
|---|---|---|
| `FenceTwoSubmitters` | "backup these handles to make them idle later", `control.c:963` | two fenced submitters interleave in `UpdateResourceState`; no failure is involved |
| `CapsetsMask` | "Bitmask of supported capability set ids", `ioctl.h:93` | two first calls interleave in the `|=` of the mask, and a client is told of fewer capsets than there are |
| `LifecycleFailedStart` | `ASSERT(Idrs[i].Initilaized)`, `idr.c:54`, `ASSERT(VgpuMemory.bInitialize)`, `memory.c:66` | `PrepareHardware` fails, or its bitmap does, and `ReleaseHardware` tears down what was never set up |
| `LifecycleIoStop` | "the driver owns the request and it will not be able to process it", `vgpu.c:574` | `IoStop` completes a request and so does its handler |

The assumptions under which `BusyBecomesIdle`, `BlobBusyUntilMapped` and the host
properties do hold are thereby explicit: one fenced submitter per resource at a
time, a queue with room, a mapping that succeeds, a host that completes in order
(for blobs), and clients that keep to the winsys discipline. Without the discipline two
threads of a process can both pass the check of `CtlInitVirglContext`, and two closes of one
handle free it twice. Two threads that map one resource can find `pMdl` without an address, and
one can reset or overwrite the other's; nothing keeps them apart, so this is a hazard
without a property. `CapsAnswered` promises the content of a capset whose response fits three pages.
With fewer slots than callers, `CallsReturn` fails: the push is refused and the wait has no
timeout. `TornDownOnce` holds when every `PrepareHardware` succeeds. Giving `FenceLive` a ring
of one slot, or the fault `mapio`, breaks `BusyBecomesIdle` and `BlobBusyUntilMapped`:
a submission that does not fit, or a mapping that fails, leaves nobody to set the event
or lets a submit set it. `UniqueIds` speaks of counters that have not passed the width of
their ids; after that the reserved id 0 and ids in use come out, and `Idr` goes that far.

### Fairness

`FairSpec` of `VirglFence` assumes weak fairness of every started handler (Windows
schedules it), of each DPC (`VirtioVgpuInterruptIsr` queues it for every interrupt and
it loops until the ring is empty) and of the host (it answers what it was given).
Clients are under no obligation to issue requests. Nothing is assumed of a waiting
thread: its wait ends only by the event. `Capsets` assumes the same of its handlers, host
and DPC. In `DeviceLifecycle` the framework goes on with a stop it has begun and calls `IoStop`
for every request, and the processor runs ISR and DPC; neither the host nor a handler is
assumed to move, so `StopCompletes` holds with a host that is silent.

## 4. Proofs

`VgpuMemoryProofs`, for every number of pages divisible by 8, every finite set of
owners and every set of sizes: `TypeCorrect`, `DisjointHolds`, `BitmapExactHolds`,
`InBlockHolds`, `AvailExactHolds`, `RefusedOnlyWhenFullHolds` and `ImplementsPool`
(the refinement, safety part being the whole of `PagePool`).
The invariant is the conjunction of the properties and `Closed` (nobody is inside
the allocator when the device is not prepared). It is needed as a whole: a free
searches for set bits from its own first page, and finds its own region because all
bits of the region are set (`BitmapExact`), belong to no one else (`Disjoint`) and
lie in the bitmap (`InBlock`); the range of the counter follows from its being exact
(`AvailExact`), not from the check before the lock. The main lemmas are `FindLemma`
(what a search returns), `FindTail` (a search from inside a held region finds the
rest of it), `SetRun` and `ClearRun` (cardinalities), `AllocatePreserves` and
`ReleasePreserves`. Assumptions: `NAssumption`, `RequestsAssumption`,
`OwnersAssumption`, and the behaviour of `RtlFindBits` above.

`IdrProofs`, for every set of types and holders and every width: `TypeCorrect` and
`UniqueIdsHolds`. The strengthening says that every id in use is below the counter
(`Behind`) and that nothing is in use while the allocator is shut down (`Closed`),
since initialisation starts the counters again.

`VirglFenceProofs`, for every number of threads, DPCs, blocks, resources, fences and ring
slots, every set of calls that may fail and a host that completes in any order:
`TypeCorrect`, `CommandMemoryExclusiveHolds`, `SignalledMeansDoneHolds` and
`InFenceOrderHolds`. A command is at one place (its handler, the
ring, the completed ones, its DPC), and a step moves it to one other place or drops it
(`Moved`), so what `IInv` says of the memory and the fences at two places is kept. `IInv` adds
to the properties that fence ids at places are below the counter and unsignalled
(`FencesFresh`), that an in-fence has been signalled once its handler is past the wait
(`AfterOK`), what an actor holds at each of its steps (`ActorOK`) and that the ids still to be
taken are within the bound (`FenceBudget`). Assumption: `ConstAssumption`.

`VirglBusyProofs` rests on that invariant and on `NInv`: the commands in flight are at most
one more than `MaxInFlight`, so a ring with more slots than that never refuses one; commands
name resources that are there, and transfers and submissions only those whose handle was
returned; the counters are ahead of what they number. The steps are reduced to a few shapes
(`Effects`): a handler that pushes, takes memory, creates, makes a resource busy or does none
of this; a step of `UpdateResourceState`; a DPC that fetches, calls back or finishes; the host.

* `NoBlockLeakedHolds`, when the probe and the copy of the handles do not fail and
  `RingSize > MaxInFlight`: every block has an owner (`LInv`).
* `BusyHasSetterHolds`, when the copy of the handles and the mapping of blobs do not fail,
  `RingSize > MaxInFlight` and at most one thread submits with fences (any number do so
  without): `BInv` says that a handler that has not pushed yet has the newest fence, and that
  each busy resource has a handler past its allocation that names it, a queued command that
  is not older than the resource's fence, or a DPC that has not yet passed it. A DPC passes a
  resource over only for a newer fence, whose command is then the one that sets the event.
  With two fenced submitters the first half is false and `FenceTwoSubmitters` shows the loss.
* `BlobBusyUntilMappedHolds` and `MapAfterBlobMappedHolds`, when mappings do not fail,
  `RingSize > MaxInFlight`, the host completes in order and there is one DPC: for a blob
  without an address, `MInv` has the map command in the queue, or its callback about to run,
  before every other command that names the blob. Each hypothesis is needed: out of order, on
  a second DPC, after a failed mapping or after a map command that found no slot, a transfer
  that names the blob sets its event first.
* `ImplementsFenceLife`, without a hypothesis: `VirglFence` implements `FenceLife`, with any
  number of fenced submitters and DPCs, any order of completions and any failure. By
  `FencesFresh` a fence is with one handler, in the ring once, or with the completed ones or a
  DPC once (`Singles`), so its place gives its stage (`Stages`); a released waiter carries no
  fence (`CarriesOn`), and each shape of `Effects` moves at most one fence, to the next stage.
  That a submission is not dropped when `SubmissionsCanFail` is false needs the bound on the
  load in `NInv`. In particular two fenced submitters, who can leave a resource busy for ever
  (`FenceTwoSubmitters`), still have each of their fences set only after its own command.

`VirglLifetimeProofs`, for every number of processes, threads, blocks, resources, contexts and
slots: `TypeCorrect`, `BlocksAccountedHolds` and `WalkFindsContextHolds`. In `DInv` the position of a
handler tells which context, resource and backing it has (`ContextOf`, `HeldOK`, `BackingOf`), a
resource is in one list, with one handler or given up (`ResourceOK`, `OneHolder`), and a live
context is listed or with the handler that destroys it (`LiveKept`). It depends on the client
discipline that `Alone` and `MayUse` state (`Screen`). `WInv` is about the walks. New contexts go to
the head, so the list runs from newest to oldest, and so does the `Flink` an unlinked entry was
left with: whatever was behind that entry and is still listed is behind its successor as well
(`LeftBehind`). A walk stands on a context that is newer than its own, which nobody
unlinks while it is searched for, so its own context stays ahead of it (`WalkOK`). Contexts that come in
are at the head, behind the walk. Were an unlinked entry cleared, or contexts inserted at the tail, this
would fail; the slip `UnlinkClears` shows the former. Assumption: `LifetimeAssumption`.

`VirglHostProofs`: `HostBackingExclusiveHolds`, `HostCommandsValidHolds` and
`HostMirrorsDriverHolds`, which say nothing once a full queue has refused a command (`lost`).
A resource has four stages (create, attach or map, detach or unmap, unref). What the driver
has pushed of them can be read off the resource and its holder (`Pushed`); the queue has the
last of these in order, the host has made the others (`QueueOK`, `HostOK`). Memory that
is attached anew was free, so the detach of its former resource was pushed before and is ahead
in the queue (`DetachedBefore`, `DetachedBetween`): this is why a free that does not wait
for the host is safe. Context commands are pushed by a thread that is alone in its process, so
the last one tells whether the host has the context (`HostContext`).

`CapsetsProofs`, for every host table, number of threads, slots and restarts: `TypeCorrect`,
`InitializedMeansFilledHolds`, `CapsAnsweredHolds`, `AcceptedCapsetOfferedHolds` and the action
property `TableSettlesHolds`. Every writer of an entry writes what the host says, so a field is zero
or final (`DataOK`), and what a thread has seen stays true until a restart, which waits for every
handler; a thread that fills the table has filled the entries behind it (`Filling`), one that
answers has compared nonzero fields (`Getting`). Of `BuildSGElement` the proofs use that its elements
are 1 to `PAGE` long and that a buffer that fits is described within the array (`SgLengths`): the
commands of `GetCapsInfo` always are, so what fills the table is the host's whatever the size of the
capsets, and a response of `GetCaps` comes whole if it fits (`Whole`, `WrittenWhole`).

`DeviceLifecycleProofs`, for every set of requests, faults, starts and messages: `TypeCorrect`,
`StoppedHoldsNothingHolds` and, when no `PrepareHardware` fails, `TornDownOnceHolds`. The first two
need that the pointer `ReleaseHardware` tests is never NULL while the block or the bitmap is
there (`PointerTells`), the last that everything is there from prepare to release
(`AllThere`).

Only model-checked: the liveness properties `BusyBecomesIdle`, `WaitersReturn`,
`FencesSignalled`, `CallsReturn`, `StopCompletes` and `CompletionsServed`: liveness under
fairness is out of the prover's reach. Every other property of the passing runs is a theorem.

## 5. Not modelled

* The DPC's unlocked walk of lists that a close or a destruction is changing, and with it the
  deletion of a blob before its callback: `VirglFence` has the DPC and closes nothing,
  `VirglLifetime` closes and has no DPC. The two together are beyond an exhaustive run.
* What is in the memory of a context that was freed under a handler's walk, once it is used again;
  a client that unloads the DLL, or destroys its context, while its threads are inside the driver.
* The MDLs of two threads that map one resource at once, one of which is lost or freed twice.
* What a handler that outlives the stop does with the queues, locks and tables that are gone.
* `ProcessNotify` between its registration and the initialisation of the list it walks
  (`vgpu.c:420`), and during `ReleaseHardware` (`vgpu.c:466-493`).
* Object references of fence events; physical addresses in scatter-gather elements.
* The fields of commands and of ioctl structures, and the checks of buffer sizes, which
  have no effect on state but an early return.
* `TransferToHost2D`, `Create2DResource`, `AttachResource`, `DetachResource`, which nothing
  calls.
* The user-mode patch, except for the discipline it imposes; the virtio and WDF
  libraries, except for what the driver sees of them.

## 6. Plan

Done: `PagePool`, `VgpuMemory`, `Idr`, `VirglFence` with `CtlMap` in steps, `VirglLifetime` with
full queues and the handlers' unlocked walks, `Capsets` with the overrun of `sg`, `DeviceLifecycle`, the refinement of `FenceLife`, and the proofs of all safety
properties of the passing runs.

Next, in order:

1. An abstract specification of a resource (busy, idle, with its set of commands)
   that `VirglFence` implements under the hypotheses of `BusyHasSetterHolds`.
2. The DPC's pointers into the lists, in a small module of its own.
