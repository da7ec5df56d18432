---------------------------- MODULE VirglLifetime ----------------------------
(***************************************************************************)
(* The life of virgl contexts and of their resources: CtlInitVirglContext,    *)
(* CtlDestroyVirglContext (from the ioctl and from ProcessNotify), the         *)
(* creation and the closing of resources, and what the host makes of the       *)
(* commands they push.  Context commands go through CONTROL_QUEUE, resource    *)
(* commands through COMMAND_QUEUE; the host takes each queue in order.         *)
(*                                                                           *)
(* A handler is cut where another thread can see the difference: at every      *)
(* push, at every change of a list and at every change of the page pool, and   *)
(* while it looks for its context: the ioctl handlers walk VirglContextList     *)
(* without its lock, as other processes insert, unlink and free theirs.         *)
(*                                                                           *)
(* Clients.  The driver checks none of this: a process makes its context under  *)
(* virgl_screen_mutex, uses it when it is made, closes a handle once, and        *)
(* destroys the context from DllMain or by exiting, when its other threads have  *)
(* gone.                                                                       *)
(*                                                                           *)
(* Abstractions.  A memory block stands for a region of VgpuMemory.  Commands  *)
(* that read a resource (submit, transfer) belong to VirglFence.  The commands *)
(* here change nothing but their own buffer when they complete, so the host's  *)
(* execution of one and its completion are one step.                           *)
(***************************************************************************)
EXTENDS Integers, Sequences, FiniteSets, SequencesExt

CONSTANTS Procs,      \* process ids, which are the virgl context ids
          Threads,    \* threads that call the driver
          Proc,       \* the process of each thread
          Blocks,     \* memory blocks of VgpuMemory
          Kinds,      \* the kinds of resources this instance creates
          MaxCtx,     \* bound: VIRGL_CONTEXTs allocated
          MaxRes,     \* bound: resource ids handed out
          RingSize    \* slots of each queue

ASSUME LifetimeAssumption ==
    /\ Proc \in [Threads -> Procs]
    /\ Kinds \subseteq {"plain", "buffer", "blob"}
    /\ MaxCtx \in Nat /\ MaxRes \in Nat /\ RingSize \in Nat
    /\ "none" \notin Blocks

VARIABLES ctxList,    \* VirglContextList, head first
          ctx,        \* each VIRGL_CONTEXT
          res,        \* each VIRGL_RESOURCE, by its id
          act,        \* the handler each thread is in
          free,       \* free blocks of VgpuMemory
          control, command,   \* the two queues
          lost,       \* a full queue has refused a command
          walk,       \* the context each unlocked walk stands on, 0 at its start
          left,       \* the Flink each unlinked context was left with, 0 for the list's head
          hctx,       \* contexts the host has
          hres,       \* resources the host has
          nextCtx, nextRes

driver == <<ctxList, ctx, res>>
host == <<hctx, hres>>
queues == <<control, command, lost>>
walks == <<walk, left>>
vars == <<ctxList, ctx, res, act, free, control, command, lost, hctx, hres, nextCtx,
          nextRes, walk, left>>

CtxIds == 1..MaxCtx
Ids == 1..MaxRes
NoBlock == "none"

\* list: the ResourceList of the context, head first.
Context == [proc : Procs, list : Seq(Ids), freed : BOOLEAN]
\* st: "known" while a client holds the handle, "dead" once it is on the look-aside list.
Resource == [kind : {"plain", "buffer", "blob"}, blk : Blocks \cup {NoBlock},
             st : {"none", "new", "known", "closing", "dead"}]
NoResource == [kind |-> "plain", blk |-> NoBlock, st |-> "none"]
\* drain: the handler is inside the locked loop of CtlDestroyVirglContext.
Activity == [pc : {"idle", "init", "ctxcreate", "alloc", "attach", "insert", "mapblob", "remove",
                   "detach", "free", "unref", "unlink", "drain", "ctxdestroy"},
             ctx : CtxIds \cup {0}, res : Ids \cup {0}, drain : BOOLEAN]
Idle == [pc |-> "idle", ctx |-> 0, res |-> 0, drain |-> FALSE]

\* What the host has of a resource.
HostResource == [there : BOOLEAN, back : Blocks \cup {NoBlock}, mapped : BOOLEAN]
Absent == [there |-> FALSE, back |-> NoBlock, mapped |-> FALSE]

Init ==
    /\ ctxList = <<>> /\ ctx = <<>>
    /\ res = [i \in Ids |-> NoResource]
    /\ act = [t \in Threads |-> Idle]
    /\ free = Blocks
    /\ control = <<>> /\ command = <<>> /\ lost = FALSE
    /\ hctx = {} /\ hres = [i \in Ids |-> Absent]
    /\ nextCtx = 1 /\ nextRes = 1
    /\ walk = [t \in Threads |-> 0] /\ left = [c \in CtxIds |-> 0]

To(t, pc) == act' = [act EXCEPT ![t].pc = pc]
Return(t) == act' = [act EXCEPT ![t] = Idle]

\* GetVirglContextFromList, under the lock: the first context of t's process.
Listed(t) == {k \in DOMAIN ctxList : ctx[ctxList[k]].proc = Proc[t]}
Found(t) == ctxList[Min(Listed(t))]

\* t is in no handler.
Free(t) == act[t].pc = "idle" /\ walk[t] = 0

\* virgl_screen_mutex, and the use of a context only between its making and its destruction:
\* no thread of t's process is creating or destroying it.
InScreen(u) == act[u].drain \/ act[u].pc \in {"init", "ctxcreate", "unlink", "drain", "ctxdestroy"}
MayUse(t) == \A u \in Threads : Proc[u] = Proc[t] => ~InScreen(u)

\* DLL_PROCESS_DETACH, or ProcessNotify: the other threads of t's process have ended.
Alone(t) == \A u \in Threads \ {t} : Proc[u] = Proc[t] => Free(u)

\* ResourceListSpinLock of context c.
Locked(c) == \E t \in Threads : act[t].drain /\ act[t].ctx = c

\* PushQueue; the callers ignore that a full queue takes nothing.
PushQueue(queue, next, cmd) ==
    IF Len(queue) < RingSize THEN next = Append(queue, cmd) /\ UNCHANGED lost
    ELSE next = queue /\ lost' = TRUE
PushControl(cmd) == PushQueue(control, control', cmd)
PushCommand(cmd) == PushQueue(command, command', cmd)

-----------------------------------------------------------------------------
(* CtlInitVirglContext.                                                     *)

\* "virgl context has already been initialized" is returned unless the list has
\* no context of this process.
InitCheck(t) ==
    /\ Free(t) /\ Listed(t) = {} /\ nextCtx <= MaxCtx /\ MayUse(t)
    /\ To(t, "init")
    /\ UNCHANGED <<driver, free, queues, host, nextCtx, nextRes, walks>>

\* The new context goes to the head of the list.
InitInsert(t) ==
    /\ act[t].pc = "init" /\ nextCtx <= MaxCtx
    /\ ctx' = Append(ctx, [proc |-> Proc[t], list |-> <<>>, freed |-> FALSE])
    /\ ctxList' = <<nextCtx>> \o ctxList
    /\ nextCtx' = nextCtx + 1
    /\ To(t, "ctxcreate")
    /\ UNCHANGED <<res, free, queues, host, nextRes, walks>>

CreateVirglContext(t) ==
    /\ act[t].pc = "ctxcreate"
    /\ PushControl([op |-> "create", proc |-> Proc[t]])
    /\ Return(t)
    /\ UNCHANGED <<driver, free, command, host, nextCtx, nextRes, walks>>

-----------------------------------------------------------------------------
(* GetVirglContextFromListUnsafe, by the handlers of the ioctls that use a      *)
(* context.                                                                  *)

\* Entry.Flink: unlinking an entry leaves it with the one it had.
Flink(c) ==
    IF c \in Range(ctxList)
    THEN LET k == CHOOSE k \in DOMAIN ctxList : ctxList[k] = c
         IN  IF k < Len(ctxList) THEN ctxList[k + 1] ELSE 0
    ELSE left[c]

\* The handler begins, or goes on looking; the entry it comes to next.
Looking(t) == act[t].pc = "idle" /\ (walk[t] = 0 => MayUse(t) /\ Listed(t) # {})
Reaches(t) == IF walk[t] = 0 THEN Head(ctxList) ELSE Flink(walk[t])
Finds(t) == Looking(t) /\ ctx[Reaches(t)].proc = Proc[t]

\* The entry is another process's.
WalkOn(t) ==
    /\ Looking(t) /\ ctx[Reaches(t)].proc # Proc[t]
    /\ walk' = [walk EXCEPT ![t] = Reaches(t)]
    /\ UNCHANGED <<driver, act, free, queues, host, nextCtx, nextRes, left>>

\* The context under the walk has been freed.  If its memory is as it was the walk goes on;
\* if it has been used again the handler fails, or the machine does.
WalkAstray(t) ==
    /\ walk[t] # 0 /\ ctx[walk[t]].freed
    /\ walk' = [walk EXCEPT ![t] = 0]
    /\ UNCHANGED <<driver, act, free, queues, host, nextCtx, nextRes, left>>

-----------------------------------------------------------------------------
(* CtlCreateResource and CtlCreateBlobResource.                              *)

\* The context is found, the id is taken and the host's resource is created.
CreateResource(t, kind) ==
    /\ Finds(t) /\ nextRes <= MaxRes
    /\ res' = [res EXCEPT ![nextRes] = [NoResource EXCEPT !.kind = kind, !.st = "new"]]
    /\ nextRes' = nextRes + 1
    /\ PushCommand([op |-> "create", id |-> nextRes, blk |-> NoBlock])
    /\ act' = [act EXCEPT ![t] = [Idle EXCEPT !.ctx = Reaches(t), !.res = nextRes,
                                     !.pc = IF kind = "buffer" THEN "alloc" ELSE "insert"]]
    /\ walk' = [walk EXCEPT ![t] = 0]
    /\ UNCHANGED <<ctxList, ctx, free, control, host, nextCtx, left>>

\* AllocateVgpuMemory; if it fails the handler returns and the resource is lost.
AllocateBacking(t) ==
    /\ act[t].pc = "alloc"
    /\ \/ free = {} /\ Return(t) /\ UNCHANGED <<res, free>>
       \/ \E b \in free : /\ free' = free \ {b}
                          /\ res' = [res EXCEPT ![act[t].res].blk = b]
                          /\ To(t, "attach")
    /\ UNCHANGED <<ctxList, ctx, queues, host, nextCtx, nextRes, walks>>

AttachResourceBacking(t) ==
    /\ act[t].pc = "attach"
    /\ PushCommand([op |-> "attach", id |-> act[t].res, blk |-> res[act[t].res].blk])
    /\ To(t, "insert")
    /\ UNCHANGED <<driver, free, control, host, nextCtx, nextRes, walks>>

\* ExInterlockedInsertHeadList on the ResourceList.  The handle of a blob is
\* returned after one more push.
InsertResource(t) ==
    LET c == act[t].ctx
        i == act[t].res
    IN  /\ act[t].pc = "insert" /\ ~Locked(c)
        /\ ctx' = [ctx EXCEPT ![c].list = <<i>> \o ctx[c].list]
        /\ IF res[i].kind = "blob"
           THEN To(t, "mapblob") /\ UNCHANGED res
           ELSE Return(t) /\ res' = [res EXCEPT ![i].st = "known"]
        /\ UNCHANGED <<ctxList, free, queues, host, nextCtx, nextRes, walks>>

MapBlobResource(t) ==
    /\ act[t].pc = "mapblob"
    /\ PushCommand([op |-> "map", id |-> act[t].res, blk |-> NoBlock])
    /\ res' = [res EXCEPT ![act[t].res].st = "known"]
    /\ Return(t)
    /\ UNCHANGED <<ctxList, ctx, free, control, host, nextCtx, nextRes, walks>>

-----------------------------------------------------------------------------
(* CtlCloseResource and DeleteResource.                                      *)

\* The lookup.  A client closes a handle it holds, once: its references are counted.
CloseLookup(t, i) ==
    /\ Finds(t) /\ res[i].st = "known" /\ i \in Range(ctx[Reaches(t)].list)
    /\ res' = [res EXCEPT ![i].st = "closing"]
    /\ act' = [act EXCEPT ![t] = [Idle EXCEPT !.ctx = Reaches(t), !.res = i, !.pc = "remove"]]
    /\ walk' = [walk EXCEPT ![t] = 0]
    /\ UNCHANGED <<ctxList, ctx, free, queues, host, nextCtx, nextRes, left>>

\* DeleteResource begins.
DeletePc(i) == IF res[i].kind = "plain" THEN "unref" ELSE "detach"

\* Slip: the resource stays in the list.
CloseKeepsEntry(t) ==
    /\ act[t].pc = "remove" /\ ~Locked(act[t].ctx)
    /\ To(t, DeletePc(act[t].res))
    /\ UNCHANGED <<driver, free, queues, host, nextCtx, nextRes, walks>>

CloseRemove(t) ==
    LET c == act[t].ctx
    IN  /\ act[t].pc = "remove" /\ ~Locked(c)
        /\ ctx' = [ctx EXCEPT ![c].list = RemoveFirst(@, act[t].res)]
        /\ To(t, DeletePc(act[t].res))
        /\ UNCHANGED <<ctxList, res, free, queues, host, nextCtx, nextRes, walks>>

\* Slip: the host is not told that the backing goes away.
DetachForgotten(t) ==
    LET i == act[t].res
    IN  /\ act[t].pc = "detach"
        /\ IF res[i].kind = "blob"
           THEN PushCommand([op |-> "unmap", id |-> i, blk |-> NoBlock]) /\ To(t, "unref")
           ELSE To(t, "free") /\ UNCHANGED <<command, lost>>
        /\ UNCHANGED <<driver, free, control, host, nextCtx, nextRes, walks>>

\* Slip: the memory of a blob, which is the host's, is freed as well.
DetachFreesBlob(t) ==
    LET i == act[t].res
    IN  /\ act[t].pc = "detach"
        /\ PushCommand([op |-> IF res[i].kind = "blob" THEN "unmap" ELSE "detach", id |-> i,
                        blk |-> NoBlock])
        /\ To(t, "free")
        /\ UNCHANGED <<driver, free, control, host, nextCtx, nextRes, walks>>

\* UnMapBlobResource, or DetachResourceBacking.
DetachBacking(t) ==
    LET i == act[t].res
    IN  /\ act[t].pc = "detach"
        /\ IF res[i].kind = "blob"
           THEN PushCommand([op |-> "unmap", id |-> i, blk |-> NoBlock]) /\ To(t, "unref")
           ELSE PushCommand([op |-> "detach", id |-> i, blk |-> NoBlock]) /\ To(t, "free")
        /\ UNCHANGED <<driver, free, control, host, nextCtx, nextRes, walks>>

\* Slip: the block is dropped, not freed.
FreeForgotten(t) ==
    /\ act[t].pc = "free"
    /\ res' = [res EXCEPT ![act[t].res].blk = NoBlock]
    /\ To(t, "unref")
    /\ UNCHANGED <<ctxList, ctx, free, queues, host, nextCtx, nextRes, walks>>

\* FreeVgpuMemory, which does not wait for the host.
FreeBacking(t) ==
    LET i == act[t].res
    IN  /\ act[t].pc = "free"
        /\ free' = free \cup {res[i].blk}
        /\ res' = [res EXCEPT ![i].blk = NoBlock]
        /\ To(t, "unref")
        /\ UNCHANGED <<ctxList, ctx, queues, host, nextCtx, nextRes, walks>>

\* UnrefResource, and the VIRGL_RESOURCE goes back to its look-aside list.
UnrefResource(t) ==
    LET i == act[t].res
    IN  /\ act[t].pc = "unref"
        /\ PushCommand([op |-> "unref", id |-> i, blk |-> NoBlock])
        /\ res' = [res EXCEPT ![i].st = "dead"]
        /\ IF act[t].drain THEN act' = [act EXCEPT ![t].pc = "drain", ![t].res = 0] ELSE Return(t)
        /\ UNCHANGED <<ctxList, ctx, free, control, host, nextCtx, nextRes, walks>>

-----------------------------------------------------------------------------
(* CtlDestroyVirglContext: from IOCTL_VIRTIO_VGPU_DESTROY_CONTEXT, or from      *)
(* ProcessNotify when the last thread of the process has gone.                *)

DestroyLookup(t) ==
    /\ Free(t) /\ Listed(t) # {} /\ Alone(t)
    /\ act' = [act EXCEPT ![t] = [Idle EXCEPT !.ctx = Found(t), !.pc = "unlink"]]
    /\ UNCHANGED <<driver, free, queues, host, nextCtx, nextRes, walks>>

\* Slip: the links of the entry are cleared.
UnlinkClears(t) ==
    /\ act[t].pc = "unlink"
    /\ ctxList' = RemoveFirst(ctxList, act[t].ctx)
    /\ To(t, "drain")
    /\ UNCHANGED <<ctx, res, free, queues, host, nextCtx, nextRes, walks>>

\* RemoveEntryListUnsafe, under the lock.
DestroyUnlink(t) ==
    LET c == act[t].ctx
    IN  /\ act[t].pc = "unlink"
        /\ ctxList' = RemoveFirst(ctxList, c)
        /\ left' = [left EXCEPT ![c] = Flink(c)]
        /\ To(t, "drain")
        /\ UNCHANGED <<ctx, res, free, queues, host, nextCtx, nextRes, walk>>

\* Slip: the resources are left to themselves.
DrainForgotten(t) ==
    /\ act[t].pc = "drain"
    /\ act' = [act EXCEPT ![t].pc = "ctxdestroy", ![t].drain = FALSE]
    /\ UNCHANGED <<driver, free, queues, host, nextCtx, nextRes, walks>>

\* The loop under ResourceListSpinLock takes the tail of the list each time.
DestroyDrain(t) ==
    LET c == act[t].ctx
        list == ctx[c].list
    IN  /\ act[t].pc = "drain" /\ (act[t].drain \/ ~Locked(c))
        /\ IF list = <<>>
           THEN /\ act' = [act EXCEPT ![t].pc = "ctxdestroy", ![t].drain = FALSE]
                /\ UNCHANGED ctx
           ELSE /\ ctx' = [ctx EXCEPT ![c].list = Front(list)]
                /\ act' = [act EXCEPT ![t].pc = DeletePc(Last(list)), ![t].res = Last(list),
                                      ![t].drain = TRUE]
        /\ UNCHANGED <<ctxList, res, free, queues, host, nextCtx, nextRes, walks>>

\* The host is told, and the VIRGL_CONTEXT is freed.
DestroyVirglContext(t) ==
    /\ act[t].pc = "ctxdestroy"
    /\ PushControl([op |-> "destroy", proc |-> Proc[t]])
    /\ ctx' = [ctx EXCEPT ![act[t].ctx].freed = TRUE]
    /\ Return(t)
    /\ UNCHANGED <<ctxList, res, free, command, host, nextCtx, nextRes, walks>>

-----------------------------------------------------------------------------
(* The host.                                                                *)

HostControl ==
    /\ control # <<>>
    /\ control' = Tail(control)
    /\ hctx' = IF Head(control).op = "create" THEN hctx \cup {Head(control).proc}
               ELSE hctx \ {Head(control).proc}
    /\ UNCHANGED <<driver, act, free, command, lost, hres, nextCtx, nextRes, walks>>

\* A command for a resource the host does not have is answered with an error.
Execute(cmd, r) ==
    CASE cmd.op = "create" -> [r EXCEPT !.there = TRUE]
      [] cmd.op = "unref" -> Absent
      [] cmd.op = "attach" /\ r.there -> [r EXCEPT !.back = cmd.blk]
      [] cmd.op = "detach" -> [r EXCEPT !.back = NoBlock]
      [] cmd.op = "map" /\ r.there -> [r EXCEPT !.mapped = TRUE]
      [] cmd.op = "unmap" -> [r EXCEPT !.mapped = FALSE]
      [] OTHER -> r

HostCommand ==
    /\ command # <<>>
    /\ command' = Tail(command)
    /\ hres' = [hres EXCEPT ![Head(command).id] = Execute(Head(command), @)]
    /\ UNCHANGED <<driver, act, free, control, lost, hctx, nextCtx, nextRes, walks>>

-----------------------------------------------------------------------------
Handler(t) ==
    \/ WalkOn(t) \/ WalkAstray(t)
    \/ InitCheck(t) \/ InitInsert(t) \/ CreateVirglContext(t)
    \/ \E kind \in Kinds : CreateResource(t, kind)
    \/ AllocateBacking(t) \/ AttachResourceBacking(t) \/ InsertResource(t) \/ MapBlobResource(t)
    \/ \E i \in Ids : CloseLookup(t, i)
    \/ CloseRemove(t) \/ DetachBacking(t) \/ FreeBacking(t) \/ UnrefResource(t)
    \/ DestroyLookup(t) \/ DestroyUnlink(t) \/ DestroyDrain(t) \/ DestroyVirglContext(t)

Next == (\E t \in Threads : Handler(t)) \/ HostControl \/ HostCommand

Spec == Init /\ [][Next]_vars

-----------------------------------------------------------------------------
\* The types of the state: lists hold ids that were handed out, the pool holds
\* blocks, and a context never drops out of the table.
TypeOK ==
    /\ ctxList \in Seq(CtxIds)
    /\ ctx \in Seq(Context) /\ Len(ctx) = nextCtx - 1
    /\ res \in [Ids -> Resource]
    /\ act \in [Threads -> Activity]
    /\ free \subseteq Blocks
    /\ control \in Seq([op : {"create", "destroy"}, proc : Procs])
    /\ command \in Seq([op : {"create", "attach", "map", "detach", "unmap", "unref"}, id : Ids,
                        blk : Blocks \cup {NoBlock}])
    /\ lost \in BOOLEAN
    /\ hctx \subseteq Procs /\ hres \in [Ids -> HostResource]
    /\ nextCtx \in 1..(MaxCtx + 1) /\ nextRes \in 1..(MaxRes + 1)
    /\ walk \in [Threads -> CtxIds \cup {0}] /\ left \in [CtxIds -> CtxIds \cup {0}]

\* The host never has one block of guest memory attached to two resources, although
\* DeleteResource gives the block back without waiting for the host (control.c:135):
\* the detach is in the queue before the block can be taken again.
HostBackingExclusive ==
    ~lost => \A i, j \in Ids : i # j /\ hres[i].back # NoBlock => hres[i].back # hres[j].back

\* A command finds the resource it is about in the host, in the right state: created
\* once, attached, mapped, detached and unmapped only while it exists, and nothing
\* after its unref, whichever thread or loop deletes it; as long as no push is lost.
HostCommandsValid ==
    ~lost /\ command # <<>> =>
        LET cmd == Head(command)
            r == hres[cmd.id]
        IN  /\ cmd.op = "create" <=> ~r.there
            /\ cmd.op = "attach" => r.back = NoBlock
            /\ cmd.op = "detach" => r.back # NoBlock
            /\ cmd.op = "map" => ~r.mapped
            /\ cmd.op = "unmap" => r.mapped

\* The resources whose VIRGL_RESOURCE is in the list of a live context, and those that
\* CtlCreateResource gave up when the pool ran out, which nobody will ever unref.
InLists == UNION {Range(ctx[c].list) : c \in {d \in DOMAIN ctx : ~ctx[d].freed}}
Abandoned == {i \in Ids : res[i].st = "new" /\ \A t \in Threads : act[t].res # i}

\* When no handler runs and the host has caught up, the host has exactly the contexts and
\* the resources the driver lists (and the abandoned ones), with the same backing:
\* creation, closing, context destruction and process exit leave nothing else behind.
HostMirrorsDriver ==
    (\A t \in Threads : act[t].pc = "idle") /\ control = <<>> /\ command = <<>> /\ ~lost =>
        /\ hctx = {ctx[c].proc : c \in Range(ctxList)}
        /\ {i \in Ids : hres[i].there} = InLists \cup Abandoned
        /\ \A i \in InLists : hres[i].back = res[i].blk

\* A block is free or some resource's, never both and never two resources', even
\* when the queue is full or the pool runs out in the middle of a handler.
BlocksAccounted ==
    /\ \A i, j \in Ids : i # j /\ res[i].blk # NoBlock => res[i].blk # res[j].blk
    /\ {res[i].blk : i \in Ids} \ {NoBlock} = Blocks \ free

\* The unlocked walk of control.h:48 answers what the locked one would: it never runs past
\* the context of its process, and the one it takes is listed, although the entries it
\* stands on may be unlinked and freed under it and new ones come in behind it; as long as
\* the memory of a freed context it stands on is not used again.
WalkFindsContext ==
    \A t \in Threads : walk[t] # 0 =>
        /\ Reaches(t) # 0
        /\ ctx[Reaches(t)].proc = Proc[t] => Reaches(t) \in Range(ctxList)
=============================================================================
