------------------------------ MODULE VgpuMemory ------------------------------
(***************************************************************************)
(* The page allocator of the driver (kernelmode/vgpu/memory.c).  One       *)
(* contiguous block of guest memory is cut into pages; a bitmap says which  *)
(* pages are in use.  Resource backings (CtlCreateResource) and command     *)
(* buffers (CtlSubmitCommand) are taken from it by handler threads and      *)
(* given back by handler threads and by the completion DPC, concurrently.   *)
(*                                                                         *)
(* Sizes are counted in pages: every caller rounds its size up to           *)
(* PAGE_SIZE first.  An owner stands for one MEMORY_DESCRIPTOR: the call    *)
(* that fills it, the region it then describes, and the call that frees it. *)
(***************************************************************************)
EXTENDS Integers, FiniteSets, FiniteSetsExt

CONSTANTS Owners,    \* memory descriptors in use at the same time
          N,         \* pages in the vgpu memory block
          Requests   \* sizes, in pages, that callers ask for

\* The ASSERT on the 32K alignment at memory.c:42.
ASSUME NAssumption == N \in Nat \ {0} /\ N % 8 = 0
\* Zero is a possible size: ROUND_UP of a size near 2^32 wraps to 0.
ASSUME RequestsAssumption == Requests \subseteq Nat
ASSUME OwnersAssumption == IsFiniteSet(Owners)

VARIABLES prepared,     \* PrepareHardware returned: handlers may run
          bInitialize,  \* VgpuMemory.bInitialize
          bitmap,       \* the set bits of VgpuMemory.RegionBitmap
          avail,        \* VgpuMemory.AvailableMemorySize
          lastFree,     \* VgpuMemory.LastFreeIndex
          pc,           \* where each owner's call is
          req,          \* the size its call asked for
          reg           \* the region its descriptor describes

mem == <<bitmap, avail, lastFree>>
owner == <<pc, req, reg>>
vars == <<prepared, bInitialize, bitmap, avail, lastFree, pc, req, reg>>

BITMAP_FAILED == -1    \* 0xFFFFFFFF, which is no index of the bitmap
Region == [start : 0..N, n : Nat]
NoRegion == [start |-> 0, n |-> 0]

\* The n pages that begin at page i.
Run(i, n) == i..(i + n - 1)

\* SizeOfBitMap: the structure is zeroed while the allocator is not initialised.
Size == IF bInitialize THEN N ELSE 0

\* Slip: the last position considered is one too far.
RunsInOffByOne(S, n) == {i \in 0..(Size - n + 1) : Run(i, n - 1) \subseteq S}

\* The positions at which n consecutive bits all lie in S.
RunsIn(S, n) == {i \in 0..(Size - n) : Run(i, n) \subseteq S}

\* Slip: the search does not start again from bit 0.
FindFromNoWrap(S, n, h) ==
    LET after == {i \in RunsIn(S, n) : i >= h}
    IN  IF after # {} THEN Min(after) ELSE BITMAP_FAILED

\* The first run of n bits of S at or after h, else the first of the bitmap.
FindFrom(S, n, h) ==
    LET runs == RunsIn(S, n)
        after == {i \in runs : i >= h}
    IN  IF after # {} THEN Min(after) ELSE IF runs # {} THEN Min(runs) ELSE BITMAP_FAILED

\* Slip: the hint is honoured only to the byte that holds it.
FindBitsByByte(S, n, hint) == FindFrom(S, n, (hint \div 8) * 8)

\* RtlFindClearBits and RtlFindSetBits.  For n = 0 they return the hint rounded
\* down to a byte; a hint past the end of the bitmap counts as 0.
RtlFindBits(S, n, hint) ==
    LET h == IF hint >= Size THEN 0 ELSE hint
    IN  IF n = 0 THEN (h \div 8) * 8 ELSE FindFrom(S, n, h)

ClearBits == (0..(N - 1)) \ bitmap

Init ==
    /\ prepared = FALSE
    /\ bInitialize = FALSE
    /\ bitmap = {}
    /\ avail = 0
    /\ lastFree = 0
    /\ pc = [o \in Owners |-> "idle"]
    /\ req = [o \in Owners |-> 0]
    /\ reg = [o \in Owners |-> NoRegion]

\* InitializeVgpuMemory.  When the bitmap buffer cannot be allocated it returns
\* without an error, and PrepareHardware carries on.
InitializeVgpuMemory(ok) ==
    /\ ~prepared
    /\ prepared' = TRUE
    /\ IF ok THEN bInitialize' = TRUE /\ bitmap' = {} /\ avail' = N /\ lastFree' = 0
             ELSE UNCHANGED <<bInitialize, mem>>
    /\ UNCHANGED owner

\* UninitializeVgpuMemory, called by ReleaseHardware once WDF has stopped the
\* request queue: no call is inside the allocator.  The regions still described
\* die with the block, which ReleaseHardware frees next.
UninitializeVgpuMemory ==
    /\ prepared
    /\ \A o \in Owners : pc[o] \in {"idle", "held"}
    /\ prepared' = FALSE
    /\ bInitialize' = FALSE
    /\ bitmap' = {} /\ avail' = 0 /\ lastFree' = 0
    /\ pc' = [o \in Owners |-> "idle"]
    /\ req' = [o \in Owners |-> 0]
    /\ reg' = [o \in Owners |-> NoRegion]

\* A handler calls AllocateVgpuMemory for n pages.
Call(o, n) ==
    /\ prepared
    /\ pc[o] = "idle"
    /\ pc' = [pc EXCEPT ![o] = "check"]
    /\ req' = [req EXCEPT ![o] = n]
    /\ UNCHANGED <<prepared, bInitialize, mem, reg>>

\* The comparison with AvailableMemorySize, made before the lock is taken.
AllocateCheck(o) ==
    /\ pc[o] = "check"
    /\ pc' = [pc EXCEPT ![o] = IF req[o] > avail THEN "idle" ELSE "lock"]
    /\ UNCHANGED <<prepared, bInitialize, mem, req, reg>>

\* Slip: the fast check is trusted, and the size of a failed search is taken off.
AllocateChargesFirst(o) ==
    LET index == RtlFindBits(ClearBits, req[o], lastFree)
    IN  /\ pc[o] = "lock"
        /\ avail' = avail - req[o]
        /\ IF index = BITMAP_FAILED
           THEN /\ pc' = [pc EXCEPT ![o] = "idle"]
                /\ UNCHANGED <<bitmap, lastFree, reg>>
           ELSE /\ pc' = [pc EXCEPT ![o] = "held"]
                /\ reg' = [reg EXCEPT ![o] = [start |-> index, n |-> req[o]]]
                /\ bitmap' = bitmap \cup Run(index, req[o])
                /\ lastFree' = index + req[o]
        /\ UNCHANGED <<prepared, bInitialize, req>>

\* The critical section of AllocateVgpuMemory.
AllocateLocked(o) ==
    LET index == RtlFindBits(ClearBits, req[o], lastFree)
    IN  /\ pc[o] = "lock"
        /\ IF index = BITMAP_FAILED
           THEN /\ pc' = [pc EXCEPT ![o] = "idle"]
                /\ UNCHANGED <<mem, reg>>
           ELSE /\ pc' = [pc EXCEPT ![o] = "held"]
                /\ reg' = [reg EXCEPT ![o] = [start |-> index, n |-> req[o]]]
                /\ bitmap' = bitmap \cup Run(index, req[o])
                /\ lastFree' = index + req[o]
                /\ avail' = avail - req[o]
        /\ UNCHANGED <<prepared, bInitialize, req>>

\* FreeVgpuMemory(VirtualAddress, Size) of the region o describes: it clears the
\* first set run at or after the region's first page, whosever pages those are.
FreeVgpuMemory(o) ==
    LET index == RtlFindBits(bitmap, reg[o].n, reg[o].start)
    IN  /\ pc[o] = "held"
        /\ pc' = [pc EXCEPT ![o] = "idle"]
        /\ reg' = [reg EXCEPT ![o] = NoRegion]
        /\ IF index = BITMAP_FAILED
           THEN UNCHANGED mem
           ELSE /\ bitmap' = bitmap \ Run(index, reg[o].n)
                /\ lastFree' = index
                /\ avail' = avail + reg[o].n
        /\ UNCHANGED <<prepared, bInitialize, req>>

\* ReallocVgpuMemory to target pages.  Only shrinking is implemented: it frees
\* the tail.  (An equal or larger target returns FALSE at once.)
ReallocVgpuMemory(o, target) ==
    LET change == reg[o].n - target
        index == RtlFindBits(bitmap, change, reg[o].start + target)
    IN  /\ pc[o] = "held"
        /\ target < reg[o].n
        /\ IF index = BITMAP_FAILED
           THEN UNCHANGED <<mem, reg>>
           ELSE /\ bitmap' = bitmap \ Run(index, change)
                /\ lastFree' = index
                /\ avail' = avail + change
                /\ reg' = [reg EXCEPT ![o].n = target]
        /\ UNCHANGED <<prepared, bInitialize, pc, req>>

Next ==
    \/ \E ok \in BOOLEAN : InitializeVgpuMemory(ok)
    \/ UninitializeVgpuMemory
    \/ \E o \in Owners :
          \/ \E n \in Requests : Call(o, n)
          \/ AllocateCheck(o)
          \/ AllocateLocked(o)
          \/ FreeVgpuMemory(o)
          \/ \E target \in Requests : ReallocVgpuMemory(o, target)

Spec == Init /\ [][Next]_vars

-----------------------------------------------------------------------------
\* The pages of the region an owner's descriptor describes.
Pages(o) == IF pc[o] = "held" THEN Run(reg[o].start, reg[o].n) ELSE {}

\* Types.  avail never leaves 0..N: the SIZE_T never wraps below zero.
TypeOK ==
    /\ prepared \in BOOLEAN
    /\ bInitialize \in BOOLEAN
    /\ bitmap \subseteq 0..(N - 1)
    /\ avail \in 0..N
    /\ lastFree \in 0..N
    /\ pc \in [Owners -> {"idle", "check", "lock", "held"}]
    /\ req \in [Owners -> Nat]
    /\ reg \in [Owners -> Region]

\* The pages each owner may use, seen by PagePool.
Pool == INSTANCE PagePool WITH PageSet <- 0..(N - 1), owned <- [o \in Owners |-> Pages(o)],
                              free <- ClearBits, open <- bInitialize

\* memory.c implements the page pool: whatever the search order and the
\* interleaving of calls, each successful call takes free pages only and each
\* free returns exactly the caller's own pages.
PoolSpec == Pool!Spec

\* No page is described by two descriptors: two resources, or a resource and a
\* command in flight, never share memory.
Disjoint == \A o1, o2 \in Owners : o1 # o2 => Pages(o1) \cap Pages(o2) = {}

\* The bitmap marks exactly the pages that some descriptor describes.  Freeing
\* a region by a search that begins at its first page releases that region and
\* no other, and nothing leaks.
BitmapExact == bitmap = UNION {Pages(o) : o \in Owners}

\* A region lies inside the block.
InBlock == \A o \in Owners : pc[o] = "held" => reg[o].start + reg[o].n <= Size

\* AvailableMemorySize counts the clear bits, although it is compared before the
\* lock is taken: two calls that both pass the check cannot drive it below zero.
AvailExact == avail + Cardinality(bitmap) = Size

\* AllocateVgpuMemory says FALSE only when no run of that many clear bits exists
\* at that moment: neither the unlocked check nor the search that begins at
\* LastFreeIndex refuses a request that could be met.
RefusedOnlyWhenFull ==
    [][\A o \in Owners : prepared' /\ pc[o] \in {"check", "lock"} /\ pc'[o] = "idle"
            => RunsIn(ClearBits, req[o]) = {}]_vars

=============================================================================
