--------------------------- MODULE VgpuMemoryProofs ---------------------------
(***************************************************************************)
(* Proofs about the page allocator, for every number of pages, owners and   *)
(* request sizes.                                                           *)
(*                                                                         *)
(* None of the properties is inductive alone.  A free is exact because the  *)
(* bits from its first page on are set (BitmapExact) and nobody else's      *)
(* (Disjoint) and inside the bitmap (InBlock); the counter stays in range   *)
(* because it counts the clear bits (AvailExact).                           *)
(***************************************************************************)
EXTENDS VgpuMemory, FiniteSetTheorems, TLAPS

\* Before PrepareHardware and after ReleaseHardware nobody uses the allocator.
Closed == ~prepared => ~bInitialize /\ \A o \in Owners : pc[o] = "idle"

\* The invariant that the steps preserve.
IInv == TypeOK /\ Closed /\ Disjoint /\ BitmapExact /\ InBlock /\ AvailExact

-----------------------------------------------------------------------------
\* A non-empty set of naturals has a least member, and Min finds it.
LEMMA MinLemma ==
    ASSUME NEW S, S \subseteq Nat, S # {}
    PROVE  Min(S) \in S /\ \A y \in S : Min(S) <= y
<1> DEFINE less == {ss \in Nat \X Nat : ss[1] < ss[2]}
<1>1. IsWellFoundedOn(less, Nat)
      BY NatLessThanWellFounded, Zenon DEF OpToRel
<1>2. PICK x \in S : \A y \in S : ~(<<y, x>> \in less)
      BY <1>1, WFMin, Zenon
<1>3. ASSUME NEW y \in S PROVE x <= y
  <2>1. x \in Nat /\ y \in Nat
        OBVIOUS
  <2>2. ~(<<y, x>> \in less)
        BY <1>2
  <2> QED BY <2>1, <2>2
<1>4. QED
      BY <1>3 DEF Min

\* What a search returns: a run of n bits of S inside the bitmap, or
\* BITMAP_FAILED, and then there is no such run.
LEMMA FindLemma ==
    ASSUME TypeOK, NEW S, NEW n \in Nat, NEW hint \in Nat
    PROVE  LET i == RtlFindBits(S, n, hint)
           IN  \/ i = BITMAP_FAILED /\ RunsIn(S, n) = {}
               \/ i \in Nat /\ i # BITMAP_FAILED /\ i + n <= Size /\ Run(i, n) \subseteq S
<1> DEFINE h == IF hint >= Size THEN 0 ELSE hint
           runs == RunsIn(S, n)
           after == {i \in runs : i >= h}
<1>0. Size \in Nat /\ h \in Nat /\ h <= Size
      BY NAssumption DEF TypeOK, Size
<1>1. CASE n = 0
  <2>1. RtlFindBits(S, n, hint) = (h \div 8) * 8
        BY <1>1 DEF RtlFindBits
  <2>2. (h \div 8) * 8 \in Nat /\ (h \div 8) * 8 <= h
        BY <1>0
  <2>3. Run((h \div 8) * 8, n) = {}
        BY <1>1, <2>2 DEF Run
  <2> QED BY <1>0, <1>1, <2>1, <2>2, <2>3 DEF BITMAP_FAILED
<1>2. CASE n # 0
  <2>1. RtlFindBits(S, n, hint) =
           IF after # {} THEN Min(after) ELSE IF runs # {} THEN Min(runs) ELSE BITMAP_FAILED
        BY <1>2 DEF RtlFindBits, FindFrom
  <2>2. runs \subseteq Nat /\ after \subseteq runs
        BY <1>0 DEF RunsIn
  <2>3. \A i \in runs : i + n <= Size /\ Run(i, n) \subseteq S /\ i # BITMAP_FAILED
        BY <1>0, <2>2 DEF RunsIn, BITMAP_FAILED
  <2>4. CASE after # {}
        BY <2>1, <2>2, <2>3, <2>4, MinLemma
  <2>5. CASE after = {} /\ runs # {}
        BY <2>1, <2>2, <2>3, <2>5, MinLemma
  <2>6. CASE runs = {}
        BY <2>1, <2>2, <2>6
  <2> QED BY <2>4, <2>5, <2>6
<1>3. QED BY <1>1, <1>2

\* A search whose hint begins a run returns the hint: this is why a region is
\* freed by searching from its own first page.
LEMMA FindAtHint ==
    ASSUME TypeOK, NEW S, NEW n \in Nat, n # 0, NEW hint \in Nat,
           hint + n <= Size, Run(hint, n) \subseteq S
    PROVE  RtlFindBits(S, n, hint) = hint
<1> DEFINE after == {i \in RunsIn(S, n) : i >= hint}
<1>0. Size \in Nat
      BY NAssumption DEF TypeOK, Size
<1>1. hint \in after /\ after \subseteq Nat
      BY <1>0 DEF RunsIn
<1>2. RtlFindBits(S, n, hint) = Min(after)
      BY <1>0, <1>1 DEF RtlFindBits, FindFrom
<1>3. Min(after) \in after /\ Min(after) <= hint
      BY <1>1, MinLemma
<1>4. QED BY <1>2, <1>3, <1>1

-----------------------------------------------------------------------------
\* The bitmap is a finite set of pages of the block.
LEMMA BitmapFinite ==
    ASSUME IInv
    PROVE  /\ Size \in Nat /\ Size <= N
           /\ bitmap \subseteq 0..(Size - 1)
           /\ IsFiniteSet(bitmap) /\ Cardinality(bitmap) \in Nat
<1>1. Size \in Nat /\ Size <= N
      BY NAssumption DEF IInv, TypeOK, Size
<1>2. \A o \in Owners : Pages(o) \subseteq 0..(Size - 1)
  <2> SUFFICES ASSUME NEW o \in Owners, pc[o] = "held"
               PROVE  Run(reg[o].start, reg[o].n) \subseteq 0..(Size - 1)
      BY DEF Pages
  <2>1. reg[o].start \in Nat /\ reg[o].n \in Nat /\ reg[o].start + reg[o].n <= Size
        BY NAssumption DEF IInv, TypeOK, InBlock, Region
  <2> QED BY <1>1, <2>1 DEF Run
<1>3. bitmap \subseteq 0..(Size - 1)
      BY <1>2 DEF IInv, BitmapExact
<1>4. IsFiniteSet(0..(Size - 1))
      BY <1>1, FS_Interval
<1>5. IsFiniteSet(bitmap)
      BY <1>3, <1>4, FS_Subset
<1>6. QED BY <1>1, <1>3, <1>5, FS_CardinalityType

\* A run has as many pages as its length.
LEMMA RunCardinality ==
    ASSUME NEW i \in Nat, NEW n \in Nat
    PROVE  IsFiniteSet(Run(i, n)) /\ Cardinality(Run(i, n)) = n
BY FS_Interval DEF Run

\* Setting a clear run, and clearing a set run, change the number of set bits by
\* the length of the run.
LEMMA SetRun ==
    ASSUME NEW S, IsFiniteSet(S), Cardinality(S) \in Nat, NEW i \in Nat, NEW n \in Nat,
           Run(i, n) \cap S = {}
    PROVE  Cardinality(S \cup Run(i, n)) = Cardinality(S) + n
<1>1. S \cap Run(i, n) = {}
      OBVIOUS
<1>2. IsFiniteSet(Run(i, n)) /\ Cardinality(Run(i, n)) = n
      BY RunCardinality
<1>3. Cardinality(S \cup Run(i, n)) =
         Cardinality(S) + Cardinality(Run(i, n)) - Cardinality(S \cap Run(i, n))
      BY <1>2, FS_Union
<1>4. QED BY <1>1, <1>2, <1>3, FS_EmptySet

\* Clearing a run of set bits takes its length off the number of set bits.
LEMMA ClearRun ==
    ASSUME NEW S, IsFiniteSet(S), Cardinality(S) \in Nat, NEW i \in Nat, NEW n \in Nat,
           Run(i, n) \subseteq S
    PROVE  Cardinality(S \ Run(i, n)) = Cardinality(S) - n
<1>1. S \cap Run(i, n) = Run(i, n)
      OBVIOUS
<1>2. Cardinality(Run(i, n)) = n
      BY RunCardinality
<1>3. Cardinality(S \ Run(i, n)) = Cardinality(S) - Cardinality(S \cap Run(i, n))
      BY FS_Difference
<1>4. QED BY <1>1, <1>2, <1>3

\* The accounting equation keeps the counter in range.
LEMMA AvailBound ==
    ASSUME NEW S, NEW sz \in Nat, S \subseteq 0..(sz - 1), NEW a \in Int,
           a + Cardinality(S) = sz
    PROVE  a \in 0..sz
<1>1. IsFiniteSet(0..(sz - 1)) /\ Cardinality(0..(sz - 1)) = sz
      BY FS_Interval
<1>2. Cardinality(S) <= sz /\ IsFiniteSet(S)
      BY <1>1, FS_Subset
<1>3. Cardinality(S) \in Nat
      BY <1>2, FS_CardinalityType
<1>4. QED BY <1>2, <1>3

-----------------------------------------------------------------------------
\* Taking a free run keeps every part of the invariant.
LEMMA AllocatePreserves ==
    ASSUME IInv, NEW o \in Owners, AllocateLocked(o)
    PROVE  IInv'
<1> DEFINE n == req[o]
           index == RtlFindBits(ClearBits, n, lastFree)
<1>0. /\ TypeOK /\ n \in Nat /\ lastFree \in Nat /\ avail \in Int
      /\ Size \in Nat /\ Size <= N /\ bitmap \subseteq 0..(Size - 1)
      /\ IsFiniteSet(bitmap) /\ Cardinality(bitmap) \in Nat
      /\ Size' = Size
      BY BitmapFinite, NAssumption DEF IInv, TypeOK, AllocateLocked, Size
<1>1. CASE index = BITMAP_FAILED
  <2>1. UNCHANGED <<prepared, bInitialize, bitmap, avail, lastFree, req, reg>>
        /\ pc' = [pc EXCEPT ![o] = "idle"] /\ pc[o] = "lock"
        BY <1>1 DEF AllocateLocked, mem
  <2>2. \A q \in Owners : Pages(q)' = Pages(q) /\ (pc'[q] = "held" <=> pc[q] = "held")
        BY <2>1 DEF IInv, TypeOK, Pages
  <2>3. TypeOK' BY <2>1 DEF IInv, TypeOK
  <2>4. Closed' BY <2>1 DEF IInv, TypeOK, Closed
  <2>5. Disjoint' BY <2>2 DEF IInv, Disjoint
  <2>6. BitmapExact' BY <2>1, <2>2 DEF IInv, BitmapExact
  <2>7. InBlock' BY <1>0, <2>1, <2>2 DEF IInv, InBlock
  <2>8. AvailExact' BY <1>0, <2>1 DEF IInv, AvailExact
  <2> QED BY <2>3, <2>4, <2>5, <2>6, <2>7, <2>8 DEF IInv
<1>2. CASE index # BITMAP_FAILED
  <2>1. /\ index \in Nat /\ index + n <= Size /\ Run(index, n) \subseteq ClearBits
        BY <1>0, <1>2, FindLemma
  <2>2. /\ UNCHANGED <<prepared, bInitialize, req>> /\ pc[o] = "lock"
        /\ pc' = [pc EXCEPT ![o] = "held"]
        /\ reg' = [reg EXCEPT ![o] = [start |-> index, n |-> n]]
        /\ bitmap' = bitmap \cup Run(index, n)
        /\ lastFree' = index + n
        /\ avail' = avail - n
        BY <1>2 DEF AllocateLocked
  <2>3. Run(index, n) \cap bitmap = {} /\ Run(index, n) \subseteq 0..(Size - 1)
        BY <1>0, <2>1 DEF ClearBits, Run
  <2>4. \A q \in Owners : Pages(q)' = IF q = o THEN Run(index, n) ELSE Pages(q)
        BY <2>2 DEF IInv, TypeOK, Pages
  <2>5. Pages(o) = {}
        BY <2>2 DEF Pages
  <2>6. AvailExact'
    <3>1. Cardinality(bitmap') = Cardinality(bitmap) + n
          BY <1>0, <2>1, <2>2, <2>3, SetRun
    <3> QED BY <1>0, <2>2, <3>1 DEF IInv, AvailExact
  <2>7. avail' \in 0..N
    <3>1. bitmap' \subseteq 0..(Size - 1)
          BY <1>0, <2>2, <2>3
    <3>2. avail' \in Int /\ avail' + Cardinality(bitmap') = Size
          BY <1>0, <2>2, <2>6 DEF AvailExact
    <3>3. avail' \in 0..Size
          BY <1>0, <3>1, <3>2, AvailBound
    <3> QED BY <1>0, <3>3, NAssumption
  <2>8. TypeOK'
    <3>0. 0..(Size - 1) \subseteq 0..(N - 1)
          BY <1>0, NAssumption
    <3>1. lastFree' \in 0..N /\ bitmap' \subseteq 0..(N - 1)
      <4>1. lastFree' \in 0..N
            BY <1>0, <2>1, <2>2, NAssumption
      <4>2. bitmap' \subseteq 0..(N - 1)
            BY <1>0, <2>2, <2>3, <3>0
      <4> QED BY <4>1, <4>2
    <3>2. [start |-> index, n |-> n] \in Region
          BY <1>0, <2>1, NAssumption DEF Region
    <3> QED BY <2>2, <2>7, <3>1, <3>2 DEF IInv, TypeOK
  <2>9. Closed'
        BY <2>2 DEF IInv, TypeOK, Closed
  <2>10. Disjoint'
    <3>1. \A q \in Owners : Pages(q) \cap Run(index, n) = {}
          BY <2>3 DEF IInv, BitmapExact
    <3> QED BY <2>4, <3>1 DEF IInv, Disjoint
  <2>11. BitmapExact'
        BY <2>2, <2>4, <2>5 DEF IInv, BitmapExact
  <2>12. InBlock'
        BY <1>0, <2>1, <2>2 DEF IInv, TypeOK, InBlock
  <2> QED BY <2>6, <2>8, <2>9, <2>10, <2>11, <2>12 DEF IInv
<1>3. QED BY <1>1, <1>2

\* Giving back the tail of a region, or all of it, keeps every part of it.
LEMMA ReleasePreserves ==
    ASSUME IInv, NEW o \in Owners, pc[o] = "held", NEW t \in Nat, t <= reg[o].n,
           UNCHANGED <<prepared, bInitialize, req>>, lastFree' \in 0..N,
           pc' = [pc EXCEPT ![o] = pc'[o]], pc'[o] \in {"held", "idle"},
           reg' = [reg EXCEPT ![o] = reg'[o]], reg'[o] \in Region,
           pc'[o] = "held" => reg'[o] = [start |-> reg[o].start, n |-> t],
           pc'[o] = "idle" => t = 0,
           bitmap' = bitmap \ Run(reg[o].start + t, reg[o].n - t),
           avail' = avail + (reg[o].n - t)
    PROVE  IInv'
<1> DEFINE s == reg[o].start
           n == reg[o].n
           tail == Run(s + t, n - t)
<1>0. /\ Size \in Nat /\ Size <= N /\ bitmap \subseteq 0..(Size - 1)
      /\ IsFiniteSet(bitmap) /\ Cardinality(bitmap) \in Nat
      /\ Size' = Size /\ avail \in Int
      BY BitmapFinite DEF IInv, TypeOK, Size
<1>1. s \in Nat /\ n \in Nat /\ s + n <= Size /\ s + t \in Nat /\ n - t \in Nat
      BY NAssumption DEF IInv, TypeOK, InBlock, Region
<1>2. Pages(o) = Run(s, n) /\ tail \subseteq Run(s, n) /\ Run(s, t) = Run(s, n) \ tail
      BY <1>1 DEF Pages, Run
<1>3. tail \subseteq bitmap
      BY <1>2 DEF IInv, BitmapExact
<1>4. ASSUME NEW q \in Owners
      PROVE  Pages(q)' = IF q = o THEN Pages(o) \ tail ELSE Pages(q)
  <2>1. CASE q # o
        BY <2>1 DEF IInv, TypeOK, Pages
  <2>2. CASE q = o /\ pc'[o] = "held"
        BY <1>2, <2>2 DEF Pages
  <2>3. CASE q = o /\ pc'[o] = "idle"
    <3>1. Run(s, t) = {}
          BY <1>1, <2>3 DEF Run
    <3> QED BY <1>2, <2>3, <3>1 DEF Pages
  <2> QED BY <2>1, <2>2, <2>3
<1>5. \A q \in Owners : q # o => Pages(q) \cap tail = {}
      BY <1>2 DEF IInv, Disjoint
<1>6. AvailExact'
  <2>1. Cardinality(bitmap') = Cardinality(bitmap) - (n - t)
        BY <1>0, <1>1, <1>3, ClearRun
  <2> QED BY <1>0, <1>1, <2>1 DEF IInv, AvailExact
<1>7. TypeOK'
  <2>1. avail' \in Int /\ avail' + Cardinality(bitmap') = Size
        BY <1>0, <1>1, <1>6 DEF AvailExact
  <2>2. avail' \in 0..Size
        BY <1>0, <2>1, AvailBound
  <2>3. avail' \in 0..N
        BY <1>0, <2>2, NAssumption
  <2>4. bitmap' \subseteq 0..(N - 1)
        BY DEF IInv, TypeOK
  <2>5. pc' \in [Owners -> {"idle", "check", "lock", "held"}] /\ reg' \in [Owners -> Region]
        BY DEF IInv, TypeOK
  <2> QED BY <2>3, <2>4, <2>5 DEF IInv, TypeOK
<1>8. Closed'
      BY DEF IInv, TypeOK, Closed
<1>9. Disjoint'
      BY <1>4 DEF IInv, Disjoint
<1>10. BitmapExact'
      BY <1>4, <1>5 DEF IInv, BitmapExact
<1>11. InBlock'
  <2> SUFFICES ASSUME NEW q \in Owners, pc'[q] = "held"
               PROVE  reg'[q].start + reg'[q].n <= Size
      BY <1>0 DEF InBlock
  <2>1. CASE q = o
        BY <1>0, <1>1, <2>1
  <2>2. CASE q # o
        BY <2>2 DEF IInv, TypeOK, InBlock
  <2> QED BY <2>1, <2>2
<1>12. QED BY <1>6, <1>7, <1>8, <1>9, <1>10, <1>11 DEF IInv

\* Searching from a page of a held region finds exactly the rest of the region.
LEMMA FindTail ==
    ASSUME IInv, NEW o \in Owners, pc[o] = "held", NEW t \in Nat, t <= reg[o].n
    PROVE  LET c == reg[o].n - t
               hint == reg[o].start + t
               i == RtlFindBits(bitmap, c, hint)
           IN  i # BITMAP_FAILED /\ i \in 0..N /\ Run(i, c) = Run(hint, c)
<1> DEFINE s == reg[o].start
           n == reg[o].n
           c == n - t
           hint == s + t
           i == RtlFindBits(bitmap, c, hint)
<1>0. Size \in Nat /\ Size <= N /\ TypeOK
      BY BitmapFinite DEF IInv
<1>1. s \in Nat /\ n \in Nat /\ s + n <= Size /\ hint \in Nat /\ c \in Nat
      BY NAssumption DEF IInv, TypeOK, InBlock, Region
<1>2. Run(hint, c) \subseteq bitmap
  <2>1. Run(hint, c) \subseteq Run(s, n)
        BY <1>1 DEF Run
  <2>2. Run(s, n) \subseteq bitmap
        BY DEF IInv, BitmapExact, Pages
  <2> QED BY <2>1, <2>2
<1>3. CASE c # 0
  <2>1. i = hint
        BY <1>0, <1>1, <1>2, <1>3, FindAtHint
  <2>2. hint # BITMAP_FAILED /\ hint \in 0..N
        BY <1>0, <1>1, NAssumption DEF BITMAP_FAILED
  <2> QED BY <2>1, <2>2
<1>4. CASE c = 0
  <2>1. RunsIn(bitmap, c) # {}
    <3>1. 0 \in 0..(Size - c) /\ Run(0, c) = {}
          BY <1>0, <1>4 DEF Run
    <3> QED BY <3>1 DEF RunsIn
  <2>2. i \in Nat /\ i # BITMAP_FAILED /\ i + c <= Size
        BY <1>0, <1>1, <2>1, FindLemma
  <2>3. Run(i, c) = {} /\ Run(hint, c) = {}
        BY <1>1, <1>4, <2>2 DEF Run
  <2>4. i \in 0..N
        BY <1>0, <1>4, <2>2, NAssumption
  <2> QED BY <2>2, <2>3, <2>4
<1>5. QED BY <1>3, <1>4

\* Zero and the whole block are sizes of the block.
LEMMA SizeFacts == N \in Nat /\ 0 \in 0..N /\ N \in 0..N /\ NoRegion \in Region
<1>1. N \in Nat
      BY NAssumption
<1>2. QED BY <1>1 DEF NoRegion, Region

\* FreeVgpuMemory preserves the invariant: the search from the first page of a held
\* region finds that region.
LEMMA FreePreserves ==
    ASSUME IInv, NEW o \in Owners, FreeVgpuMemory(o)
    PROVE  IInv'
<1> DEFINE n == reg[o].n
           hint == reg[o].start
           index == RtlFindBits(bitmap, n, hint)
<1>0. hint \in Nat /\ n \in Nat /\ pc[o] = "held" /\ avail \in Int
      BY NAssumption DEF IInv, TypeOK, Region, FreeVgpuMemory
<1>1. hint + 0 = hint /\ n - 0 = n
      BY <1>0
<1>2. index # BITMAP_FAILED /\ index \in 0..N /\ Run(index, n) = Run(hint, n)
      BY <1>0, <1>1, FindTail
<1>3. /\ UNCHANGED <<prepared, bInitialize, req>>
      /\ pc' = [pc EXCEPT ![o] = "idle"] /\ pc'[o] = "idle"
      /\ reg' = [reg EXCEPT ![o] = NoRegion] /\ reg'[o] = NoRegion
      /\ bitmap' = bitmap \ Run(hint, n)
      /\ lastFree' \in 0..N
      /\ avail' = avail + n
      BY <1>2 DEF FreeVgpuMemory, IInv, TypeOK
<1>4. /\ pc' = [pc EXCEPT ![o] = pc'[o]] /\ pc'[o] \in {"held", "idle"}
      /\ reg' = [reg EXCEPT ![o] = reg'[o]] /\ reg'[o] \in Region
      BY <1>3, SizeFacts
<1>5. /\ 0 \in Nat /\ 0 <= reg[o].n
      /\ pc'[o] = "held" => reg'[o] = [start |-> reg[o].start, n |-> 0]
      /\ bitmap' = bitmap \ Run(reg[o].start + 0, reg[o].n - 0)
      /\ avail' = avail + (reg[o].n - 0)
      BY <1>0, <1>1, <1>3
<1>6. QED
      BY <1>0, <1>3, <1>4, <1>5, ReleasePreserves

\* ReallocVgpuMemory preserves the invariant: it gives back the tail it asked for.
LEMMA ReallocPreserves ==
    ASSUME IInv, NEW o \in Owners, NEW target \in Requests, ReallocVgpuMemory(o, target)
    PROVE  IInv'
<1> DEFINE c == reg[o].n - target
           hint == reg[o].start + target
           index == RtlFindBits(bitmap, c, hint)
<1>0. reg[o].start \in 0..N /\ reg[o].n \in Nat /\ pc[o] = "held" /\ avail \in Int
      BY NAssumption DEF IInv, TypeOK, Region, ReallocVgpuMemory
<1>1. target \in Nat /\ target <= reg[o].n
      BY <1>0, RequestsAssumption DEF ReallocVgpuMemory
<1>2. index # BITMAP_FAILED /\ index \in 0..N /\ Run(index, c) = Run(hint, c)
      BY <1>0, <1>1, FindTail
<1>3. /\ UNCHANGED <<prepared, bInitialize, req, pc>>
      /\ reg' = [reg EXCEPT ![o].n = target]
      /\ bitmap' = bitmap \ Run(hint, c)
      /\ lastFree' \in 0..N
      /\ avail' = avail + c
      BY <1>2 DEF ReallocVgpuMemory
<1>4. /\ reg'[o] = [start |-> reg[o].start, n |-> target]
      /\ reg' = [reg EXCEPT ![o] = reg'[o]]
      /\ reg'[o] \in Region
      BY <1>0, <1>1, <1>3 DEF IInv, TypeOK, Region
<1>5. pc' = [pc EXCEPT ![o] = pc'[o]] /\ pc'[o] = "held"
      BY <1>0, <1>3 DEF IInv, TypeOK
<1>6. QED
      BY <1>0, <1>1, <1>3, <1>4, <1>5, ReleasePreserves

\* The invariant holds before PrepareHardware.
LEMMA InitIInv == Init => IInv
<1> SUFFICES ASSUME Init PROVE IInv
    OBVIOUS
<1> USE DEF Init
<1>1. TypeOK
      BY SizeFacts DEF TypeOK
<1>2. \A o \in Owners : Pages(o) = {}
      BY DEF Pages
<1>3. Closed /\ Disjoint /\ InBlock
      BY <1>2 DEF Closed, Disjoint, InBlock
<1>4. BitmapExact
      BY <1>2 DEF BitmapExact
<1>5. AvailExact
      BY FS_EmptySet DEF AvailExact, Size
<1>6. QED BY <1>1, <1>3, <1>4, <1>5 DEF IInv

\* Every step of the allocator preserves the invariant.
LEMMA NextIInv == IInv /\ [Next]_vars => IInv'
<1> SUFFICES ASSUME IInv, [Next]_vars PROVE IInv'
    OBVIOUS
<1>1. ASSUME NEW ok \in BOOLEAN, InitializeVgpuMemory(ok) PROVE IInv'
  <2>1. /\ ~prepared /\ ~bInitialize /\ prepared' = TRUE /\ UNCHANGED owner
        /\ \A o \in Owners : pc[o] = "idle" /\ Pages(o) = {} /\ Pages(o)' = {}
        BY <1>1 DEF InitializeVgpuMemory, IInv, Closed, Pages, owner
  <2>2. bitmap = {}
        BY <2>1 DEF IInv, BitmapExact
  <2>3. TypeOK'
        BY <1>1, <2>1, SizeFacts DEF InitializeVgpuMemory, IInv, TypeOK, mem, owner
  <2>4. Closed' /\ Disjoint' /\ InBlock'
        BY <2>1 DEF Closed, Disjoint, InBlock, owner
  <2>5. bitmap' = {}
        BY <1>1, <2>2 DEF InitializeVgpuMemory, mem
  <2>6. BitmapExact'
        BY <2>1, <2>5 DEF BitmapExact
  <2>7. AvailExact'
    <3>1. CASE ok
          BY <1>1, <2>5, <3>1, FS_EmptySet, NAssumption DEF InitializeVgpuMemory, AvailExact, Size
    <3>2. CASE ~ok
          BY <1>1, <3>2 DEF InitializeVgpuMemory, AvailExact, Size, mem, IInv
    <3> QED BY <3>1, <3>2
  <2> QED BY <2>3, <2>4, <2>6, <2>7 DEF IInv
<1>2. CASE UninitializeVgpuMemory
  <2> USE <1>2 DEF UninitializeVgpuMemory
  <2>1. TypeOK'
        BY SizeFacts DEF IInv, TypeOK
  <2>2. \A o \in Owners : Pages(o)' = {}
        BY DEF Pages
  <2>3. Closed' /\ Disjoint' /\ InBlock'
        BY <2>2 DEF Closed, Disjoint, InBlock
  <2>4. BitmapExact'
        BY <2>2 DEF BitmapExact
  <2>5. AvailExact'
        BY FS_EmptySet DEF AvailExact, Size
  <2> QED BY <2>1, <2>3, <2>4, <2>5 DEF IInv
<1>3. ASSUME NEW o \in Owners, NEW n \in Requests, Call(o, n) PROVE IInv'
  <2>1. /\ UNCHANGED <<prepared, bInitialize, bitmap, avail, lastFree, reg>> /\ prepared
        /\ pc' = [pc EXCEPT ![o] = "check"] /\ pc[o] = "idle"
        /\ req' = [req EXCEPT ![o] = n]
        BY <1>3 DEF Call, mem
  <2>2. \A q \in Owners : Pages(q)' = Pages(q) /\ (pc'[q] = "held" <=> pc[q] = "held")
        BY <2>1 DEF IInv, TypeOK, Pages
  <2>3. TypeOK' BY <2>1, RequestsAssumption DEF IInv, TypeOK
  <2>4. Closed' BY <2>1 DEF IInv, Closed
  <2>5. Disjoint' BY <2>2 DEF IInv, Disjoint
  <2>6. BitmapExact' BY <2>1, <2>2 DEF IInv, BitmapExact
  <2>7. InBlock' BY <2>1, <2>2 DEF IInv, InBlock, Size
  <2>8. AvailExact' BY <2>1 DEF IInv, AvailExact, Size
  <2> QED BY <2>3, <2>4, <2>5, <2>6, <2>7, <2>8 DEF IInv
<1>4. ASSUME NEW o \in Owners, AllocateCheck(o) PROVE IInv'
  <2>1. /\ UNCHANGED <<prepared, bInitialize, bitmap, avail, lastFree, req, reg>>
        /\ pc' = [pc EXCEPT ![o] = pc'[o]] /\ pc[o] = "check" /\ pc'[o] \in {"idle", "lock"}
        BY <1>4 DEF AllocateCheck, mem, IInv, TypeOK
  <2>2. \A q \in Owners : Pages(q)' = Pages(q) /\ (pc'[q] = "held" <=> pc[q] = "held")
        BY <2>1 DEF IInv, TypeOK, Pages
  <2>3. TypeOK' BY <2>1 DEF IInv, TypeOK
  <2>4. Closed' BY <2>1 DEF IInv, Closed
  <2>5. Disjoint' BY <2>2 DEF IInv, Disjoint
  <2>6. BitmapExact' BY <2>1, <2>2 DEF IInv, BitmapExact
  <2>7. InBlock' BY <2>1, <2>2 DEF IInv, InBlock, Size
  <2>8. AvailExact' BY <2>1 DEF IInv, AvailExact, Size
  <2> QED BY <2>3, <2>4, <2>5, <2>6, <2>7, <2>8 DEF IInv
<1>5. CASE UNCHANGED vars
      BY <1>5 DEF vars, IInv, TypeOK, Closed, Disjoint, BitmapExact, InBlock, AvailExact, Pages, Size
<1>6. QED
      BY <1>1, <1>2, <1>3, <1>4, <1>5, AllocatePreserves, FreePreserves, ReallocPreserves DEF Next

\* The invariant holds in every reachable state.
THEOREM IInvHolds == Spec => []IInv
BY InitIInv, NextIInv, PTL DEF Spec

\* Type correctness; in particular AvailableMemorySize stays in 0..N.
THEOREM TypeCorrect == Spec => []TypeOK
<1>1. IInv => TypeOK BY DEF IInv
<1>2. QED BY <1>1, IInvHolds, PTL

\* No two descriptors ever share a page: AllocateVgpuMemory hands out clear bits
\* only, and FreeVgpuMemory and ReallocVgpuMemory clear nobody else's.
THEOREM DisjointHolds == Spec => []Disjoint
<1>1. IInv => Disjoint BY DEF IInv
<1>2. QED BY <1>1, IInvHolds, PTL

\* The bitmap marks exactly the described pages: frees are exact, nothing leaks.
THEOREM BitmapExactHolds == Spec => []BitmapExact
<1>1. IInv => BitmapExact BY DEF IInv
<1>2. QED BY <1>1, IInvHolds, PTL

\* A region that AllocateVgpuMemory hands out lies inside the block.
THEOREM InBlockHolds == Spec => []InBlock
<1>1. IInv => InBlock BY DEF IInv
<1>2. QED BY <1>1, IInvHolds, PTL

\* The counter that is read without the lock counts the clear bits.
THEOREM AvailExactHolds == Spec => []AvailExact
<1>1. IInv => AvailExact BY DEF IInv
<1>2. QED BY <1>1, IInvHolds, PTL

-----------------------------------------------------------------------------
\* A call is refused only when no run of the size exists at that moment.
LEMMA RefusedStep ==
    ASSUME IInv, [Next]_vars
    PROVE  [\A o \in Owners : prepared' /\ pc[o] \in {"check", "lock"} /\ pc'[o] = "idle"
              => RunsIn(ClearBits, req[o]) = {}]_vars
<1> SUFFICES ASSUME Next, NEW o \in Owners, prepared', pc[o] \in {"check", "lock"}, pc'[o] = "idle"
             PROVE  RunsIn(ClearBits, req[o]) = {}
    OBVIOUS
<1>0. /\ TypeOK /\ Size \in Nat /\ Size <= N /\ bitmap \subseteq 0..(Size - 1)
      /\ IsFiniteSet(bitmap) /\ Cardinality(bitmap) \in Nat
      /\ req[o] \in Nat /\ lastFree \in Nat /\ avail \in Nat
      BY BitmapFinite, NAssumption DEF IInv, TypeOK
<1>1. AllocateCheck(o) \/ AllocateLocked(o)
      BY DEF Next, InitializeVgpuMemory, UninitializeVgpuMemory, Call, AllocateCheck, AllocateLocked,
             FreeVgpuMemory, ReallocVgpuMemory, IInv, TypeOK, owner
<1>2. CASE AllocateLocked(o)
  <2>1. RtlFindBits(ClearBits, req[o], lastFree) = BITMAP_FAILED
        BY <1>2 DEF AllocateLocked, IInv, TypeOK
  <2> QED BY <1>0, <2>1, FindLemma
<1>3. CASE AllocateCheck(o)
  <2>1. req[o] > avail
        BY <1>3 DEF AllocateCheck, IInv, TypeOK
  <2> SUFFICES ASSUME NEW i \in RunsIn(ClearBits, req[o]) PROVE FALSE
      OBVIOUS
  <2>2. i \in Nat /\ i + req[o] <= Size /\ Run(i, req[o]) \cap bitmap = {}
        BY <1>0 DEF RunsIn, ClearBits
  <2>3. Cardinality(bitmap \cup Run(i, req[o])) = Cardinality(bitmap) + req[o]
        BY <1>0, <2>2, SetRun
  <2>4. bitmap \cup Run(i, req[o]) \subseteq 0..(Size - 1)
        BY <1>0, <2>2 DEF Run
  <2>5. IsFiniteSet(0..(Size - 1)) /\ Cardinality(0..(Size - 1)) = Size
    <3>1. ASSUME NEW z \in Nat PROVE IsFiniteSet(0..(z - 1)) /\ Cardinality(0..(z - 1)) = z
          BY FS_Interval
    <3> QED BY <1>0, <3>1
  <2>6. Cardinality(bitmap \cup Run(i, req[o])) <= Size
        BY <2>4, <2>5, FS_Subset
  <2>7. avail + Cardinality(bitmap) = Size
        BY DEF IInv, AvailExact
  <2> QED BY <1>0, <2>1, <2>3, <2>6, <2>7
<1>4. QED BY <1>1, <1>2, <1>3

\* AllocateVgpuMemory never refuses a request that could be met at that moment,
\* although it compares the counter without the lock and searches from a hint.
THEOREM RefusedOnlyWhenFullHolds == Spec => RefusedOnlyWhenFull
BY IInvHolds, RefusedStep, PTL DEF Spec, RefusedOnlyWhenFull

-----------------------------------------------------------------------------
\* The pool as PagePool sees it.
owned == [o \in Owners |-> Pages(o)]

\* While the allocator is not initialised no page is described.
LEMMA NotOpen ==
    ASSUME IInv, ~bInitialize
    PROVE  bitmap = {} /\ \A o \in Owners : Pages(o) = {}
<1>1. 0..(Size - 1) = {}
      BY DEF Size
<1>2. bitmap = {}
      BY <1>1, BitmapFinite
<1>3. QED BY <1>2 DEF IInv, BitmapExact

\* Giving back the tail of a region is a Give step, or none before PrepareHardware.
LEMMA GiveStep ==
    ASSUME IInv, NEW o \in Owners, NEW S, S \subseteq Pages(o), UNCHANGED bInitialize,
           bitmap' = bitmap \ S,
           \A q \in Owners : Pages(q)' = IF q = o THEN Pages(o) \ S ELSE Pages(q)
    PROVE  [Pool!Next]_(Pool!poolVars)
<1>1. S \subseteq bitmap /\ bitmap \subseteq 0..(N - 1)
      BY DEF IInv, BitmapExact, TypeOK
<1>2. ClearBits' = ClearBits \cup S
      BY <1>1 DEF ClearBits
<1>3. owned' = [owned EXCEPT ![o] = owned[o] \ S] /\ owned[o] = Pages(o)
      BY DEF owned
<1>4. CASE bInitialize
  <2>1. Pool!Give(o)
        BY <1>2, <1>3, <1>4 DEF Pool!Give, owned
  <2> QED BY <2>1 DEF Pool!Next
<1>5. CASE ~bInitialize
  <2>1. S = {}
        BY <1>5, NotOpen
  <2>2. owned' = owned /\ ClearBits' = ClearBits
        BY <1>2, <2>1 DEF owned
  <2> QED BY <2>2 DEF Pool!poolVars, owned
<1>6. QED BY <1>4, <1>5

\* Every step of the allocator is a step of the pool, or none.
LEMMA PoolStep == IInv /\ [Next]_vars => [Pool!Next]_(Pool!poolVars)
<1> SUFFICES ASSUME IInv, [Next]_vars PROVE [Pool!Next]_(Pool!poolVars)
    OBVIOUS
<1>0. TypeOK /\ Disjoint /\ BitmapExact
      BY DEF IInv
<1>1. ASSUME NEW ok \in BOOLEAN, InitializeVgpuMemory(ok) PROVE [Pool!Next]_(Pool!poolVars)
  <2>1. ~bInitialize /\ UNCHANGED <<pc, reg>>
        BY <1>1 DEF InitializeVgpuMemory, IInv, Closed, owner
  <2>2. bitmap = {} /\ bitmap' = {}
        BY <1>1, <2>1, NotOpen DEF InitializeVgpuMemory, mem
  <2>3. owned' = owned /\ ClearBits' = ClearBits
        BY <2>1, <2>2 DEF owned, Pages, ClearBits
  <2>4. bInitialize' = TRUE \/ UNCHANGED bInitialize
        BY <1>1 DEF InitializeVgpuMemory
  <2> QED BY <2>1, <2>3, <2>4 DEF Pool!Next, Pool!Open, Pool!poolVars, owned
<1>2. CASE UninitializeVgpuMemory
  <2>1. bInitialize' = FALSE /\ bitmap' = {} /\ \A o \in Owners : Pages(o)' = {}
        BY <1>2 DEF UninitializeVgpuMemory, Pages
  <2>2. owned' = [o \in Owners |-> {}] /\ ClearBits' = 0..(N - 1)
        BY <2>1 DEF owned, ClearBits
  <2>3. CASE bInitialize
        BY <2>1, <2>2, <2>3 DEF Pool!Next, Pool!Close, owned
  <2>4. CASE ~bInitialize
    <3>1. owned' = owned /\ ClearBits' = ClearBits /\ bInitialize' = bInitialize
          BY <2>1, <2>2, <2>4, NotOpen DEF owned, ClearBits, IInv, TypeOK
    <3> QED BY <3>1 DEF Pool!poolVars, owned
  <2> QED BY <2>3, <2>4
<1>3. ASSUME NEW o \in Owners, \/ \E n \in Requests : Call(o, n)
                               \/ AllocateCheck(o)
      PROVE  [Pool!Next]_(Pool!poolVars)
  <2>1. /\ UNCHANGED <<bInitialize, bitmap, reg>>
        /\ pc' = [pc EXCEPT ![o] = pc'[o]] /\ pc[o] # "held" /\ pc'[o] # "held"
        BY <1>0, <1>3 DEF Call, AllocateCheck, mem, TypeOK
  <2>2. \A q \in Owners : Pages(q)' = Pages(q)
        BY <1>0, <2>1 DEF Pages, TypeOK
  <2>3. owned' = owned /\ ClearBits' = ClearBits
        BY <2>1, <2>2 DEF owned, ClearBits
  <2> QED BY <2>1, <2>3 DEF Pool!poolVars, owned
<1>4. ASSUME NEW o \in Owners, AllocateLocked(o) PROVE [Pool!Next]_(Pool!poolVars)
  <2> DEFINE index == RtlFindBits(ClearBits, req[o], lastFree)
             S == Run(index, req[o])
  <2>0. Pages(o) = {} /\ UNCHANGED bInitialize
        BY <1>4 DEF AllocateLocked, Pages
  <2>1. CASE index = BITMAP_FAILED
    <3>1. UNCHANGED <<bitmap, reg>> /\ pc' = [pc EXCEPT ![o] = "idle"]
          BY <1>4, <2>1 DEF AllocateLocked, mem
    <3>2. \A q \in Owners : Pages(q)' = Pages(q)
          BY <1>0, <2>0, <3>1 DEF Pages, TypeOK
    <3>3. owned' = owned /\ ClearBits' = ClearBits
          BY <3>1, <3>2 DEF owned, ClearBits
    <3> QED BY <2>0, <3>3 DEF Pool!poolVars, owned
  <2>2. CASE index # BITMAP_FAILED
    <3>0. req[o] \in Nat /\ lastFree \in Nat
          BY <1>0, NAssumption DEF TypeOK
    <3>1. index \in Nat /\ index + req[o] <= Size /\ S \subseteq ClearBits
          BY <1>0, <2>2, <3>0, FindLemma
    <3>2. /\ pc' = [pc EXCEPT ![o] = "held"]
          /\ reg' = [reg EXCEPT ![o] = [start |-> index, n |-> req[o]]]
          /\ bitmap' = bitmap \cup S
          BY <1>4, <2>2 DEF AllocateLocked
    <3>3. \A q \in Owners : Pages(q)' = IF q = o THEN S ELSE Pages(q)
          BY <1>0, <3>2 DEF Pages, TypeOK
    <3>4. owned' = [owned EXCEPT ![o] = S] /\ owned[o] = {}
          BY <2>0, <3>3 DEF owned
    <3>5. ClearBits' = ClearBits \ S
          BY <3>2 DEF ClearBits
    <3>6. CASE bInitialize
      <4>1. Pool!Take(o)
            BY <2>0, <3>1, <3>4, <3>5, <3>6 DEF Pool!Take, owned
      <4> QED BY <4>1 DEF Pool!Next
    <3>7. CASE ~bInitialize
      <4>1. S = {}
            BY <3>0, <3>1, <3>7 DEF Size, Run
      <4>2. owned' = owned /\ ClearBits' = ClearBits
            BY <2>0, <3>3, <3>5, <4>1 DEF owned
      <4> QED BY <2>0, <4>2 DEF Pool!poolVars, owned
    <3> QED BY <3>6, <3>7
  <2> QED BY <2>1, <2>2
<1>5. ASSUME NEW o \in Owners, NEW t \in Nat, pc[o] = "held", t <= reg[o].n,
             \/ FreeVgpuMemory(o) /\ t = 0
             \/ ReallocVgpuMemory(o, t)
      PROVE  [Pool!Next]_(Pool!poolVars)
  <2> DEFINE s == reg[o].start
             n == reg[o].n
             S == Run(s + t, n - t)
  <2>0. s \in Nat /\ n \in Nat /\ s + 0 = s /\ n - 0 = n
        BY <1>0, NAssumption DEF TypeOK, Region
  <2>1. LET i == RtlFindBits(bitmap, n - t, s + t)
        IN  i # BITMAP_FAILED /\ Run(i, n - t) = S
        BY <1>5, FindTail
  <2>2. S \subseteq Pages(o) /\ Pages(o) = Run(s, n) /\ Run(s, t) = Run(s, n) \ S
        BY <1>5, <2>0 DEF Pages, Run
  <2>3. CASE FreeVgpuMemory(o) /\ t = 0
    <3>1. UNCHANGED bInitialize /\ bitmap' = bitmap \ S
          /\ pc' = [pc EXCEPT ![o] = "idle"] /\ reg' = [reg EXCEPT ![o] = NoRegion]
          BY <2>0, <2>1, <2>3 DEF FreeVgpuMemory
    <3>2. Run(s, n) \ S = {}
          BY <2>0, <2>3
    <3>3. \A q \in Owners : Pages(q)' = IF q = o THEN Pages(o) \ S ELSE Pages(q)
          BY <1>0, <2>2, <3>1, <3>2 DEF Pages, TypeOK
    <3> QED BY <2>2, <3>1, <3>3, GiveStep
  <2>4. CASE ReallocVgpuMemory(o, t)
    <3>1. UNCHANGED bInitialize /\ UNCHANGED pc /\ bitmap' = bitmap \ S
          /\ reg' = [reg EXCEPT ![o].n = t]
          BY <2>1, <2>4 DEF ReallocVgpuMemory
    <3>2. reg'[o].start = s /\ reg'[o].n = t
          BY <1>0, <3>1 DEF TypeOK, Region
    <3>3. \A q \in Owners : Pages(q)' = IF q = o THEN Pages(o) \ S ELSE Pages(q)
          BY <1>0, <1>5, <2>2, <3>1, <3>2 DEF Pages, TypeOK
    <3>4. S \subseteq Pages(o) /\ UNCHANGED bInitialize /\ bitmap' = bitmap \ S
          BY <2>2, <3>1
    <3> HIDE DEF S
    <3> QED BY <3>3, <3>4, GiveStep
  <2> QED BY <1>5, <2>3, <2>4
<1>6. ASSUME NEW o \in Owners, FreeVgpuMemory(o) PROVE [Pool!Next]_(Pool!poolVars)
  <2>1. pc[o] = "held" /\ 0 \in Nat /\ 0 <= reg[o].n
        BY <1>0, <1>6 DEF FreeVgpuMemory, TypeOK, Region
  <2> QED BY <1>5, <1>6, <2>1
<1>7. ASSUME NEW o \in Owners, NEW t \in Requests, ReallocVgpuMemory(o, t)
      PROVE  [Pool!Next]_(Pool!poolVars)
  <2>1. pc[o] = "held" /\ t \in Nat /\ t <= reg[o].n
        BY <1>0, <1>7, RequestsAssumption DEF ReallocVgpuMemory, TypeOK, Region
  <2> QED BY <1>5, <1>7, <2>1
<1>8. CASE UNCHANGED vars
      BY <1>8 DEF vars, Pool!poolVars, Pages, ClearBits
<1>9. QED
      BY <1>1, <1>2, <1>3, <1>4, <1>6, <1>7, <1>8 DEF Next

\* memory.c implements the page pool: every allocation, free and reallocation is a
\* step of PagePool, or changes nothing the pool can see.
THEOREM ImplementsPool == Spec => PoolSpec
<1>1. Init => Pool!Init
  <2> SUFFICES ASSUME Init PROVE Pool!Init
      OBVIOUS
  <2>1. \A o \in Owners : Pages(o) = {}
        BY DEF Init, Pages
  <2> QED BY <2>1 DEF Init, Pool!Init, ClearBits
<1>2. QED
      BY <1>1, IInvHolds, PoolStep, PTL DEF Spec, PoolSpec, Pool!Spec
=============================================================================
