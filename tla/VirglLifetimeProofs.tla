------------------------- MODULE VirglLifetimeProofs -------------------------
(***************************************************************************)
(* What VirglLifetime promises about the driver's own lists, contexts,        *)
(* resources and memory, for every number of processes, threads, blocks,      *)
(* resources and slots, full queues and an empty pool included.               *)
(*                                                                           *)
(* The argument.  Where a handler is tells what it has (ContextOf, HeldOK,    *)
(* BackingOf), and nobody else has it: a resource is in one list, or in the    *)
(* hands of one handler, or given up (ResourceOK, OneHolder); a live context   *)
(* is in VirglContextList or in the hands of the one handler that takes it     *)
(* down (LiveKept).  Whoever makes or destroys the context of a process is      *)
(* alone in it (Screen): this is the clients' doing, and not the driver's.      *)
(*                                                                           *)
(* The unlocked walks (WInv).  New contexts go to the head of the list, so that *)
(* it is ordered from the newest to the oldest, and an unlinked context keeps   *)
(* pointing at an entry no newer than itself and no older than any listed one   *)
(* behind it (LeftBehind).  A walk that stands on any context, listed, unlinked *)
(* or freed, has the context of its process ahead of it (WalkOK).              *)
(***************************************************************************)
EXTENDS VirglLifetime, SequenceTheorems, TLAPS

-----------------------------------------------------------------------------
(* Lists.                                                                    *)

\* The range of a sequence, by its positions.
LEMMA InRange ==
    ASSUME NEW S, NEW s \in Seq(S)
    PROVE  /\ DOMAIN s = 1..Len(s) /\ Len(s) \in Nat
           /\ \A x : x \in Range(s) <=> \E k \in 1..Len(s) : s[k] = x
           /\ \A k \in 1..Len(s) : s[k] \in Range(s) /\ s[k] \in S
           /\ Range(s) \subseteq S
           /\ IsInjective(s) <=> \A k, l \in 1..Len(s) : s[k] = s[l] => k = l
           /\ Range(s) = {} <=> s = <<>>
<1>1. DOMAIN s = 1..Len(s) /\ Len(s) \in Nat
  OBVIOUS
<1>2. \A x : x \in Range(s) <=> \E k \in 1..Len(s) : s[k] = x
  BY <1>1 DEF Range
<1>3. \A k \in 1..Len(s) : s[k] \in S
  OBVIOUS
<1>4. IsInjective(s) <=> \A k, l \in 1..Len(s) : s[k] = s[l] => k = l
  BY <1>1 DEF IsInjective
<1>5. Range(s) = {} <=> s = <<>>
  <2>1. s # <<>> => Len(s) # 0
    OBVIOUS
  <2>2. s # <<>> => 1 \in 1..Len(s)
    BY <1>1, <2>1
  <2>3. s = <<>> => Len(s) = 0
    OBVIOUS
  <2>4. s # <<>> => Range(s) # {}
    BY <1>2, <2>2
  <2>5. s = <<>> => 1..Len(s) = {}
    BY <2>3
  <2>6. s = <<>> => Range(s) = {}
    BY <1>2, <2>5
  <2> QED BY <2>4, <2>6
<1> QED BY <1>1, <1>2, <1>3, <1>4, <1>5

\* ExInterlockedInsertHeadList.
LEMMA Inserted ==
    ASSUME NEW S, NEW s \in Seq(S), NEW x \in S
    PROVE  LET r == <<x>> \o s
           IN  /\ r \in Seq(S) /\ Range(r) = {x} \cup Range(s)
               /\ IsInjective(s) /\ x \notin Range(s) => IsInjective(r)
<1> DEFINE r == <<x>> \o s
<1>1. <<x>> \in Seq(S) /\ Len(<<x>>) = 1 /\ <<x>>[1] = x
  OBVIOUS
<1>2. /\ r \in Seq(S) /\ Len(r) = 1 + Len(s)
      /\ \A k \in 1..(1 + Len(s)) : r[k] = IF k <= 1 THEN x ELSE s[k - 1]
  BY ONLY <1>1, ConcatProperties, s \in Seq(S)
<1> HIDE DEF r
<1>3. Len(s) \in Nat
  OBVIOUS
<1>4. r[1] = x /\ \A k \in 1..Len(s) : k + 1 \in 1..Len(r) /\ r[k + 1] = s[k]
  BY <1>2, <1>3
<1>5. \A k \in 1..Len(r) : k = 1 \/ (k - 1 \in 1..Len(s) /\ r[k] = s[k - 1])
  BY <1>2, <1>3
<1>6. Range(r) = {x} \cup Range(s)
  <2>1. \A y : y \in Range(r) => y \in {x} \cup Range(s)
    BY <1>2, <1>4, <1>5, InRange
  <2>2. \A y : y \in {x} \cup Range(s) => y \in Range(r)
    <3>1. 1 \in 1..Len(r)
      BY <1>2, <1>3
    <3>2. x \in Range(r)
      BY <1>2, <1>4, <3>1, InRange
    <3>3. \A y : y \in Range(r) <=> \E k \in 1..Len(r) : r[k] = y
      BY <1>2, InRange
    <3>4. \A y \in Range(s) : \E k \in 1..Len(s) : s[k] = y
      BY InRange
    <3>5. \A y \in Range(s) : y \in Range(r)
      BY <1>4, <3>3, <3>4
    <3> QED BY <3>2, <3>5
  <2> QED BY <2>1, <2>2
<1>7. ASSUME IsInjective(s), x \notin Range(s) PROVE IsInjective(r)
  <2>1. SUFFICES ASSUME NEW k \in 1..Len(r), NEW l \in 1..Len(r), r[k] = r[l] PROVE k = l
    BY <1>2, InRange
  <2>2. \A n \in 1..Len(s) : s[n] # x
    BY <1>7, InRange
  <2>3. \A m, n \in 1..Len(s) : s[m] = s[n] => m = n
    BY <1>7, InRange
  <2>4. CASE k = 1
    BY <1>4, <1>5, <2>1, <2>2, <2>4, SMTT(20)
  <2>5. CASE l = 1
    BY <1>4, <1>5, <2>1, <2>2, <2>5
  <2>6. CASE k # 1 /\ l # 1
    <3>1. k - 1 = l - 1
      BY <1>5, <2>1, <2>3, <2>6
    <3> QED BY <1>2, <1>3, <3>1
  <2> QED BY <2>4, <2>5, <2>6
<1> QED BY <1>2, <1>6, <1>7 DEF r

\* RemoveEntryList.
LEMMA Removed ==
    ASSUME NEW S, NEW s \in Seq(S), IsInjective(s), NEW x \in Range(s)
    PROVE  LET r == RemoveFirst(s, x)
           IN  /\ r \in Seq(S) /\ Range(r) = Range(s) \ {x} /\ IsInjective(r)
               /\ \A k, l \in DOMAIN r : k < l =>
                     \E m, n \in DOMAIN s : m < n /\ r[k] = s[m] /\ r[l] = s[n]
<1> DEFINE r == RemoveFirst(s, x)
<1>1. /\ Len(s) \in Nat /\ \A k \in 1..Len(s) : s[k] \in S
      /\ \A k, l \in 1..Len(s) : s[k] = s[l] => k = l
  BY InRange
<1>2. PICK i \in 1..Len(s) : s[i] = x
  BY InRange
<1> DEFINE I == {k \in 1..Len(s) : s[k] = x}
<1>3. I = {i}
  BY <1>1, <1>2
<1>4. Min(I) = i
  BY <1>3 DEF Min
<1>5. r = SubSeq(s, 1, i - 1) \o SubSeq(s, i + 1, Len(s))
  BY <1>2, <1>3, <1>4 DEF RemoveFirst, SelectInSeq, RemoveAt
<1> DEFINE l == SubSeq(s, 1, i - 1)
           u == SubSeq(s, i + 1, Len(s))
<1>6. l \in Seq(S) /\ Len(l) = i - 1 /\ \A j \in 1..(i - 1) : l[j] = s[j]
  <2>1. 1 \in Int /\ i - 1 \in Int /\ \A j \in 1..(i - 1) : s[j] \in S
    BY <1>1
  <2>2. l \in Seq(S) /\ Len(l) = (IF 1 <= i - 1 THEN (i - 1) - 1 + 1 ELSE 0)
        /\ \A j \in 1..((i - 1) - 1 + 1) : l[j] = s[1 + j - 1]
    BY ONLY <2>1, SubSeqProperties, SMTT(20)
  <2> HIDE DEF l
  <2> QED BY <1>1, <2>2
<1>7. u \in Seq(S) /\ Len(u) = Len(s) - i /\ \A j \in 1..(Len(s) - i) : u[j] = s[i + j]
  <2>1. i + 1 \in Int /\ Len(s) \in Int /\ \A j \in (i + 1)..Len(s) : s[j] \in S
    BY <1>1
  <2>2. u \in Seq(S) /\ Len(u) = (IF i + 1 <= Len(s) THEN Len(s) - (i + 1) + 1 ELSE 0)
        /\ \A j \in 1..(Len(s) - (i + 1) + 1) : u[j] = s[(i + 1) + j - 1]
    BY ONLY <2>1, SubSeqProperties, SMTT(20)
  <2> HIDE DEF u
  <2> QED BY <1>1, <2>2
<1> HIDE DEF l, u
<1>8. /\ l \o u \in Seq(S) /\ Len(l \o u) = Len(l) + Len(u)
      /\ \A j \in 1..(Len(l) + Len(u)) : (l \o u)[j] = IF j <= Len(l) THEN l[j] ELSE u[j - Len(l)]
  BY <1>6, <1>7, ConcatProperties
<1>9. r = l \o u
  BY <1>5 DEF l, u
<1> HIDE DEF r, I
<1>10. r \in Seq(S) /\ Len(r) = Len(s) - 1
  <2>1. i \in Int
    OBVIOUS
  <2>2. Len(l) + Len(u) = Len(s) - 1
    BY <1>1, <1>6, <1>7, <2>1
  <2> QED BY <1>8, <1>9, <2>2
<1>11. \A j \in 1..(Len(s) - 1) : r[j] = s[IF j < i THEN j ELSE j + 1]
  <2>1. SUFFICES ASSUME NEW j \in 1..(Len(s) - 1) PROVE r[j] = s[IF j < i THEN j ELSE j + 1]
    OBVIOUS
  <2>2. CASE j < i
    BY <1>1, <1>6, <1>7, <1>8, <1>9, <2>2
  <2>3. CASE ~(j < i)
    <3>1. r[j] = u[j - (i - 1)]
      BY <1>1, <1>6, <1>7, <1>8, <1>9, <2>3
    <3>2. j - (i - 1) \in 1..(Len(s) - i) /\ i + (j - (i - 1)) = j + 1
      BY <1>1, <2>3
    <3> QED BY <1>7, <2>3, <3>1, <3>2
  <2> QED BY <2>2, <2>3
<1>12. IsInjective(r)
  <2>1. SUFFICES ASSUME NEW j \in 1..(Len(s) - 1), NEW k \in 1..(Len(s) - 1), r[j] = r[k] PROVE j = k
    BY <1>10, InRange
  <2> QED BY <1>1, <1>11, <2>1
<1>13. \A y : y \in Range(r) => y \in Range(s) \ {x}
  <2>1. SUFFICES ASSUME NEW y \in Range(r) PROVE y \in Range(s) \ {x}
    OBVIOUS
  <2>2. PICK j \in 1..(Len(s) - 1) : r[j] = y
    BY <1>10, InRange
  <2> DEFINE k == IF j < i THEN j ELSE j + 1
  <2>3. k \in 1..Len(s) /\ k # i
    BY <1>1
  <2>4. s[k] = y
    BY <1>11, <2>2
  <2> HIDE DEF k
  <2> QED BY <1>1, <1>2, <2>3, <2>4, InRange
<1>14. \A y : y \in Range(s) \ {x} => y \in Range(r)
  <2>1. SUFFICES ASSUME NEW y \in Range(s), y # x PROVE y \in Range(r)
    OBVIOUS
  <2>2. PICK k \in 1..Len(s) : s[k] = y
    BY InRange
  <2> DEFINE j == IF k < i THEN k ELSE k - 1
  <2>3. k # i
    BY <1>2, <2>1, <2>2
  <2>4. j \in 1..(Len(s) - 1) /\ k = IF j < i THEN j ELSE j + 1
    BY <1>1, <2>3
  <2> HIDE DEF j
  <2>5. r[j] = y
    BY <1>11, <2>2, <2>4
  <2> QED BY <1>10, <2>4, <2>5, InRange
<1>15. ASSUME NEW k \in DOMAIN r, NEW m \in DOMAIN r, k < m
       PROVE  \E p, q \in DOMAIN s : p < q /\ r[k] = s[p] /\ r[m] = s[q]
  <2>1. k \in 1..(Len(s) - 1) /\ m \in 1..(Len(s) - 1) /\ DOMAIN s = 1..Len(s)
    BY <1>10, InRange
  <2> DEFINE p == IF k < i THEN k ELSE k + 1
             q == IF m < i THEN m ELSE m + 1
  <2>2. p \in 1..Len(s) /\ q \in 1..Len(s) /\ p < q
    BY <1>1, <1>15, <2>1
  <2>3. r[k] = s[p] /\ r[m] = s[q]
    BY <1>11, <2>1
  <2> HIDE DEF p, q
  <2> QED BY <2>1, <2>2, <2>3
<1> QED BY <1>10, <1>12, <1>13, <1>14, <1>15 DEF r

\* RemoveTailList.
LEMMA TailRemoved ==
    ASSUME NEW S, NEW s \in Seq(S), IsInjective(s), s # <<>>
    PROVE  LET r == Front(s)
               x == Last(s)
           IN  /\ r \in Seq(S) /\ x \in Range(s) /\ x \in S
               /\ Range(r) = Range(s) \ {x} /\ IsInjective(r)
<1> DEFINE r == SubSeq(s, 1, Len(s) - 1)
           x == s[Len(s)]
<1>1. /\ Len(s) \in Nat /\ \A k \in 1..Len(s) : s[k] \in S /\ s[k] \in Range(s)
      /\ \A k, l \in 1..Len(s) : s[k] = s[l] => k = l
  BY InRange
<1>2. Len(s) # 0
  BY SMTT(20)
<1>3. r \in Seq(S) /\ Len(r) = Len(s) - 1 /\ \A j \in 1..(Len(s) - 1) : r[j] = s[j]
  <2>1. 1 \in Int /\ Len(s) - 1 \in Int /\ \A j \in 1..(Len(s) - 1) : s[j] \in S
    BY <1>1
  <2>2. r \in Seq(S) /\ Len(r) = (IF 1 <= Len(s) - 1 THEN (Len(s) - 1) - 1 + 1 ELSE 0)
        /\ \A j \in 1..((Len(s) - 1) - 1 + 1) : r[j] = s[1 + j - 1]
    BY ONLY <2>1, SubSeqProperties, SMTT(20)
  <2> HIDE DEF r
  <2>3. (Len(s) - 1) - 1 + 1 = Len(s) - 1 /\ \A j \in 1..(Len(s) - 1) : 1 + j - 1 = j
    BY <1>1
  <2>4. Len(r) = Len(s) - 1
    <3>1. Len(r) = (IF 1 <= Len(s) - 1 THEN Len(s) - 1 ELSE 0)
      BY <2>2, <2>3
    <3>2. Len(s) \in Nat /\ Len(s) # 0
      BY <1>1, <1>2
    <3>3. CASE 1 <= Len(s) - 1
      BY <3>1, <3>3
    <3>4. CASE ~(1 <= Len(s) - 1)
      <4>1. \A n \in Nat : n # 0 /\ ~(1 <= n - 1) => 0 = n - 1
        OBVIOUS
      <4>2. 0 = Len(s) - 1
        BY <3>2, <3>4, <4>1
      <4> QED BY <3>1, <3>4, <4>2
    <3> QED BY <3>3, <3>4
  <2> QED BY <2>2, <2>3, <2>4
<1>4. x \in S /\ x \in Range(s)
  BY <1>1, <1>2
<1>5. \A k \in 1..Len(s) : s[k] # x => k \in 1..(Len(s) - 1)
  BY <1>1
<1>6. \A k \in 1..(Len(s) - 1) : k \in 1..Len(s) /\ s[k] # x
  BY <1>1, <1>2
<1> HIDE DEF r, x
<1>7. /\ \A y : y \in Range(r) <=> \E k \in 1..(Len(s) - 1) : r[k] = y
      /\ IsInjective(r) <=> \A k, l \in 1..(Len(s) - 1) : r[k] = r[l] => k = l
  BY <1>3, InRange
<1>8. \A y : y \in Range(s) <=> \E k \in 1..Len(s) : s[k] = y
  BY InRange
<1>9. IsInjective(r)
  BY <1>1, <1>3, <1>6, <1>7
<1>10. \A y : y \in Range(r) => y \in Range(s) \ {x}
  BY <1>3, <1>6, <1>7, <1>8
<1>11. \A y : y \in Range(s) \ {x} => y \in Range(r)
  BY <1>3, <1>5, <1>7, <1>8
<1> QED BY <1>3, <1>4, <1>9, <1>10, <1>11 DEF r, x, Front, Last

-----------------------------------------------------------------------------
(* The invariant of the driver.                                              *)

Creating == {"alloc", "attach", "insert", "mapblob"}
Deleting == {"detach", "free", "unref"}
\* A handler that has found no context yet, or needs none.
Outside == {"idle", "init", "ctxcreate"}

Live(c) == c \in DOMAIN ctx /\ ~ctx[c].freed
HasContext(p) == \E c \in DOMAIN ctx : Live(c) /\ ctx[c].proc = p
OnList(c) == c \in Range(ctxList)
InList(c, i) == i \in Range(ctx[c].list)

\* TypeOK, of the walks and of all the rest.
WalkTypes == walk \in [Threads -> CtxIds \cup {0}] /\ left \in [CtxIds -> CtxIds \cup {0}]
Types ==
    /\ ctxList \in Seq(CtxIds)
    /\ ctx \in Seq(Context) /\ Len(ctx) = nextCtx - 1
    /\ res \in [Ids -> Resource]
    /\ act \in [Threads -> Activity]
    /\ free \subseteq Blocks
    /\ control \in Seq([op : {"create", "destroy"}, proc : Procs])
    /\ command \in Seq([op : {"create", "attach", "map", "detach", "unmap", "unref"}, id : Ids,
                        blk : Blocks \cup {NoBlock}])
    /\ lost \in BOOLEAN
    /\ hctx \subseteq Procs /\ hres \in [Ids -> HostResource]
    /\ nextCtx \in 1..(MaxCtx + 1) /\ nextRes \in 1..(MaxRes + 1)

\* VirglContextList: each entry is a live context, once.
ContextsListed == IsInjective(ctxList) /\ \A c \in Range(ctxList) : Live(c)

\* Where handler t is tells what has become of its context.
Unlinked(t) == act[t].drain \/ act[t].pc \in {"drain", "ctxdestroy"}
ContextOf(t) ==
    /\ act[t].pc \in Outside => act[t].ctx = 0
    /\ act[t].pc \notin Outside =>
          /\ Live(act[t].ctx) /\ ctx[act[t].ctx].proc = Proc[t]
          /\ Unlinked(t) <=> ~OnList(act[t].ctx)
    /\ act[t].drain => act[t].pc \in Deleting \cup {"drain"}
    /\ act[t].pc = "ctxdestroy" => ctx[act[t].ctx].list = <<>>
    /\ act[t].pc = "init" => ~HasContext(Proc[t])
    /\ act[t].pc = "ctxcreate" => HasContext(Proc[t])

\* A live context is listed, or its last handler is taking it down.
LiveKept ==
    \A c \in DOMAIN ctx : Live(c) => OnList(c) \/ \E t \in Threads : act[t].ctx = c /\ Unlinked(t)

\* Whoever makes or destroys the context of a process is alone in it.
Screen == \A t, u \in Threads : t # u /\ Proc[t] = Proc[u] /\ InScreen(t) => act[u].pc = "idle"

\* A process has one context, listed or being taken down.
OneContext ==
    \A c, d \in DOMAIN ctx : ~ctx[c].freed /\ ~ctx[d].freed /\ ctx[c].proc = ctx[d].proc => c = d

Contexts ==
    /\ ContextsListed /\ LiveKept /\ Screen /\ OneContext
    /\ \A t \in Threads : ContextOf(t)

\* The resource handler t has in its hands, and whether it is in the list of its context.
Held(t) == act[t].pc \in Creating \cup Deleting \cup {"remove"}
Linked(t) == act[t].pc \in {"mapblob", "remove"}
HeldOK(t) ==
    LET i == act[t].res
    IN  /\ Held(t) <=> i # 0
        /\ act[t].pc \in Creating => res[i].st = "new"
        /\ act[t].pc = "remove" => res[i].st = "closing"
        /\ act[t].pc \in Deleting => res[i].st = IF act[t].drain THEN "known" ELSE "closing"
        /\ Linked(t) => InList(act[t].ctx, i)
        /\ Held(t) /\ ~Linked(t) => \A c \in DOMAIN ctx : ~InList(c, i)

\* The kind of the resource in its hands and whether it has its memory.
BackingOf(t) ==
    LET x == res[act[t].res]
    IN  /\ act[t].pc = "alloc" => x.kind = "buffer" /\ x.blk = NoBlock
        /\ act[t].pc \in {"attach", "free"} => x.kind = "buffer" /\ x.blk # NoBlock
        /\ act[t].pc \in {"insert", "mapblob", "remove", "detach"} => (x.kind = "buffer" <=> x.blk # NoBlock)
        /\ act[t].pc = "detach" => x.kind # "plain"
        /\ act[t].pc = "mapblob" => x.kind = "blob"
        /\ act[t].pc = "unref" => x.blk = NoBlock

ListOK(c) == IsInjective(ctx[c].list) /\ (ctx[c].freed => ctx[c].list = <<>>)

\* A resource is in one list at most, and then it is known or the handler that holds it is
\* about to make it known or to take it out; a known one is in a list or in the hands of the
\* loop that empties it.
ResourceOK(i) ==
    /\ res[i].blk # NoBlock => res[i].kind = "buffer"
    /\ res[i].st = "none" <=> nextRes <= i
    /\ nextRes <= i => res[i] = NoResource
    /\ \A c, d \in DOMAIN ctx : InList(c, i) /\ InList(d, i) => c = d
    /\ \A c \in DOMAIN ctx : InList(c, i) =>
          /\ res[i].kind = "buffer" <=> res[i].blk # NoBlock
          /\ \/ res[i].st = "known"
             \/ \E t \in Threads : Linked(t) /\ act[t].res = i /\ act[t].ctx = c
    /\ res[i].st = "known" => (\E c \in DOMAIN ctx : InList(c, i)) \/ (\E t \in Threads : act[t].res = i)
    /\ res[i].st = "closing" => \E t \in Threads : act[t].res = i

OneHolder == \A t, u \in Threads : act[t].res # 0 /\ act[t].res = act[u].res => t = u

Resources ==
    /\ OneHolder /\ BlocksAccounted
    /\ \A c \in DOMAIN ctx : ListOK(c)
    /\ \A i \in Ids : ResourceOK(i)
    /\ \A t \in Threads : HeldOK(t) /\ BackingOf(t)

DInv == Types /\ Contexts /\ Resources

\* VirglContextList is ordered from the newest context to the oldest, and a listed context is
\* the newest of its process.
NewestFirst == \A k, l \in DOMAIN ctxList : k < l => ctxList[k] > ctxList[l]
Newest == \A o \in Range(ctxList), c \in DOMAIN ctx : ctx[c].proc = ctx[o].proc => c <= o

\* The Flink an unlinked context was left with skips no listed context behind it.
LeftBehind(c) ==
    /\ left[c] \in DOMAIN ctx \cup {0} /\ left[c] < c
    /\ \A o \in Range(ctxList) : o < c => o <= left[c]

\* A walk stands on a context of another process, with the one of its own ahead of it.
WalkOK(t) ==
    /\ act[t].pc = "idle" /\ MayUse(t)
    /\ walk[t] \in DOMAIN ctx /\ ctx[walk[t]].proc # Proc[t]
    /\ \E o \in Range(ctxList) : ctx[o].proc = Proc[t] /\ o < walk[t]

WInv ==
    /\ WalkTypes /\ NewestFirst /\ Newest
    /\ \A c \in DOMAIN ctx : ~OnList(c) => LeftBehind(c)
    /\ \A t \in Threads : walk[t] # 0 => WalkOK(t)

-----------------------------------------------------------------------------
\* The context a handler finds is the one of its process.
LEMMA FoundContext ==
    ASSUME Types, Contexts, NEW t \in Threads, Listed(t) # {}
    PROVE  OnList(Found(t)) /\ Live(Found(t)) /\ ctx[Found(t)].proc = Proc[t] /\ Found(t) \in CtxIds
<1>1. PICK k \in Listed(t) : TRUE
  OBVIOUS
<1>2. /\ DOMAIN ctxList = 1..Len(ctxList)
      /\ \A l \in 1..Len(ctxList) : ctxList[l] \in Range(ctxList) /\ ctxList[l] \in CtxIds
      /\ \A l, m \in 1..Len(ctxList) : ctxList[l] = ctxList[m] => l = m
  BY InRange DEF Types, Contexts, ContextsListed
<1>3. \A l \in Listed(t) : Live(ctxList[l]) /\ ctx[ctxList[l]].proc = Proc[t]
  BY <1>2 DEF Listed, Contexts, ContextsListed
<1>4. \A l \in Listed(t) : ctxList[l] = ctxList[k]
  BY <1>1, <1>3 DEF Contexts, OneContext, Live
<1>5. Listed(t) = {k}
  BY <1>1, <1>2, <1>4 DEF Listed
<1>6. k <= k
  BY <1>1, <1>2 DEF Listed
<1>7. Min(Listed(t)) = k
  BY <1>5, <1>6 DEF Min
<1>8. Found(t) = ctxList[k]
  BY <1>7 DEF Found
<1> QED BY <1>1, <1>2, <1>3, <1>8 DEF OnList, Listed

\* VirglContextList by its positions.
LEMMA ListOfContexts ==
    ASSUME DInv
    PROVE  /\ DOMAIN ctxList = 1..Len(ctxList) /\ Len(ctxList) \in Nat
           /\ \A c : OnList(c) <=> \E k \in 1..Len(ctxList) : ctxList[k] = c
           /\ \A k \in 1..Len(ctxList) : OnList(ctxList[k])
           /\ \A c : OnList(c) => c \in DOMAIN ctx /\ c \in CtxIds /\ c \in Nat /\ c >= 1 /\ Live(c)
           /\ \A c \in DOMAIN ctx : c \in CtxIds /\ c \in Nat /\ c >= 1
<1>1. ctxList \in Seq(CtxIds) /\ \A c \in Range(ctxList) : Live(c)
  BY DEF DInv, Types, Contexts, ContextsListed
<1>2. \A c \in CtxIds : c \in Nat /\ c >= 1
  BY LifetimeAssumption DEF CtxIds
<1>3. \A c \in DOMAIN ctx : c \in CtxIds
  <2>1. DOMAIN ctx = 1..Len(ctx) /\ Len(ctx) = nextCtx - 1 /\ nextCtx \in 1..(MaxCtx + 1)
    BY DEF DInv, Types
  <2> QED BY <2>1, LifetimeAssumption DEF CtxIds
<1> QED BY <1>1, <1>2, <1>3, InRange DEF OnList, Live

\* From any context the way on passes no listed context that is behind it.
LEMMA Ahead ==
    ASSUME DInv, WInv, NEW c \in DOMAIN ctx
    PROVE  /\ Flink(c) \in DOMAIN ctx \cup {0} /\ Flink(c) < c
           /\ \A o \in Range(ctxList) : o < c => o <= Flink(c)
<1>1. CASE OnList(c)
  <2>1. PICK k \in DOMAIN ctxList : k = CHOOSE m \in DOMAIN ctxList : ctxList[m] = c
    BY <1>1, ListOfContexts
  <2>2. ctxList[k] = c
    BY <1>1, <2>1, ListOfContexts
  <2>3. Flink(c) = IF k < Len(ctxList) THEN ctxList[k + 1] ELSE 0
    BY <1>1, <2>1 DEF Flink, OnList
  <2>4. CASE k < Len(ctxList)
    <3>1. k + 1 \in DOMAIN ctxList /\ k < k + 1
      BY <2>4, ListOfContexts
    <3>2. Flink(c) = ctxList[k + 1] /\ OnList(Flink(c))
      BY <2>3, <2>4, <3>1, ListOfContexts
    <3>3. Flink(c) < c
      BY <2>2, <3>1, <3>2, ListOfContexts DEF WInv, NewestFirst
    <3>4. ASSUME NEW o \in Range(ctxList), o < c PROVE o <= Flink(c)
      <4>1. PICK l \in DOMAIN ctxList : ctxList[l] = o
        BY ListOfContexts DEF OnList
      <4>2. o \in Nat /\ c \in Nat /\ Flink(c) \in Nat
        BY <3>2, ListOfContexts DEF OnList
      <4>3. ~(l < k) /\ l # k
        BY <2>2, <3>4, <4>1, <4>2 DEF WInv, NewestFirst
      <4>4. l = k + 1 \/ k + 1 < l
        BY <4>3, ListOfContexts
      <4>5. k + 1 < l => ctxList[k + 1] > ctxList[l]
        BY <3>1 DEF WInv, NewestFirst
      <4> QED BY <3>2, <4>1, <4>2, <4>4, <4>5
    <3> QED BY <3>2, <3>3, <3>4, ListOfContexts
  <2>5. CASE ~(k < Len(ctxList))
    <3>1. Flink(c) = 0
      BY <2>3, <2>5
    <3>2. ASSUME NEW o \in Range(ctxList), o < c PROVE FALSE
      <4>1. PICK l \in DOMAIN ctxList : ctxList[l] = o
        BY ListOfContexts DEF OnList
      <4>2. o \in Nat /\ c \in Nat
        BY ListOfContexts DEF OnList
      <4>3. ~(l < k) /\ l # k
        BY <2>2, <3>2, <4>1, <4>2 DEF WInv, NewestFirst
      <4> QED BY <2>5, <4>3, ListOfContexts
    <3> QED BY <3>1, <3>2, ListOfContexts
  <2> QED BY <2>4, <2>5
<1>2. CASE ~OnList(c)
  BY <1>2 DEF Flink, OnList, WInv, LeftBehind
<1> QED BY <1>1, <1>2

\* A walk has an entry before it, and passes no context of its process; one it comes to is
\* the listed one.
LEMMA WalkAhead ==
    ASSUME DInv, WInv, NEW t \in Threads, Looking(t)
    PROVE  /\ MayUse(t) /\ Reaches(t) \in DOMAIN ctx
           /\ ctx[Reaches(t)].proc = Proc[t] => OnList(Reaches(t))
           /\ ctx[Reaches(t)].proc # Proc[t] =>
                 \E o \in Range(ctxList) : ctx[o].proc = Proc[t] /\ o < Reaches(t)
<1>1. CASE walk[t] = 0
  <2>1. MayUse(t) /\ Listed(t) # {} /\ Reaches(t) = Head(ctxList)
    BY <1>1 DEF Looking, Reaches
  <2>2. PICK k \in DOMAIN ctxList : ctx[ctxList[k]].proc = Proc[t]
    BY <2>1 DEF Listed
  <2>3. 1 \in DOMAIN ctxList /\ Reaches(t) = ctxList[1] /\ (k = 1 \/ 1 < k)
    <3>1. ctxList \in Seq(CtxIds) /\ DOMAIN ctxList = 1..Len(ctxList) /\ Len(ctxList) \in Nat
      BY ListOfContexts DEF DInv, Types
    <3> QED BY <2>1, <2>2, <3>1
  <2>4. OnList(Reaches(t)) /\ OnList(ctxList[k])
    BY <2>2, <2>3, ListOfContexts
  <2>5. 1 < k => ctxList[1] > ctxList[k]
    BY <2>2, <2>3 DEF WInv, NewestFirst
  <2> QED BY <2>1, <2>2, <2>3, <2>4, <2>5, ListOfContexts DEF OnList
<1>2. CASE walk[t] # 0
  <2>1. WalkOK(t) /\ Reaches(t) = Flink(walk[t])
    BY <1>2 DEF WInv, Reaches
  <2>2. PICK o \in Range(ctxList) : ctx[o].proc = Proc[t] /\ o < walk[t]
    BY <2>1 DEF WalkOK
  <2>3. Flink(walk[t]) \in DOMAIN ctx \cup {0} /\ o <= Flink(walk[t])
    BY <2>1, <2>2, Ahead DEF WalkOK
  <2>4. o \in Nat /\ o >= 1 /\ o \in DOMAIN ctx
    BY ListOfContexts DEF OnList
  <2>5. Reaches(t) \in DOMAIN ctx /\ Reaches(t) \in Nat /\ o <= Reaches(t)
    BY <2>1, <2>3, <2>4, ListOfContexts
  <2>6. ctx[Reaches(t)].proc = Proc[t] => Reaches(t) <= o
    BY <2>2, <2>5 DEF WInv, Newest
  <2> QED BY <2>1, <2>2, <2>4, <2>5, <2>6 DEF WalkOK, OnList
<1> QED BY <1>1, <1>2

\* The context an unlocked lookup finds is the listed one of its process.
LEMMA LookupContext ==
    ASSUME DInv, WInv, NEW t \in Threads, Finds(t)
    PROVE  /\ OnList(Reaches(t)) /\ Live(Reaches(t)) /\ ctx[Reaches(t)].proc = Proc[t]
           /\ Reaches(t) \in CtxIds /\ act[t].pc = "idle" /\ MayUse(t)
  BY WalkAhead, ListOfContexts DEF Finds, Looking

\* No other thread of t's process is in a handler that has found its context.
Quiet(t) == \A u \in Threads \ {t} : Proc[u] = Proc[t] => act[u].pc = "idle"

\* A step of handler t that makes, unlinks and frees no context.
LEMMA ContextStep ==
    ASSUME Types, Contexts, NEW t \in Threads,
           \A u \in Threads \ {t} : act'[u] = act[u],
           ctxList' = ctxList, DOMAIN ctx' = DOMAIN ctx,
           \A c \in DOMAIN ctx : ctx'[c].proc = ctx[c].proc /\ ctx'[c].freed = ctx[c].freed,
           \A u \in Threads \ {t} :
              act[u].pc = "ctxdestroy" => ctx'[act[u].ctx].list = ctx[act[u].ctx].list,
           ContextOf(t)',
           Unlinked(t) => Unlinked(t)' /\ act'[t].ctx = act[t].ctx,
           InScreen(t)' => InScreen(t) \/ Quiet(t),
           act'[t].pc # "idle" => act[t].pc # "idle" \/ MayUse(t) \/ Quiet(t)
    PROVE  Contexts'
<1>1. \A c : Live(c)' <=> Live(c)
  BY DEF Live
<1>2. \A c : OnList(c)' <=> OnList(c)
  BY DEF OnList
<1>3. \A p : HasContext(p)' <=> HasContext(p)
  BY <1>1 DEF HasContext
<1>4. ContextsListed'
  BY <1>1 DEF Contexts, ContextsListed
<1>5. OneContext'
  BY DEF Contexts, OneContext
<1>6. \A u \in Threads \ {t} : (Unlinked(u)' <=> Unlinked(u)) /\ (InScreen(u)' <=> InScreen(u))
  BY DEF Unlinked, InScreen
<1>7. LiveKept'
  <2>1. SUFFICES ASSUME NEW c \in DOMAIN ctx, Live(c)
                 PROVE  OnList(c) \/ \E u \in Threads : act'[u].ctx = c /\ Unlinked(u)'
    BY <1>1, <1>2 DEF LiveKept
  <2>2. CASE OnList(c)
    BY <2>2
  <2>3. CASE ~OnList(c)
    <3>1. PICK u \in Threads : act[u].ctx = c /\ Unlinked(u)
      BY <2>1, <2>3 DEF Contexts, LiveKept
    <3> QED BY <1>6, <3>1
  <2> QED BY <2>2, <2>3
<1>8. Screen'
  <2>1. SUFFICES ASSUME NEW s \in Threads, NEW u \in Threads, s # u, Proc[s] = Proc[u], InScreen(s)'
                 PROVE  act'[u].pc = "idle"
    BY DEF Screen
  <2>2. CASE s = t
    <3>1. InScreen(t) \/ Quiet(t)
      BY <2>1, <2>2
    <3> QED BY <2>1, <2>2, <3>1 DEF Contexts, Screen, Quiet
  <2>3. CASE u = t
    <3>1. InScreen(s)
      BY <1>6, <2>1, <2>3
    <3>2. act[t].pc = "idle"
      BY <2>1, <2>3, <3>1 DEF Contexts, Screen
    <3>3. ~MayUse(t)
      BY <2>1, <2>3, <3>1 DEF MayUse
    <3>4. ~Quiet(t)
      <4>1. ContextOf(s)
        BY DEF Contexts
      <4>2. act[s].pc # "idle"
        BY <3>1, <4>1 DEF InScreen, ContextOf, Deleting
      <4> QED BY <2>1, <2>3, <4>2 DEF Quiet
    <3> QED BY <2>3, <3>2, <3>3, <3>4
  <2>4. CASE s # t /\ u # t
    BY <1>6, <2>1, <2>4 DEF Contexts, Screen
  <2> QED BY <2>2, <2>3, <2>4
<1>9. ASSUME NEW u \in Threads PROVE ContextOf(u)'
  <2>1. CASE u = t
    BY <2>1
  <2>2. CASE u # t
    <3>1. ContextOf(u) /\ act'[u] = act[u]
      BY <2>2 DEF Contexts
    <3>2. Live(act[u].ctx) => act[u].ctx \in DOMAIN ctx
      BY DEF Live
    <3> QED BY <1>1, <1>2, <1>3, <1>6, <2>2, <3>1, <3>2 DEF ContextOf
  <2> QED BY <2>1, <2>2
<1> QED BY <1>4, <1>5, <1>7, <1>8, <1>9 DEF Contexts

\* A step of handler t that may change resource i (0 for none), which no other handler holds.
LEMMA ResourceStep ==
    ASSUME Types, Contexts, Resources, NEW t \in Threads, NEW i \in Ids \cup {0},
           \A u \in Threads \ {t} : act'[u] = act[u] /\ (i # 0 => act[u].res # i),
           act[t].res \in {0, i}, act'[t].res \in {0, i},
           \A j \in Ids \ {i} : res'[j] = res[j] /\ (nextRes' <= j <=> nextRes <= j),
           DOMAIN ctx \subseteq DOMAIN ctx',
           \A c \in DOMAIN ctx', j \in Ids \ {i} : InList(c, j)' <=> c \in DOMAIN ctx /\ InList(c, j),
           \A c \in DOMAIN ctx' : ListOK(c)',
           i # 0 => ResourceOK(i)', HeldOK(t)', BackingOf(t)', BlocksAccounted'
    PROVE  Resources'
<1>1. 0 \notin Ids
  BY LifetimeAssumption DEF Ids
<1>2. OneHolder'
  <2>1. SUFFICES ASSUME NEW s \in Threads, NEW u \in Threads, act'[s].res # 0,
                        act'[s].res = act'[u].res
                 PROVE  s = u
    BY DEF OneHolder
  <2> QED BY <2>1 DEF Resources, OneHolder
<1>3. ASSUME NEW j \in Ids, j # i PROVE ResourceOK(j)'
  <2>1. ResourceOK(j) /\ res'[j] = res[j] /\ (nextRes' <= j <=> nextRes <= j)
    BY <1>3 DEF Resources
  <2>2. \A c \in DOMAIN ctx' : InList(c, j)' <=> c \in DOMAIN ctx /\ InList(c, j)
    BY <1>3
  <2>3. \A u \in Threads : act[u].res = j => act'[u] = act[u]
    BY <1>1, <1>3
  <2>4. \A u \in Threads, c \in DOMAIN ctx :
           Linked(u) /\ act[u].res = j /\ act[u].ctx = c
              => Linked(u)' /\ act'[u].res = j /\ act'[u].ctx = c
    BY <2>3 DEF Linked
  <2> QED BY <2>1, <2>2, <2>3, <2>4 DEF ResourceOK
<1>4. ASSUME NEW u \in Threads, u # t PROVE HeldOK(u)' /\ BackingOf(u)'
  <2>1. HeldOK(u) /\ BackingOf(u) /\ ContextOf(u) /\ act'[u] = act[u]
    BY <1>4 DEF Resources, Contexts
  <2>2. CASE act[u].res = 0
    <3>1. ~Held(u)
      BY <2>1, <2>2 DEF HeldOK
    <3>2. ~Held(u)' /\ ~Linked(u)'
      BY <2>1, <3>1 DEF Held, Linked, Creating
    <3>3. HeldOK(u)'
      BY <2>1, <2>2, <3>2 DEF HeldOK, Held
    <3>4. BackingOf(u)'
      BY <2>1, <3>2 DEF BackingOf, Held, Creating, Deleting
    <3> QED BY <3>3, <3>4
  <2>3. CASE act[u].res # 0
    <3>1. act[u].res \in Ids \ {i} /\ Held(u)
      <4>1. act[u].res \in Ids \cup {0}
        BY DEF Types, Activity
      <4>2. act[u].res # i
        BY <1>4, <2>3
      <4> QED BY <2>1, <2>3, <4>1, <4>2 DEF HeldOK
    <3>2. res'[act[u].res] = res[act[u].res]
      BY <3>1
    <3>3. act[u].ctx \in DOMAIN ctx
      BY <2>1, <3>1 DEF ContextOf, Live, Held, Outside, Creating, Deleting
    <3>4. \A c \in DOMAIN ctx' :
             act[u].res \in Range(ctx'[c].list) <=> c \in DOMAIN ctx /\ act[u].res \in Range(ctx[c].list)
      BY <3>1 DEF InList
    <3>5. HeldOK(u)'
      BY <2>1, <3>2, <3>3, <3>4 DEF HeldOK, Held, Linked, InList
    <3>6. BackingOf(u)'
      BY <2>1, <3>2 DEF BackingOf
    <3> QED BY <3>5, <3>6
  <2> QED BY <2>2, <2>3
<1>5. \A j \in Ids : ResourceOK(j)'
  BY <1>1, <1>3
<1>6. \A u \in Threads : HeldOK(u)' /\ BackingOf(u)'
  BY <1>4
<1> QED BY <1>2, <1>5, <1>6 DEF Resources

-----------------------------------------------------------------------------
(* What a step of a handler changes.                                         *)

\* The values contexts, resources and handlers begin with.
LEMMA Values ==
    /\ Idle \in Activity /\ NoResource \in Resource /\ Absent \in HostResource
    /\ Idle.pc = "idle" /\ Idle.ctx = 0 /\ Idle.res = 0 /\ Idle.drain = FALSE
    /\ 0 \notin Ids /\ NoBlock \notin Blocks
<1>1. NoResource \in Resource /\ Absent \in HostResource
  BY DEF NoResource, Resource, Absent, HostResource
<1>2. Idle \in Activity /\ Idle.pc = "idle" /\ Idle.ctx = 0 /\ Idle.res = 0 /\ Idle.drain = FALSE
  BY DEF Idle, Activity
<1>3. 0 \notin Ids /\ NoBlock \notin Blocks
  BY LifetimeAssumption DEF Ids, NoBlock
<1> QED BY <1>1, <1>2, <1>3

\* Handler t goes on as r, the others stay where they are.
Went(t, r) ==
    /\ r \in Activity /\ act' \in [Threads -> Activity] /\ act'[t] = r
    /\ \A u \in Threads \ {t} : act'[u] = act[u]

\* The same handler at pc.
LEMMA WentTo ==
    ASSUME Types, NEW t \in Threads,
           NEW pc \in {"idle", "init", "ctxcreate", "alloc", "attach", "insert", "mapblob", "remove",
                       "detach", "free", "unref", "unlink", "drain", "ctxdestroy"},
           To(t, pc)
    PROVE  /\ Went(t, act'[t]) /\ act'[t].pc = pc /\ act'[t].ctx = act[t].ctx
           /\ act'[t].res = act[t].res /\ act'[t].drain = act[t].drain
<1>1. act[t] \in Activity /\ act \in [Threads -> Activity]
  BY DEF Types
<1> DEFINE r == [act[t] EXCEPT !.pc = pc]
<1>2. /\ r \in Activity /\ r.pc = pc /\ r.ctx = act[t].ctx /\ r.res = act[t].res
      /\ r.drain = act[t].drain
  BY <1>1 DEF Activity
<1>3. act' = [act EXCEPT ![t] = r]
  BY DEF To
<1> HIDE DEF r
<1>4. act' \in [Threads -> Activity] /\ act'[t] = r /\ \A u \in Threads \ {t} : act'[u] = act[u]
  BY <1>1, <1>2, <1>3
<1> QED BY <1>2, <1>4 DEF Went

\* A handler that returns.
LEMMA Returned ==
    ASSUME Types, NEW t \in Threads, Return(t)
    PROVE  Went(t, act'[t]) /\ act'[t] = Idle
<1>1. act \in [Threads -> Activity] /\ act' = [act EXCEPT ![t] = Idle] /\ Idle \in Activity
  BY Values DEF Types, Return
<1> HIDE DEF Idle
<1> QED BY <1>1 DEF Went

ControlCommand == [op : {"create", "destroy"}, proc : Procs]
ResourceCommand == [op : {"create", "attach", "map", "detach", "unmap", "unref"}, id : Ids,
                    blk : Blocks \cup {NoBlock}]

\* PushQueue on either queue: the command is the last one, or it is lost.
LEMMA Queued ==
    ASSUME NEW S, NEW q \in Seq(S), NEW n, NEW cmd \in S, lost \in BOOLEAN, PushQueue(q, n, cmd)
    PROVE  /\ n \in Seq(S) /\ lost' \in BOOLEAN /\ (lost => lost')
           /\ ~lost' => n = Append(q, cmd)
<1>1. CASE Len(q) < RingSize
  <2>1. n = Append(q, cmd) /\ lost' = lost
    BY <1>1 DEF PushQueue
  <2>2. n \in Seq(S)
    BY <2>1
  <2> QED BY <2>1, <2>2
<1>2. CASE ~(Len(q) < RingSize)
  BY <1>2 DEF PushQueue
<1> QED BY <1>1, <1>2

\* A change of one list.
LEMMA ListChanged ==
    ASSUME Types, NEW c \in DOMAIN ctx, NEW l \in Seq(Ids), ctx' = [ctx EXCEPT ![c].list = l]
    PROVE  /\ ctx' \in Seq(Context) /\ Len(ctx') = Len(ctx) /\ DOMAIN ctx' = DOMAIN ctx
           /\ ctx'[c].list = l
           /\ \A d \in DOMAIN ctx : /\ ctx'[d].proc = ctx[d].proc /\ ctx'[d].freed = ctx[d].freed
                                    /\ d # c => ctx'[d] = ctx[d]
<1>1. ctx \in Seq(Context) /\ DOMAIN ctx = 1..Len(ctx) /\ ctx[c] \in Context
  BY DEF Types
<1> DEFINE x == [ctx[c] EXCEPT !.list = l]
<1>2. x \in Context /\ x.list = l /\ x.proc = ctx[c].proc /\ x.freed = ctx[c].freed
  BY <1>1 DEF Context
<1>3. ctx' = [ctx EXCEPT ![c] = x]
  OBVIOUS
<1> HIDE DEF x
<1>4. /\ ctx' \in Seq(Context) /\ Len(ctx') = Len(ctx)
      /\ \A d \in 1..Len(ctx) : ctx'[d] = IF d = c THEN x ELSE ctx[d]
  <2>1. ctx \in Seq(Context) /\ c \in 1..Len(ctx) /\ x \in Context
    BY <1>1, <1>2
  <2> DEFINE y == [ctx EXCEPT ![c] = x]
  <2>2. y \in Seq(Context) /\ Len(y) = Len(ctx) /\ \A d \in 1..Len(ctx) : y[d] = IF d = c THEN x ELSE ctx[d]
    BY ONLY <2>1, ExceptSeq
  <2>3. ctx' = y
    BY ONLY <1>3
  <2> HIDE DEF y
  <2> QED BY ONLY <2>2, <2>3
<1>5. DOMAIN ctx' = 1..Len(ctx)
  BY <1>4
<1> QED BY <1>1, <1>2, <1>4, <1>5

\* A change of one resource.
LEMMA ResourceChanged ==
    ASSUME Types, NEW i \in Ids, NEW x \in Resource, res' = [res EXCEPT ![i] = x]
    PROVE  /\ res' \in [Ids -> Resource] /\ res'[i] = x
           /\ \A j \in Ids \ {i} : res'[j] = res[j]
  BY DEF Types

\* BlocksAccounted, block by block.
Accounts ==
    /\ \A i, j \in Ids : i # j /\ res[i].blk # NoBlock => res[i].blk # res[j].blk
    /\ \A i \in Ids : res[i].blk # NoBlock => res[i].blk \notin free
    /\ \A b \in Blocks \ free : \E i \in Ids : res[i].blk = b

\* The two say the same.
LEMMA BlockByBlock == Types => (BlocksAccounted <=> Accounts)
<1>1. SUFFICES ASSUME Types PROVE BlocksAccounted <=> Accounts
  OBVIOUS
<1>2. \A i \in Ids : res[i].blk \in Blocks \cup {NoBlock}
  BY <1>1 DEF Types, Resource
<1>3. NoBlock \notin Blocks
  BY Values
<1> QED BY <1>2, <1>3 DEF BlocksAccounted, Accounts

\* A handler inside goes on inside, or returns from a context that stays.
LEMMA UseStep ==
    ASSUME DInv, NEW t \in Threads, Went(t, act'[t]), act[t].pc \notin Outside,
           ctxList' = ctxList, DOMAIN ctx' = DOMAIN ctx,
           \A c \in DOMAIN ctx : /\ ctx'[c].proc = ctx[c].proc /\ ctx'[c].freed = ctx[c].freed
                                 /\ c # act[t].ctx => ctx'[c].list = ctx[c].list,
           \/ act'[t] = Idle /\ ~Unlinked(t)
           \/ /\ act'[t].pc \notin Outside /\ act'[t].ctx = act[t].ctx
              /\ Unlinked(t)' <=> Unlinked(t)
              /\ InScreen(t)' => InScreen(t)
              /\ act'[t].drain => act'[t].pc \in Deleting \cup {"drain"}
              /\ act'[t].pc = "ctxdestroy" => ctx'[act[t].ctx].list = <<>>
    PROVE  Contexts'
<1>1. Types /\ Contexts /\ ContextOf(t)
  BY DEF DInv, Contexts
<1>2. Live(act[t].ctx) /\ ctx[act[t].ctx].proc = Proc[t] /\ act[t].ctx \in DOMAIN ctx
  BY <1>1 DEF ContextOf, Live
<1>3. ASSUME NEW u \in Threads \ {t}, act[u].pc = "ctxdestroy"
      PROVE  ctx'[act[u].ctx].list = ctx[act[u].ctx].list
  <2>1. InScreen(u) /\ Live(act[u].ctx) /\ ctx[act[u].ctx].proc = Proc[u] /\ act[u].ctx \in DOMAIN ctx
    BY <1>1, <1>3 DEF InScreen, Contexts, ContextOf, Outside, Live
  <2>2. Proc[u] # Proc[t]
    BY <1>1, <2>1 DEF Contexts, Screen, Outside
  <2> QED BY <1>2, <2>1, <2>2
<1>4. \A u \in Threads \ {t} : act'[u] = act[u]
  BY DEF Went
<1>5. ContextOf(t)'
  <2>1. CASE act'[t] = Idle
    BY <2>1, Values DEF ContextOf, Outside
  <2>2. CASE act'[t] # Idle
    <3>1. Live(act[t].ctx)' /\ ctx'[act[t].ctx].proc = Proc[t] /\ act'[t].ctx = act[t].ctx
      BY <1>2, <2>2 DEF Live
    <3>2. Unlinked(t)' <=> ~OnList(act[t].ctx)
      BY <1>1, <2>2 DEF ContextOf
    <3> QED BY <2>2, <3>1, <3>2 DEF ContextOf, OnList, Outside
  <2> QED BY <2>1, <2>2
<1>6. Unlinked(t) => Unlinked(t)' /\ act'[t].ctx = act[t].ctx
  OBVIOUS
<1>7. InScreen(t)' => InScreen(t)
  <2>1. CASE act'[t] = Idle
    BY <2>1, Values DEF InScreen
  <2> QED BY <2>1
<1>8. act[t].pc # "idle"
  BY DEF Outside
<1> QED BY <1>1, <1>3, <1>4, <1>5, <1>6, <1>7, <1>8, ContextStep

-----------------------------------------------------------------------------
(* The steps preserve the invariant of the driver.                           *)

\* A step that leaves the lists and the resources alone, and returns or stays inside.
LEMMA QuietStep ==
    ASSUME DInv, NEW t \in Threads, Went(t, act'[t]), Contexts', HeldOK(t)', BackingOf(t)',
           UNCHANGED <<ctx, res, free, nextRes>>,
           act[t].res = 0 /\ act'[t].res = 0
    PROVE  Resources'
<1>1. 0 \in Ids \cup {0}
  OBVIOUS
<1>2. \A c \in DOMAIN ctx' : ListOK(c)'
  BY DEF DInv, Resources, ListOK
<1>3. BlocksAccounted'
  BY DEF DInv, Resources, BlocksAccounted
<1>4. \A c \in DOMAIN ctx', j \in Ids : InList(c, j)' <=> c \in DOMAIN ctx /\ InList(c, j)
  BY DEF InList
<1>5. \A u \in Threads \ {t} : act'[u] = act[u]
  BY DEF Went
<1> QED BY <1>1, <1>2, <1>3, <1>4, <1>5, ResourceStep DEF DInv

\* A handler that is idle, or begins a context, holds no resource.
LEMMA HoldsNothing ==
    ASSUME NEW t \in Threads, act[t].pc \notin Creating \cup Deleting \cup {"remove"}
    PROVE  /\ BackingOf(t) /\ (HeldOK(t) <=> act[t].res = 0)
  BY DEF BackingOf, HeldOK, Held, Linked, Creating, Deleting

\* The same of the handler after its step.
LEMMA HoldsNothingNext ==
    ASSUME NEW t \in Threads, act'[t].pc \notin Creating \cup Deleting \cup {"remove"}
    PROVE  /\ BackingOf(t)' /\ (HeldOK(t)' <=> act'[t].res = 0)
  BY DEF BackingOf, HeldOK, Held, Linked, Creating, Deleting

\* The idle handler.
LEMMA IdleHandler ==
    ASSUME DInv, NEW t \in Threads, act[t].pc = "idle"
    PROVE  act[t].ctx = 0 /\ act[t].res = 0 /\ act[t].drain = FALSE /\ ~Unlinked(t) /\ ~InScreen(t)
<1>1. ContextOf(t) /\ HeldOK(t) /\ act[t].drain \in BOOLEAN
  BY DEF DInv, Types, Contexts, Resources, Activity
<1>2. act[t].ctx = 0 /\ ~act[t].drain
  BY <1>1 DEF ContextOf, Outside, Deleting
<1>3. act[t].res = 0
  BY <1>1, HoldsNothing DEF Creating, Deleting
<1> QED BY <1>1, <1>2, <1>3 DEF Unlinked, InScreen

\* CtlInitVirglContext finds no context of the process, which has none then.
LEMMA StepInitCheck ==
    ASSUME DInv, NEW t \in Threads, InitCheck(t)
    PROVE  DInv'
<1>1. /\ act[t].pc = "idle" /\ Listed(t) = {} /\ MayUse(t) /\ To(t, "init")
      /\ UNCHANGED <<ctxList, ctx, res, free, control, command, lost, hctx, hres, nextCtx, nextRes>>
  BY DEF InitCheck, Free, driver, queues, host
<1>2. act[t].ctx = 0 /\ act[t].res = 0 /\ act[t].drain = FALSE /\ ~Unlinked(t) /\ ~InScreen(t)
  BY <1>1, IdleHandler
<1>3. /\ Went(t, act'[t]) /\ act'[t].pc = "init" /\ act'[t].ctx = 0
      /\ act'[t].res = 0 /\ act'[t].drain = FALSE
  BY <1>1, <1>2, WentTo DEF DInv
<1>4. Types'
  BY <1>1, <1>3 DEF DInv, Types, Went
<1>5. ~HasContext(Proc[t])
  <2>1. SUFFICES ASSUME NEW c \in DOMAIN ctx, Live(c), ctx[c].proc = Proc[t] PROVE FALSE
    BY DEF HasContext
  <2>2. ~OnList(c)
    BY <1>1, <2>1 DEF Listed, OnList, Range
  <2>3. PICK u \in Threads : act[u].ctx = c /\ Unlinked(u)
    BY <2>1, <2>2 DEF DInv, Contexts, LiveKept
  <2>4. ContextOf(u)
    BY DEF DInv, Contexts
  <2>5. act[u].pc \notin Outside /\ Proc[u] = Proc[t]
    BY <2>1, <2>3, <2>4 DEF ContextOf, Unlinked, Outside, Deleting
  <2>6. InScreen(u)
    BY <2>3 DEF InScreen, Unlinked
  <2> QED BY <1>1, <2>5, <2>6 DEF MayUse
<1>6. Contexts'
  <2>1. ContextOf(t)'
    <3>1. HasContext(Proc[t])' <=> HasContext(Proc[t])
      BY <1>1 DEF HasContext, Live
    <3> QED BY <1>3, <1>5, <3>1 DEF ContextOf, Outside
  <2>2. \A u \in Threads \ {t} : act'[u] = act[u]
    BY <1>3 DEF Went
  <2>3. Quiet(t)
    <3>1. SUFFICES ASSUME NEW u \in Threads, Proc[u] = Proc[t], act[u].pc # "idle" PROVE FALSE
      BY DEF Quiet
    <3>2. ContextOf(u) /\ ~InScreen(u)
      BY <1>1, <3>1 DEF DInv, Contexts, MayUse
    <3>3. act[u].pc \notin Outside
      BY <3>1, <3>2 DEF Outside, InScreen
    <3> QED BY <1>5, <3>1, <3>2, <3>3 DEF ContextOf, HasContext, Live
  <2> QED BY <1>1, <1>2, <2>1, <2>2, <2>3, ContextStep DEF DInv
<1>7. Resources'
  <2>1. HeldOK(t)' /\ BackingOf(t)'
    BY <1>3, HoldsNothingNext DEF Creating, Deleting
  <2> QED BY <1>1, <1>2, <1>3, <1>6, <2>1, QuietStep
<1> QED BY <1>4, <1>6, <1>7 DEF DInv

\* The host is told of the new context.
LEMMA StepCreateVirglContext ==
    ASSUME DInv, NEW t \in Threads, CreateVirglContext(t)
    PROVE  DInv'
<1>1. /\ act[t].pc = "ctxcreate" /\ PushControl([op |-> "create", proc |-> Proc[t]]) /\ Return(t)
      /\ UNCHANGED <<ctxList, ctx, res, free, command, hctx, hres, nextCtx, nextRes>>
  BY DEF CreateVirglContext, driver, host
<1>2. Went(t, act'[t]) /\ act'[t] = Idle
  BY <1>1, Returned DEF DInv
<1>3. ContextOf(t) /\ HeldOK(t) /\ act[t] \in Activity
  BY DEF DInv, Types, Contexts, Resources
<1>4. act[t].res = 0 /\ ~Unlinked(t)
  BY <1>1, <1>3, HoldsNothing DEF ContextOf, Unlinked, Creating, Deleting
<1>5. Types'
  <2>1. [op |-> "create", proc |-> Proc[t]] \in ControlCommand
    BY LifetimeAssumption DEF ControlCommand
  <2>2. control' \in Seq(ControlCommand) /\ lost' \in BOOLEAN
    BY <1>1, <2>1, Queued DEF PushControl, DInv, Types, ControlCommand
  <2> QED BY <1>1, <1>2, <2>2 DEF DInv, Types, Went, ControlCommand
<1>6. Contexts'
  <2>1. ContextOf(t)'
    BY <1>2, Values DEF ContextOf, Outside
  <2>2. \A u \in Threads \ {t} : act'[u] = act[u]
    BY <1>2 DEF Went
  <2>3. ~InScreen(t)' /\ act[t].pc # "idle"
    BY <1>1, <1>2, Values DEF InScreen
  <2> QED BY <1>1, <1>4, <2>1, <2>2, <2>3, ContextStep DEF DInv
<1>7. Resources'
  <2>1. HeldOK(t)' /\ BackingOf(t)'
    BY <1>2, Values, HoldsNothingNext DEF Creating, Deleting
  <2> QED BY <1>1, <1>2, <1>4, <1>6, <2>1, Values, QuietStep
<1> QED BY <1>5, <1>6, <1>7 DEF DInv

\* The new context is the only one of its process.
LEMMA StepInitInsert ==
    ASSUME DInv, NEW t \in Threads, InitInsert(t)
    PROVE  DInv'
<1>0. PICK n : n = nextCtx
  OBVIOUS
<1> DEFINE x == [proc |-> Proc[t], list |-> <<>>, freed |-> FALSE]
<1>1. /\ act[t].pc = "init" /\ n <= MaxCtx /\ To(t, "ctxcreate")
      /\ ctx' = Append(ctx, x) /\ ctxList' = <<n>> \o ctxList /\ nextCtx' = n + 1
      /\ UNCHANGED <<res, free, control, command, lost, hctx, hres, nextRes>>
  BY <1>0 DEF InitInsert, queues, host
<1>2. ContextOf(t) /\ HeldOK(t) /\ Types /\ Contexts /\ Resources
  BY DEF DInv, Contexts, Resources
<1>3. act[t].ctx = 0 /\ act[t].res = 0 /\ ~act[t].drain /\ ~Unlinked(t) /\ InScreen(t) /\ ~HasContext(Proc[t])
  BY <1>1, <1>2, HoldsNothing DEF ContextOf, Unlinked, InScreen, Outside, Creating, Deleting
<1>4. /\ Went(t, act'[t]) /\ act'[t].pc = "ctxcreate" /\ act'[t].ctx = 0
      /\ act'[t].res = 0 /\ ~act'[t].drain
  BY <1>1, <1>2, <1>3, WentTo
<1>5. x \in Context /\ x.proc = Proc[t] /\ x.list = <<>> /\ x.freed = FALSE
  BY LifetimeAssumption DEF Context
<1> HIDE DEF x
<1>6. n \in Nat /\ n \in CtxIds /\ ctx \in Seq(Context) /\ Len(ctx) = n - 1 /\ ctxList \in Seq(CtxIds)
  BY <1>0, <1>1, <1>2, LifetimeAssumption DEF Types, CtxIds
<1>7. /\ ctx' \in Seq(Context) /\ Len(ctx') = n /\ ctx'[n] = x
      /\ \A c \in 1..(n - 1) : ctx'[c] = ctx[c]
  <2>1. /\ ctx' \in Seq(Context) /\ Len(ctx') = Len(ctx) + 1 /\ ctx'[Len(ctx) + 1] = x
        /\ \A c \in 1..Len(ctx) : ctx'[c] = ctx[c]
    BY <1>1, <1>5, <1>6, AppendProperties
  <2>2. Len(ctx) + 1 = n
    BY <1>6
  <2> QED BY <1>6, <2>1, <2>2
<1>8. DOMAIN ctx = 1..(n - 1) /\ DOMAIN ctx' = 1..n
  BY <1>6, <1>7
<1>9. /\ n \notin DOMAIN ctx /\ n \in DOMAIN ctx' /\ DOMAIN ctx \subseteq DOMAIN ctx'
      /\ \A c \in DOMAIN ctx' : c = n \/ c \in DOMAIN ctx
      /\ \A c \in DOMAIN ctx : ctx'[c] = ctx[c]
  BY <1>6, <1>7, <1>8
<1>10. \A c : Live(c)' <=> Live(c) \/ c = n
  BY <1>5, <1>7, <1>9 DEF Live
<1>11. n \notin Range(ctxList) /\ IsInjective(ctxList)
  BY <1>2, <1>9 DEF Contexts, ContextsListed, Live
<1>12. ctxList' \in Seq(CtxIds) /\ Range(ctxList') = {n} \cup Range(ctxList) /\ IsInjective(ctxList')
  BY <1>1, <1>6, <1>11, Inserted
<1>13. \A p : HasContext(p)' <=> HasContext(p) \/ p = Proc[t]
  <2>1. \A p : HasContext(p) => HasContext(p)'
    BY <1>9, <1>10 DEF HasContext
  <2>2. HasContext(Proc[t])'
    BY <1>5, <1>7, <1>9, <1>10 DEF HasContext
  <2>3. \A p : HasContext(p)' => HasContext(p) \/ p = Proc[t]
    BY <1>5, <1>7, <1>9, <1>10 DEF HasContext
  <2> QED BY <2>1, <2>2, <2>3
<1>14. Types'
  <2>1. nextCtx' \in 1..(MaxCtx + 1) /\ Len(ctx') = nextCtx' - 1
    BY <1>1, <1>6, <1>7, LifetimeAssumption
  <2> QED BY <1>1, <1>2, <1>4, <1>7, <1>12, <2>1 DEF Types, Went
<1>15. Contexts'
  <2>1. ContextsListed'
    BY <1>2, <1>10, <1>12 DEF Contexts, ContextsListed
  <2>2. LiveKept'
    <3>1. SUFFICES ASSUME NEW c \in DOMAIN ctx', Live(c)'
                   PROVE  OnList(c)' \/ \E u \in Threads : act'[u].ctx = c /\ Unlinked(u)'
      BY DEF LiveKept
    <3>2. CASE c = n
      BY <1>12, <3>2 DEF OnList
    <3>3. CASE c # n
      <4>1. Live(c) /\ c \in DOMAIN ctx
        BY <1>10, <3>1, <3>3 DEF Live
      <4>2. CASE OnList(c)
        BY <1>12, <4>2 DEF OnList
      <4>3. CASE ~OnList(c)
        <5>1. PICK u \in Threads : act[u].ctx = c /\ Unlinked(u)
          BY <1>2, <4>1, <4>3 DEF Contexts, LiveKept
        <5>2. act'[u] = act[u]
          BY <1>3, <1>4, <5>1 DEF Went
        <5> QED BY <5>1, <5>2 DEF Unlinked
      <4> QED BY <4>2, <4>3
    <3> QED BY <3>2, <3>3
  <2>3. Screen'
    <3>1. \A u \in Threads : (InScreen(u)' <=> InScreen(u)) /\ (act'[u].pc = "idle" <=> act[u].pc = "idle")
      BY <1>1, <1>3, <1>4 DEF InScreen, Went
    <3> QED BY <1>2, <3>1 DEF Contexts, Screen
  <2>4. OneContext'
    <3>1. SUFFICES ASSUME NEW c \in DOMAIN ctx', NEW d \in DOMAIN ctx', Live(c)', Live(d)',
                          ctx'[c].proc = ctx'[d].proc
                   PROVE  c = d
      BY DEF OneContext, Live
    <3>2. \A e \in DOMAIN ctx : Live(e) => ctx[e].proc # Proc[t]
      BY <1>3 DEF HasContext
    <3>3. CASE c = n
      BY <1>5, <1>7, <1>9, <1>10, <3>1, <3>2, <3>3
    <3>4. CASE d = n
      BY <1>5, <1>7, <1>9, <1>10, <3>1, <3>2, <3>4
    <3>5. CASE c # n /\ d # n
      <4>1. c \in DOMAIN ctx /\ d \in DOMAIN ctx /\ Live(c) /\ Live(d) /\ ctx[c].proc = ctx[d].proc
        BY <1>9, <1>10, <3>1, <3>5
      <4> QED BY <1>2, <4>1 DEF Contexts, OneContext, Live
    <3> QED BY <3>3, <3>4, <3>5
  <2>5. ASSUME NEW u \in Threads PROVE ContextOf(u)'
    <3>1. CASE u = t
      BY <1>4, <1>13, <3>1 DEF ContextOf, Outside
    <3>2. CASE u # t
      <4>1. ContextOf(u) /\ act'[u] = act[u]
        BY <1>2, <1>4, <3>2 DEF Contexts, Went
      <4>2. act[u].pc = "init" => Proc[u] # Proc[t]
        BY <1>1, <1>2, <1>3, <3>2 DEF Contexts, Screen
      <4>3. act[u].pc \in Outside => ContextOf(u)'
        BY <1>13, <4>1, <4>2 DEF ContextOf, Outside, Deleting
      <4>4. ASSUME act[u].pc \notin Outside PROVE ContextOf(u)'
        <5>1. act[u].ctx # n /\ act[u].ctx \in DOMAIN ctx /\ Live(act[u].ctx)
          BY <1>9, <4>1, <4>4 DEF ContextOf, Live
        <5>2. ctx'[act[u].ctx] = ctx[act[u].ctx] /\ Live(act[u].ctx)'
          BY <1>9, <1>10, <4>1, <5>1
        <5>3. OnList(act[u].ctx)' <=> OnList(act[u].ctx)
          BY <1>12, <4>1, <5>1 DEF OnList
        <5>4. Unlinked(u)' <=> Unlinked(u)
          BY <4>1 DEF Unlinked
        <5> QED BY <4>1, <4>4, <5>1, <5>2, <5>3, <5>4 DEF ContextOf, Outside
      <4> QED BY <4>3, <4>4
    <3> QED BY <3>1, <3>2
  <2> QED BY <2>1, <2>2, <2>3, <2>4, <2>5 DEF Contexts
<1>16. Resources'
  <2>1. HeldOK(t)' /\ BackingOf(t)'
    BY <1>4, HoldsNothingNext DEF Creating, Deleting
  <2>2. \A c \in DOMAIN ctx', j \in Ids : InList(c, j)' <=> c \in DOMAIN ctx /\ InList(c, j)
    <3>1. Range(<<>>) = {}
      BY DEF Range
    <3>2. \A j \in Ids : ~InList(n, j)'
      BY <1>5, <1>7, <3>1 DEF InList
    <3> QED BY <1>9, <3>2 DEF InList
  <2>3. \A c \in DOMAIN ctx' : ListOK(c)'
    <3>1. IsInjective(<<>>)
      BY DEF IsInjective
    <3>2. ListOK(n)'
      BY <1>5, <1>7, <1>1, <3>1 DEF ListOK
    <3>3. \A c \in DOMAIN ctx : ListOK(c)'
      BY <1>2, <1>9 DEF Resources, ListOK
    <3> QED BY <1>9, <3>2, <3>3
  <2>4. BlocksAccounted'
    BY <1>1, <1>2 DEF Resources, BlocksAccounted
  <2>5. \A u \in Threads \ {t} : act'[u] = act[u]
    BY <1>4 DEF Went
  <2> QED BY <1>1, <1>2, <1>3, <1>4, <1>9, <2>1, <2>2, <2>3, <2>4, <2>5, ResourceStep
<1> QED BY <1>14, <1>15, <1>16 DEF DInv

\* The commands about resource i are typed.
LEMMA CommandQueued ==
    ASSUME Types, NEW op \in {"create", "attach", "map", "detach", "unmap", "unref"}, NEW i \in Ids,
           NEW b \in Blocks \cup {NoBlock}, PushCommand([op |-> op, id |-> i, blk |-> b])
    PROVE  /\ command' \in Seq(ResourceCommand) /\ lost' \in BOOLEAN /\ (lost => lost')
           /\ ~lost' => command' = Append(command, [op |-> op, id |-> i, blk |-> b])
<1>1. [op |-> op, id |-> i, blk |-> b] \in ResourceCommand
  BY DEF ResourceCommand
<1>2. command \in Seq(ResourceCommand) /\ lost \in BOOLEAN
  BY DEF Types, ResourceCommand
<1> QED BY <1>1, <1>2, Queued DEF PushCommand

\* What a handler knows of the resource it holds.
LEMMA HolderKnows ==
    ASSUME DInv, NEW t \in Threads, Held(t)
    PROVE  /\ act[t].res \in Ids /\ act[t].res # 0 /\ res[act[t].res] \in Resource
           /\ act[t].ctx \in DOMAIN ctx /\ act[t].ctx \in CtxIds
           /\ act[t].pc \notin Outside
           /\ HeldOK(t) /\ BackingOf(t) /\ ContextOf(t) /\ ResourceOK(act[t].res)
           /\ \A u \in Threads \ {t} : act[u].res # act[t].res
<1>1. HeldOK(t) /\ BackingOf(t) /\ ContextOf(t) /\ act[t] \in Activity
  BY DEF DInv, Types, Contexts, Resources
<1>2. act[t].res \in Ids /\ act[t].res # 0
  BY <1>1, Values DEF HeldOK, Activity
<1>3. act[t].pc \notin Outside
  BY DEF Held, Outside, Creating, Deleting
<1>4. act[t].ctx \in DOMAIN ctx
  BY <1>1, <1>3 DEF ContextOf, Live
<1>5. act[t].ctx \in CtxIds
  BY <1>1, <1>4 DEF Activity, DInv, Types
<1>6. res[act[t].res] \in Resource /\ ResourceOK(act[t].res)
  BY <1>2 DEF DInv, Types, Resources
<1>7. \A u \in Threads \ {t} : act[u].res # act[t].res
  BY <1>2 DEF DInv, Resources, OneHolder
<1> QED BY <1>1, <1>2, <1>3, <1>4, <1>5, <1>6, <1>7

\* A step of the holder of a resource that leaves the lists alone.
LEMMA HolderStep ==
    ASSUME DInv, NEW t \in Threads, Held(t), Went(t, act'[t]), act'[t].res \in {0, act[t].res},
           UNCHANGED <<ctx, nextRes>>,
           \A j \in Ids \ {act[t].res} : res'[j] = res[j],
           \A i \in Ids : i = act[t].res => ResourceOK(i)',
           HeldOK(t)', BackingOf(t)', BlocksAccounted'
    PROVE  Resources'
<1>1. /\ act[t].res \in Ids /\ act[t].res # 0
      /\ \A u \in Threads \ {t} : act[u].res # act[t].res /\ act'[u] = act[u]
  BY HolderKnows DEF Went
<1>2. PICK i \in Ids : i = act[t].res
  BY <1>1
<1>3. \A c \in DOMAIN ctx' : ListOK(c)'
  BY DEF DInv, Resources, ListOK
<1>4. \A c \in DOMAIN ctx', j \in Ids : InList(c, j)' <=> c \in DOMAIN ctx /\ InList(c, j)
  BY DEF InList
<1>5. ResourceOK(i)'
  BY <1>2
<1> QED BY <1>1, <1>2, <1>3, <1>4, <1>5, ResourceStep DEF DInv

\* A handler finds its context and takes an id nobody has.
LEMMA StepCreateResource ==
    ASSUME DInv, WInv, NEW t \in Threads, NEW kind \in Kinds, CreateResource(t, kind)
    PROVE  DInv'
<1>0. PICK i : i = nextRes
  OBVIOUS
<1> DEFINE x == [NoResource EXCEPT !.kind = kind, !.st = "new"]
           pc == IF kind = "buffer" THEN "alloc" ELSE "insert"
           r == [Idle EXCEPT !.ctx = Reaches(t), !.res = i, !.pc = pc]
<1>1. /\ Finds(t) /\ i <= MaxRes
      /\ res' = [res EXCEPT ![i] = x] /\ nextRes' = i + 1
      /\ PushCommand([op |-> "create", id |-> i, blk |-> NoBlock])
      /\ act' = [act EXCEPT ![t] = r]
      /\ UNCHANGED <<ctxList, ctx, free, control, hctx, hres, nextCtx>>
  BY <1>0 DEF CreateResource, host
<1>2. Types /\ Contexts /\ Resources
  BY DEF DInv
<1>3. act[t].ctx = 0 /\ act[t].res = 0 /\ act[t].drain = FALSE /\ ~Unlinked(t) /\ ~InScreen(t)
  BY <1>1, LookupContext, IdleHandler
<1>4. OnList(Reaches(t)) /\ Live(Reaches(t)) /\ ctx[Reaches(t)].proc = Proc[t] /\ Reaches(t) \in CtxIds
  BY <1>1, LookupContext
<1>5. i \in Ids /\ i \in Nat /\ i # 0
  BY <1>0, <1>1, <1>2 DEF Types, Ids
<1>6. x \in Resource /\ x.kind = kind /\ x.st = "new" /\ x.blk = NoBlock
  BY LifetimeAssumption DEF NoResource, Resource
<1>7. /\ r \in Activity /\ r.pc = pc /\ r.ctx = Reaches(t) /\ r.res = i /\ r.drain = FALSE
  BY <1>4, <1>5 DEF Idle, Activity
<1>8. pc \in {"alloc", "insert"} /\ (pc = "alloc" <=> kind = "buffer")
  OBVIOUS
<1> HIDE DEF x, r, pc
<1>9. /\ Went(t, act'[t]) /\ act'[t].pc = pc /\ act'[t].ctx = Reaches(t) /\ act'[t].res = i
      /\ act'[t].drain = FALSE /\ \A u \in Threads \ {t} : act'[u] = act[u]
  <2>1. act \in [Threads -> Activity]
    BY <1>2 DEF Types
  <2>2. act'[t] = r /\ act' \in [Threads -> Activity] /\ \A u \in Threads \ {t} : act'[u] = act[u]
    BY <1>1, <1>7, <2>1
  <2> QED BY <1>7, <2>2 DEF Went
<1>10. res' \in [Ids -> Resource] /\ res'[i] = x /\ \A j \in Ids \ {i} : res'[j] = res[j]
  BY <1>1, <1>2, <1>5, <1>6, ResourceChanged
<1>11. Types'
  <2>1. command' \in Seq(ResourceCommand) /\ lost' \in BOOLEAN
    BY <1>1, <1>2, <1>5, CommandQueued
  <2>2. nextRes' \in 1..(MaxRes + 1)
    BY <1>1, <1>5, LifetimeAssumption
  <2> QED BY <1>1, <1>2, <1>9, <1>10, <2>1, <2>2 DEF Types, Went, ResourceCommand
<1>12. Contexts'
  <2>1. Unlinked(t)' = FALSE /\ ~InScreen(t)'
    BY <1>8, <1>9 DEF Unlinked, InScreen
  <2>2. Live(act[t].ctx)' /\ OnList(act[t].ctx)' /\ ctx'[act'[t].ctx].proc = Proc[t]
    BY <1>1, <1>4, <1>9 DEF Live, OnList
  <2>3. ContextOf(t)'
    BY <1>8, <1>9, <2>1, <2>2 DEF ContextOf, Outside
  <2>4. MayUse(t)
    BY <1>1, LookupContext
  <2> QED BY <1>1, <1>2, <1>3, <1>9, <2>1, <2>3, <2>4, ContextStep
<1>13. Resources'
  <2>1. ResourceOK(i)
    BY <1>2, <1>5 DEF Resources
  <2>2. res[i].st = "none" /\ res[i].blk = NoBlock
    BY <1>0, <1>5, <2>1 DEF ResourceOK, NoResource
  <2>3. \A u \in Threads \ {t} : act[u].res # i
    <3>1. SUFFICES ASSUME NEW u \in Threads, act[u].res = i PROVE FALSE
      OBVIOUS
    <3>2. HeldOK(u)
      BY <1>2 DEF Resources
    <3> QED BY <1>5, <2>2, <3>1, <3>2 DEF HeldOK, Held, Creating, Deleting
  <2>4. \A c \in DOMAIN ctx : ~InList(c, i)
    <3>1. SUFFICES ASSUME NEW c \in DOMAIN ctx, InList(c, i) PROVE FALSE
      OBVIOUS
    <3>2. PICK u \in Threads : Linked(u) /\ act[u].res = i
      BY <2>1, <2>2, <3>1 DEF ResourceOK
    <3>3. u # t
      BY <1>3, <1>5, <3>2
    <3> QED BY <2>3, <3>2, <3>3
  <2>5. \A c \in DOMAIN ctx : ~InList(c, i)'
    BY <1>1, <2>4 DEF InList
  <2>6. ResourceOK(i)'
    <3>1. nextRes' = i + 1 /\ ~(nextRes' <= i)
      BY <1>1, <1>5
    <3> QED BY <1>1, <1>6, <1>10, <2>5, <3>1 DEF ResourceOK
  <2>7. HeldOK(t)'
    <3>1. Held(t)' /\ ~Linked(t)'
      BY <1>8, <1>9 DEF Held, Linked, Creating
    <3>2. act'[t].pc \in Creating /\ act'[t].pc \notin Deleting /\ act'[t].pc # "remove"
      BY <1>8, <1>9 DEF Creating, Deleting
    <3> QED BY <1>1, <1>5, <1>6, <1>9, <1>10, <2>5, <3>1, <3>2 DEF HeldOK, InList
  <2>8. BackingOf(t)'
    BY <1>6, <1>8, <1>9, <1>10 DEF BackingOf
  <2>9. BlocksAccounted'
    <3>1. \A j \in Ids : res'[j].blk = res[j].blk
      BY <1>6, <1>10, <2>2
    <3> QED BY <1>1, <1>2, <3>1 DEF Resources, BlocksAccounted
  <2>10. \A j \in Ids \ {i} : nextRes' <= j <=> nextRes <= j
    BY <1>0, <1>1, <1>5 DEF Ids
  <2>11. \A c \in DOMAIN ctx', j \in Ids \ {i} : InList(c, j)' <=> c \in DOMAIN ctx /\ InList(c, j)
    BY <1>1 DEF InList
  <2>12. \A c \in DOMAIN ctx' : ListOK(c)'
    BY <1>1, <1>2 DEF Resources, ListOK
  <2> QED BY <1>1, <1>2, <1>3, <1>5, <1>9, <1>10, <2>3, <2>6, <2>7, <2>8, <2>9, <2>10, <2>11, <2>12,
             ResourceStep
<1> QED BY <1>11, <1>12, <1>13 DEF DInv

\* A block that is free becomes the resource's; or the resource is abandoned.
LEMMA StepAllocateBacking ==
    ASSUME DInv, NEW t \in Threads, AllocateBacking(t)
    PROVE  DInv'
<1>0. PICK i : i = act[t].res
  OBVIOUS
<1>1. /\ act[t].pc = "alloc"
      /\ UNCHANGED <<ctxList, ctx, control, command, lost, hctx, hres, nextCtx, nextRes>>
  BY DEF AllocateBacking, queues, host
<1>2. Held(t) /\ Types /\ Resources
  BY <1>1 DEF Held, Creating, DInv
<1>3. /\ i \in Ids /\ i # 0 /\ res[i] \in Resource /\ act[t].pc \notin Outside
      /\ HeldOK(t) /\ BackingOf(t) /\ ContextOf(t) /\ ResourceOK(i)
  BY <1>0, <1>2, HolderKnows
<1>4. /\ res[i].st = "new" /\ res[i].kind = "buffer" /\ res[i].blk = NoBlock /\ ~act[t].drain
      /\ ~Unlinked(t) /\ \A c \in DOMAIN ctx : ~InList(c, i)
  BY <1>0, <1>1, <1>2, <1>3 DEF HeldOK, BackingOf, ContextOf, Linked, Creating, Deleting, Unlinked
<1>5. \A c \in DOMAIN ctx : ~InList(c, i)'
  BY <1>1, <1>4 DEF InList
<1>6. CASE free = {} /\ Return(t) /\ UNCHANGED <<res, free>>
  <2>1. Went(t, act'[t]) /\ act'[t] = Idle
    BY <1>2, <1>6, Returned
  <2>2. Types'
    BY <1>1, <1>2, <1>6, <2>1 DEF Types, Went
  <2>3. Contexts'
    BY <1>1, <1>3, <1>4, <2>1, UseStep
  <2>4. ResourceOK(i)'
    BY <1>1, <1>3, <1>4, <1>5, <1>6 DEF ResourceOK
  <2>5. HeldOK(t)' /\ BackingOf(t)'
    BY <2>1, Values, HoldsNothingNext DEF Creating, Deleting
  <2>6. BlocksAccounted'
    BY <1>2, <1>6 DEF Resources, BlocksAccounted
  <2>7. Resources'
    BY <1>0, <1>1, <1>2, <1>6, <2>1, <2>4, <2>5, <2>6, Values, HolderStep
  <2> QED BY <2>2, <2>3, <2>7 DEF DInv
<1>7. ASSUME NEW b \in free, free' = free \ {b}, res' = [res EXCEPT ![act[t].res].blk = b], To(t, "attach")
      PROVE  DInv'
  <2> DEFINE x == [res[i] EXCEPT !.blk = b]
  <2>1. /\ Went(t, act'[t]) /\ act'[t].pc = "attach" /\ act'[t].ctx = act[t].ctx
        /\ act'[t].res = i /\ act'[t].drain = act[t].drain
    BY <1>0, <1>2, <1>7, WentTo
  <2>2. b \in Blocks /\ b # NoBlock /\ b \in Blocks \cup {NoBlock}
    BY <1>2, <1>7, Values DEF Types
  <2>3. x \in Resource /\ x.blk = b /\ x.kind = "buffer" /\ x.st = "new"
    BY <1>3, <1>4, <2>2 DEF Resource
  <2>4. res' = [res EXCEPT ![i] = x]
    BY <1>0, <1>7
  <2> HIDE DEF x
  <2>5. res' \in [Ids -> Resource] /\ res'[i] = x /\ \A j \in Ids \ {i} : res'[j] = res[j]
    BY <1>2, <1>3, <2>3, <2>4, ResourceChanged
  <2>6. Types'
    BY <1>1, <1>2, <1>7, <2>1, <2>5 DEF Types, Went
  <2>7. Contexts'
    <3>1. ~Unlinked(t)' /\ ~InScreen(t)' /\ act'[t].pc \notin Outside
      BY <1>4, <2>1 DEF Unlinked, InScreen, Outside
    <3> QED BY <1>1, <1>3, <1>4, <2>1, <3>1, UseStep
  <2>8. ResourceOK(i)'
    BY <1>1, <1>3, <1>4, <1>5, <2>3, <2>5 DEF ResourceOK
  <2>9. HeldOK(t)'
    BY <1>1, <1>3, <1>5, <2>1, <2>3, <2>5 DEF HeldOK, Held, Linked, Creating, Deleting, InList
  <2>10. BackingOf(t)'
    BY <2>1, <2>2, <2>3, <2>5 DEF BackingOf
  <2>11. BlocksAccounted'
    <3>1. Accounts
      BY <1>2, BlockByBlock DEF Resources
    <3>2. \A j \in Ids : res[j].blk # b
      BY <1>7, <2>2, <3>1 DEF Accounts
    <3>3. \A k, j \in Ids : k # j /\ res'[k].blk # NoBlock => res'[k].blk # res'[j].blk
      BY <2>3, <2>5, <3>1, <3>2 DEF Accounts
    <3>4. \A j \in Ids : res'[j].blk # NoBlock => res'[j].blk \notin free'
      BY <1>7, <2>3, <2>5, <3>1 DEF Accounts
    <3>5. \A a \in Blocks \ free' : \E j \in Ids : res'[j].blk = a
      <4>1. SUFFICES ASSUME NEW a \in Blocks \ free' PROVE \E j \in Ids : res'[j].blk = a
        OBVIOUS
      <4>2. CASE a = b
        BY <1>3, <2>3, <2>5, <4>2
      <4>3. CASE a # b
        <5>1. PICK j \in Ids : res[j].blk = a
          BY <1>7, <3>1, <4>3 DEF Accounts
        <5>2. j # i
          BY <1>4, <5>1, Values
        <5> QED BY <2>5, <5>1, <5>2
      <4> QED BY <4>2, <4>3
    <3>6. Accounts'
      BY <3>3, <3>4, <3>5 DEF Accounts
    <3>7. Types' => (BlocksAccounted' <=> Accounts')
      BY BlockByBlock, PTL
    <3> QED BY <2>6, <3>6, <3>7
  <2>12. Resources'
    BY <1>0, <1>1, <1>2, <2>1, <2>5, <2>8, <2>9, <2>10, <2>11, HolderStep
  <2> QED BY <2>6, <2>7, <2>12 DEF DInv
<1> QED BY <1>6, <1>7 DEF AllocateBacking

\* The host is told of the block.
LEMMA StepAttachResourceBacking ==
    ASSUME DInv, NEW t \in Threads, AttachResourceBacking(t)
    PROVE  DInv'
<1>0. PICK i : i = act[t].res
  OBVIOUS
<1>1. /\ act[t].pc = "attach" /\ To(t, "insert")
      /\ PushCommand([op |-> "attach", id |-> i, blk |-> res[i].blk])
      /\ UNCHANGED <<ctxList, ctx, res, free, control, hctx, hres, nextCtx, nextRes>>
  BY <1>0 DEF AttachResourceBacking, driver, host
<1>2. Held(t) /\ Types /\ Resources
  BY <1>1 DEF Held, Creating, DInv
<1>3. /\ i \in Ids /\ i # 0 /\ res[i] \in Resource /\ act[t].pc \notin Outside
      /\ HeldOK(t) /\ BackingOf(t) /\ ContextOf(t) /\ ResourceOK(i)
  BY <1>0, <1>2, HolderKnows
<1>4. /\ res[i].st = "new" /\ res[i].kind = "buffer" /\ res[i].blk # NoBlock /\ ~act[t].drain
      /\ ~Unlinked(t) /\ \A c \in DOMAIN ctx : ~InList(c, i)
  BY <1>0, <1>1, <1>2, <1>3 DEF HeldOK, BackingOf, ContextOf, Linked, Creating, Deleting, Unlinked
<1>5. \A c \in DOMAIN ctx : ~InList(c, i)'
  BY <1>1, <1>4 DEF InList
<1>6. /\ Went(t, act'[t]) /\ act'[t].pc = "insert" /\ act'[t].ctx = act[t].ctx
      /\ act'[t].res = i /\ act'[t].drain = act[t].drain
  BY <1>0, <1>1, <1>2, WentTo
<1>7. Types'
  <2>1. res[i].blk \in Blocks \cup {NoBlock}
    BY <1>3 DEF Resource
  <2>2. command' \in Seq(ResourceCommand) /\ lost' \in BOOLEAN
    BY <1>1, <1>2, <1>3, <2>1, CommandQueued
  <2> QED BY <1>1, <1>2, <1>6, <2>2 DEF Types, Went, ResourceCommand
<1>8. Contexts'
  <2>1. ~Unlinked(t)' /\ ~InScreen(t)' /\ act'[t].pc \notin Outside
    BY <1>4, <1>6 DEF Unlinked, InScreen, Outside
  <2> QED BY <1>1, <1>3, <1>4, <1>6, <2>1, UseStep
<1>9. ResourceOK(i)'
  BY <1>1, <1>3, <1>4, <1>5 DEF ResourceOK
<1>10. HeldOK(t)'
  BY <1>1, <1>3, <1>4, <1>5, <1>6 DEF HeldOK, Held, Linked, Creating, Deleting, InList
<1>11. BackingOf(t)'
  BY <1>1, <1>4, <1>6 DEF BackingOf
<1>12. BlocksAccounted'
  BY <1>1, <1>2 DEF Resources, BlocksAccounted
<1>13. Resources'
  BY <1>0, <1>1, <1>2, <1>6, <1>9, <1>10, <1>11, <1>12, HolderStep
<1> QED BY <1>7, <1>8, <1>13 DEF DInv

\* A step of the holder of a resource that puts it into the list of its context, or takes it out.
LEMMA ListStep ==
    ASSUME DInv, NEW t \in Threads, Went(t, act'[t]), NEW i \in Ids,
           act[t].res \in {0, i}, act'[t].res \in {0, i}, \A u \in Threads \ {t} : act[u].res # i,
           NEW c \in DOMAIN ctx, NEW l \in Seq(Ids), ctx' = [ctx EXCEPT ![c].list = l],
           Range(l) \ {i} = Range(ctx[c].list) \ {i}, IsInjective(l), ~ctx[c].freed,
           UNCHANGED <<free, nextRes>>,
           \A j \in Ids \ {i} : res'[j] = res[j], res'[i].blk = res[i].blk,
           ResourceOK(i)', HeldOK(t)', BackingOf(t)'
    PROVE  Resources'
<1>1. Types /\ Contexts /\ Resources /\ i # 0
  BY Values DEF DInv
<1>2. /\ DOMAIN ctx' = DOMAIN ctx /\ ctx'[c].list = l /\ ~ctx'[c].freed
      /\ \A d \in DOMAIN ctx : d # c => ctx'[d] = ctx[d]
  BY <1>1, ListChanged
<1>3. \A d \in DOMAIN ctx', j \in Ids \ {i} : InList(d, j)' <=> d \in DOMAIN ctx /\ InList(d, j)
  <2>1. \A j \in Ids \ {i} : InList(c, j)' <=> InList(c, j)
    BY <1>2 DEF InList
  <2>2. \A d \in DOMAIN ctx, j \in Ids : d # c => (InList(d, j)' <=> InList(d, j))
    BY <1>2 DEF InList
  <2> QED BY <1>2, <2>1, <2>2
<1>4. \A d \in DOMAIN ctx' : ListOK(d)'
  <2>1. ListOK(c)'
    BY <1>2 DEF ListOK
  <2>2. \A d \in DOMAIN ctx : d # c => ListOK(d)'
    BY <1>1, <1>2 DEF Resources, ListOK
  <2> QED BY <1>2, <2>1, <2>2
<1>5. BlocksAccounted'
  <2>1. \A j \in Ids : res'[j].blk = res[j].blk
    OBVIOUS
  <2> QED BY <1>1, <2>1 DEF Resources, BlocksAccounted
<1>6. \A u \in Threads \ {t} : act'[u] = act[u]
  BY DEF Went
<1> QED BY <1>1, <1>2, <1>3, <1>4, <1>5, <1>6, ResourceStep

\* The resource goes into the list of its context.
LEMMA StepInsertResource ==
    ASSUME DInv, NEW t \in Threads, InsertResource(t)
    PROVE  DInv'
<1>0. PICK i, c : i = act[t].res /\ c = act[t].ctx
  OBVIOUS
<1> DEFINE l == <<i>> \o ctx[c].list
<1>1. /\ act[t].pc = "insert" /\ ctx' = [ctx EXCEPT ![c].list = l]
      /\ IF res[i].kind = "blob" THEN To(t, "mapblob") /\ UNCHANGED res
         ELSE Return(t) /\ res' = [res EXCEPT ![i].st = "known"]
      /\ UNCHANGED <<ctxList, free, control, command, lost, hctx, hres, nextCtx, nextRes>>
  BY <1>0 DEF InsertResource, queues, host
<1>2. Held(t) /\ Types /\ Resources
  BY <1>1 DEF Held, Creating, DInv
<1>3. /\ i \in Ids /\ i # 0 /\ res[i] \in Resource /\ act[t].pc \notin Outside /\ c \in DOMAIN ctx
      /\ HeldOK(t) /\ BackingOf(t) /\ ContextOf(t) /\ ResourceOK(i)
      /\ \A u \in Threads \ {t} : act[u].res # i
  BY <1>0, <1>2, HolderKnows
<1>4. /\ res[i].st = "new" /\ (res[i].kind = "buffer" <=> res[i].blk # NoBlock) /\ ~act[t].drain
      /\ ~Unlinked(t) /\ ~ctx[c].freed /\ \A d \in DOMAIN ctx : ~InList(d, i)
  BY <1>0, <1>1, <1>2, <1>3
     DEF HeldOK, BackingOf, ContextOf, Linked, Creating, Deleting, Unlinked, Live
<1>5. /\ ctx[c].list \in Seq(Ids) /\ IsInjective(ctx[c].list) /\ i \notin Range(ctx[c].list)
  <2>1. ctx[c] \in Context
    BY <1>2, <1>3 DEF Types
  <2> QED BY <1>2, <1>3, <1>4, <2>1 DEF Context, Resources, ListOK, InList
<1>6. l \in Seq(Ids) /\ Range(l) = {i} \cup Range(ctx[c].list) /\ IsInjective(l)
  BY <1>3, <1>5, Inserted
<1> HIDE DEF l
<1>7. /\ ctx' \in Seq(Context) /\ Len(ctx') = Len(ctx) /\ DOMAIN ctx' = DOMAIN ctx
      /\ ctx'[c].list = l
      /\ \A d \in DOMAIN ctx : /\ ctx'[d].proc = ctx[d].proc /\ ctx'[d].freed = ctx[d].freed
                               /\ d # c => ctx'[d] = ctx[d]
  BY <1>1, <1>2, <1>3, <1>6, ListChanged
<1>8. \A d \in DOMAIN ctx : InList(d, i)' <=> d = c
  BY <1>3, <1>4, <1>6, <1>7 DEF InList
<1>9. CASE res[i].kind = "blob"
  <2>1. /\ Went(t, act'[t]) /\ act'[t].pc = "mapblob" /\ act'[t].ctx = c
        /\ act'[t].res = i /\ act'[t].drain = act[t].drain /\ res' = res
    BY <1>0, <1>1, <1>2, <1>9, WentTo
  <2>2. Types'
    BY <1>1, <1>2, <1>7, <2>1 DEF Types, Went
  <2>3. Contexts'
    <3>1. ~Unlinked(t)' /\ ~InScreen(t)' /\ act'[t].pc \notin Outside
      BY <1>4, <2>1 DEF Unlinked, InScreen, Outside
    <3> QED BY <1>0, <1>1, <1>3, <1>4, <1>7, <2>1, <3>1, UseStep
  <2>4. ResourceOK(i)'
    <3>1. Linked(t)'
      BY <2>1 DEF Linked
    <3> QED BY <1>1, <1>3, <1>4, <1>7, <1>8, <2>1, <3>1 DEF ResourceOK
  <2>5. HeldOK(t)'
    <3>1. i \in Range(ctx'[c].list)
      BY <1>6, <1>7
    <3> QED BY <1>3, <1>4, <2>1, <3>1 DEF HeldOK, Held, Linked, Creating, Deleting, InList
  <2>6. BackingOf(t)'
    BY <1>4, <1>9, <2>1 DEF BackingOf
  <2>7. Resources'
    BY <1>0, <1>1, <1>3, <1>4, <1>6, <2>1, <2>4, <2>5, <2>6, ListStep
  <2> QED BY <2>2, <2>3, <2>7 DEF DInv
<1>10. CASE res[i].kind # "blob"
  <2> DEFINE x == [res[i] EXCEPT !.st = "known"]
  <2>1. Went(t, act'[t]) /\ act'[t] = Idle
    BY <1>1, <1>2, <1>10, Returned
  <2>2. x \in Resource /\ x.st = "known" /\ x.kind = res[i].kind /\ x.blk = res[i].blk
    BY <1>3 DEF Resource
  <2>3. res' = [res EXCEPT ![i] = x]
    BY <1>1, <1>10
  <2> HIDE DEF x
  <2>4. res' \in [Ids -> Resource] /\ res'[i] = x /\ \A j \in Ids \ {i} : res'[j] = res[j]
    BY <1>2, <1>3, <2>2, <2>3, ResourceChanged
  <2>5. Types'
    BY <1>1, <1>2, <1>7, <2>1, <2>4 DEF Types, Went
  <2>6. Contexts'
    BY <1>0, <1>1, <1>3, <1>4, <1>7, <2>1, UseStep
  <2>7. ResourceOK(i)'
    BY <1>1, <1>3, <1>4, <1>7, <1>8, <2>2, <2>4 DEF ResourceOK
  <2>8. HeldOK(t)' /\ BackingOf(t)'
    BY <2>1, Values, HoldsNothingNext DEF Creating, Deleting
  <2>9. act'[t].res \in {0, i} /\ act[t].res \in {0, i} /\ res'[i].blk = res[i].blk
    BY <1>0, <2>1, <2>2, <2>4, Values
  <2>10. Resources'
    BY <1>1, <1>3, <1>4, <1>6, <2>1, <2>4, <2>7, <2>8, <2>9, ListStep
  <2> QED BY <2>5, <2>6, <2>10 DEF DInv
<1> QED BY <1>9, <1>10

\* The blob's mapping is pushed and the client has its handle.
LEMMA StepMapBlobResource ==
    ASSUME DInv, NEW t \in Threads, MapBlobResource(t)
    PROVE  DInv'
<1>0. PICK i : i = act[t].res
  OBVIOUS
<1> DEFINE x == [res[i] EXCEPT !.st = "known"]
<1>1. /\ act[t].pc = "mapblob" /\ Return(t) /\ res' = [res EXCEPT ![i] = x]
      /\ PushCommand([op |-> "map", id |-> i, blk |-> NoBlock])
      /\ UNCHANGED <<ctxList, ctx, free, control, hctx, hres, nextCtx, nextRes>>
  BY <1>0 DEF MapBlobResource, host
<1>2. Held(t) /\ Types /\ Resources
  BY <1>1 DEF Held, Creating, DInv
<1>3. /\ i \in Ids /\ i # 0 /\ res[i] \in Resource /\ act[t].pc \notin Outside
      /\ act[t].ctx \in DOMAIN ctx
      /\ HeldOK(t) /\ BackingOf(t) /\ ContextOf(t) /\ ResourceOK(i)
  BY <1>0, <1>2, HolderKnows
<1>4. /\ res[i].st = "new" /\ (res[i].kind = "buffer" <=> res[i].blk # NoBlock) /\ ~act[t].drain
      /\ ~Unlinked(t) /\ InList(act[t].ctx, i)
  BY <1>0, <1>1, <1>2, <1>3 DEF HeldOK, BackingOf, ContextOf, Linked, Creating, Deleting, Unlinked
<1>5. Went(t, act'[t]) /\ act'[t] = Idle
  BY <1>1, <1>2, Returned
<1>6. x \in Resource /\ x.st = "known" /\ x.kind = res[i].kind /\ x.blk = res[i].blk
  BY <1>3 DEF Resource
<1> HIDE DEF x
<1>7. res' \in [Ids -> Resource] /\ res'[i] = x /\ \A j \in Ids \ {i} : res'[j] = res[j]
  BY <1>1, <1>2, <1>3, <1>6, ResourceChanged
<1>8. Types'
  <2>1. command' \in Seq(ResourceCommand) /\ lost' \in BOOLEAN
    BY <1>1, <1>2, <1>3, CommandQueued
  <2> QED BY <1>1, <1>2, <1>5, <1>7, <2>1 DEF Types, Went, ResourceCommand
<1>9. Contexts'
  BY <1>1, <1>3, <1>4, <1>5, UseStep
<1>10. ResourceOK(i)'
  <2>1. \A c \in DOMAIN ctx : InList(c, i)' <=> InList(c, i)
    BY <1>1 DEF InList
  <2> QED BY <1>1, <1>3, <1>4, <1>6, <1>7, <2>1 DEF ResourceOK
<1>11. HeldOK(t)' /\ BackingOf(t)'
  BY <1>5, Values, HoldsNothingNext DEF Creating, Deleting
<1>12. BlocksAccounted'
  <2>1. \A j \in Ids : res'[j].blk = res[j].blk
    BY <1>6, <1>7
  <2> QED BY <1>1, <1>2, <2>1 DEF Resources, BlocksAccounted
<1>13. Resources'
  BY <1>0, <1>1, <1>2, <1>5, <1>7, <1>10, <1>11, <1>12, Values, HolderStep
<1> QED BY <1>8, <1>9, <1>13 DEF DInv

\* A known resource in a list is in nobody's hands.
LEMMA ListedNotHeld ==
    ASSUME DInv, NEW i \in Ids, NEW c \in DOMAIN ctx, InList(c, i), res[i].st = "known"
    PROVE  \A u \in Threads : act[u].res # i
<1>1. SUFFICES ASSUME NEW u \in Threads, act[u].res = i PROVE FALSE
  OBVIOUS
<1>2. HeldOK(u) /\ i # 0
  BY Values DEF DInv, Resources
<1> QED BY <1>1, <1>2 DEF HeldOK, Held, Linked, Creating, Deleting

\* A client closes a handle: the resource is in the hands of its handler.
LEMMA StepCloseLookup ==
    ASSUME DInv, WInv, NEW t \in Threads, NEW i \in Ids, CloseLookup(t, i)
    PROVE  DInv'
<1> DEFINE x == [res[i] EXCEPT !.st = "closing"]
           c == Reaches(t)
           r == [Idle EXCEPT !.ctx = c, !.res = i, !.pc = "remove"]
<1>1. /\ Finds(t) /\ res[i].st = "known" /\ InList(c, i)
      /\ res' = [res EXCEPT ![i] = x] /\ act' = [act EXCEPT ![t] = r]
      /\ UNCHANGED <<ctxList, ctx, free, control, command, lost, hctx, hres, nextCtx, nextRes>>
  BY DEF CloseLookup, InList, queues, host
<1>2. Types /\ Contexts /\ Resources /\ ResourceOK(i) /\ i # 0 /\ res[i] \in Resource
  BY Values DEF DInv, Resources, Types
<1>3. act[t].ctx = 0 /\ act[t].res = 0 /\ act[t].drain = FALSE /\ ~Unlinked(t) /\ ~InScreen(t)
  BY <1>1, LookupContext, IdleHandler
<1>4. OnList(c) /\ Live(c) /\ ctx[c].proc = Proc[t] /\ c \in CtxIds /\ c \in DOMAIN ctx
  BY <1>1, LookupContext DEF Live
<1>5. x \in Resource /\ x.kind = res[i].kind /\ x.st = "closing" /\ x.blk = res[i].blk
  BY <1>2 DEF Resource
<1>6. /\ r \in Activity /\ r.pc = "remove" /\ r.ctx = c /\ r.res = i /\ r.drain = FALSE
  BY <1>2, <1>4 DEF Idle, Activity
<1> HIDE DEF x, r
<1>7. /\ Went(t, act'[t]) /\ act'[t].pc = "remove" /\ act'[t].ctx = c /\ act'[t].res = i
      /\ act'[t].drain = FALSE /\ \A u \in Threads \ {t} : act'[u] = act[u]
  <2>1. act \in [Threads -> Activity]
    BY <1>2 DEF Types
  <2>2. act'[t] = r /\ act' \in [Threads -> Activity] /\ \A u \in Threads \ {t} : act'[u] = act[u]
    BY <1>1, <1>6, <2>1
  <2> QED BY <1>6, <2>2 DEF Went
<1>8. PICK d \in DOMAIN ctx : d = c
  BY <1>4
<1> HIDE DEF c
<1>9. res' \in [Ids -> Resource] /\ res'[i] = x /\ \A j \in Ids \ {i} : res'[j] = res[j]
  BY <1>1, <1>2, <1>5, ResourceChanged
<1>10. Types'
  BY <1>1, <1>2, <1>7, <1>9 DEF Types, Went
<1>11. Contexts'
  <2>1. ~Unlinked(t)' /\ ~InScreen(t)'
    BY <1>7 DEF Unlinked, InScreen
  <2>2. Live(act[t].ctx)' /\ OnList(act[t].ctx)' /\ ctx'[act'[t].ctx].proc = Proc[t]
    BY <1>1, <1>4, <1>7 DEF Live, OnList
  <2>3. ContextOf(t)'
    BY <1>7, <2>1, <2>2 DEF ContextOf, Outside
  <2>4. MayUse(t)
    BY <1>1, LookupContext
  <2> QED BY <1>1, <1>2, <1>3, <1>7, <2>1, <2>3, <2>4, ContextStep
<1>12. Resources'
  <2>1. \A u \in Threads \ {t} : act[u].res # i
    BY <1>1, <1>4, ListedNotHeld
  <2>2. \A e \in DOMAIN ctx, j \in Ids : InList(e, j)' <=> InList(e, j)
    BY <1>1 DEF InList
  <2>3. InList(d, i) /\ act'[t].ctx = d /\ ctx' = ctx
    BY <1>1, <1>7, <1>8
  <2>4. ResourceOK(i)'
    <3>1. Linked(t)'
      BY <1>7 DEF Linked
    <3>2. \A e \in DOMAIN ctx : InList(e, i)' => e = d
      BY <1>2, <2>2, <2>3 DEF ResourceOK
    <3>3. nextRes' = nextRes /\ ~(nextRes <= i) /\ res'[i].st = "closing" /\ res'[i].kind = res[i].kind
          /\ res'[i].blk = res[i].blk
      BY <1>1, <1>2, <1>5, <1>9 DEF ResourceOK
    <3>4. (res[i].kind = "buffer" <=> res[i].blk # NoBlock)
      BY <1>2, <2>3 DEF ResourceOK
    <3> QED BY <1>7, <2>3, <3>1, <3>2, <3>3, <3>4 DEF ResourceOK
  <2>5. HeldOK(t)'
    <3>1. i \in Range(ctx'[d].list)
      BY <2>3 DEF InList
    <3> QED BY <1>2, <1>5, <1>7, <1>9, <2>3, <3>1 DEF HeldOK, Held, Linked, Creating, Deleting, InList
  <2>6. BackingOf(t)'
    <3>1. (res[i].kind = "buffer" <=> res[i].blk # NoBlock)
      BY <1>2, <2>3 DEF ResourceOK
    <3> QED BY <1>5, <1>7, <1>9, <3>1 DEF BackingOf
  <2>7. BlocksAccounted'
    <3>1. \A j \in Ids : res'[j].blk = res[j].blk
      BY <1>5, <1>9
    <3> QED BY <1>1, <1>2, <3>1 DEF Resources, BlocksAccounted
  <2>8. \A e \in DOMAIN ctx' : ListOK(e)'
    BY <1>1, <1>2 DEF Resources, ListOK
  <2> QED BY <1>1, <1>2, <1>3, <1>7, <1>9, <2>1, <2>2, <2>4, <2>5, <2>6, <2>7, <2>8, ResourceStep
<1> QED BY <1>10, <1>11, <1>12 DEF DInv

\* DeleteResource begins with a resource that is in no list.
LEMMA StepCloseRemove ==
    ASSUME DInv, NEW t \in Threads, CloseRemove(t)
    PROVE  DInv'
<1>0. PICK i, c : i = act[t].res /\ c = act[t].ctx
  OBVIOUS
<1> DEFINE l == RemoveFirst(ctx[c].list, i)
<1>1. /\ act[t].pc = "remove" /\ ctx' = [ctx EXCEPT ![c].list = l] /\ To(t, DeletePc(i))
      /\ UNCHANGED <<ctxList, res, free, control, command, lost, hctx, hres, nextCtx, nextRes>>
  BY <1>0 DEF CloseRemove, queues, host
<1>2. Held(t) /\ Types /\ Resources
  BY <1>1 DEF Held, DInv
<1>3. /\ i \in Ids /\ i # 0 /\ res[i] \in Resource /\ act[t].pc \notin Outside /\ c \in DOMAIN ctx
      /\ HeldOK(t) /\ BackingOf(t) /\ ContextOf(t) /\ ResourceOK(i)
      /\ \A u \in Threads \ {t} : act[u].res # i
  BY <1>0, <1>2, HolderKnows
<1>4. /\ res[i].st = "closing" /\ (res[i].kind = "buffer" <=> res[i].blk # NoBlock) /\ ~act[t].drain
      /\ ~Unlinked(t) /\ ~ctx[c].freed /\ InList(c, i)
  BY <1>0, <1>1, <1>2, <1>3
     DEF HeldOK, BackingOf, ContextOf, Linked, Creating, Deleting, Unlinked, Live, Outside
<1>5. /\ ctx[c].list \in Seq(Ids) /\ IsInjective(ctx[c].list) /\ i \in Range(ctx[c].list)
  <2>1. ctx[c] \in Context
    BY <1>2, <1>3 DEF Types
  <2> QED BY <1>2, <1>3, <1>4, <2>1 DEF Context, Resources, ListOK, InList
<1>6. l \in Seq(Ids) /\ Range(l) = Range(ctx[c].list) \ {i} /\ IsInjective(l)
  BY <1>5, Removed
<1> HIDE DEF l
<1>7. /\ ctx' \in Seq(Context) /\ Len(ctx') = Len(ctx) /\ DOMAIN ctx' = DOMAIN ctx
      /\ ctx'[c].list = l
      /\ \A d \in DOMAIN ctx : /\ ctx'[d].proc = ctx[d].proc /\ ctx'[d].freed = ctx[d].freed
                               /\ d # c => ctx'[d] = ctx[d]
  BY <1>1, <1>2, <1>3, <1>6, ListChanged
<1>8. \A d \in DOMAIN ctx : ~InList(d, i)'
  <2>1. \A d \in DOMAIN ctx : InList(d, i) => d = c
    BY <1>3, <1>4 DEF ResourceOK
  <2> QED BY <1>6, <1>7, <2>1 DEF InList
<1>9. /\ DeletePc(i) \in {"unref", "detach"} /\ (DeletePc(i) = "unref" <=> res[i].kind = "plain")
  BY DEF DeletePc
<1>10. /\ Went(t, act'[t]) /\ act'[t].pc = DeletePc(i) /\ act'[t].ctx = c
       /\ act'[t].res = i /\ act'[t].drain = act[t].drain
  BY <1>0, <1>1, <1>2, <1>9, WentTo
<1>11. Types'
  BY <1>1, <1>2, <1>7, <1>10 DEF Types, Went
<1>12. Contexts'
  <2>1. ~Unlinked(t)' /\ ~InScreen(t)' /\ act'[t].pc \notin Outside
    BY <1>4, <1>9, <1>10 DEF Unlinked, InScreen, Outside
  <2> QED BY <1>0, <1>1, <1>3, <1>4, <1>7, <1>9, <1>10, <2>1, UseStep
<1>13. ResourceOK(i)'
  BY <1>1, <1>3, <1>4, <1>7, <1>8, <1>10 DEF ResourceOK
<1>14. HeldOK(t)'
  <2>1. Held(t)' /\ ~Linked(t)' /\ act'[t].pc \notin Creating /\ act'[t].pc # "remove"
    BY <1>9, <1>10 DEF Held, Linked, Creating, Deleting
  <2>2. \A d \in DOMAIN ctx' : i \notin Range(ctx'[d].list)
    BY <1>7, <1>8 DEF InList
  <2> QED BY <1>1, <1>3, <1>4, <1>10, <2>1, <2>2 DEF HeldOK, InList
<1>15. BackingOf(t)'
  BY <1>1, <1>4, <1>9, <1>10 DEF BackingOf
<1>16. Resources'
  BY <1>0, <1>1, <1>3, <1>4, <1>6, <1>10, <1>13, <1>14, <1>15, ListStep
<1> QED BY <1>11, <1>12, <1>16 DEF DInv

\* What a handler that deletes a resource knows.
LEMMA DeleterKnows ==
    ASSUME DInv, NEW t \in Threads, act[t].pc \in Deleting
    PROVE  /\ Held(t) /\ act[t].res \in Ids /\ act[t].res # 0 /\ res[act[t].res] \in Resource
           /\ act[t].pc \notin Outside /\ act[t].ctx \in DOMAIN ctx
           /\ HeldOK(t) /\ BackingOf(t) /\ ContextOf(t) /\ ResourceOK(act[t].res)
           /\ res[act[t].res].st = IF act[t].drain THEN "known" ELSE "closing"
           /\ \A c \in DOMAIN ctx : ~InList(c, act[t].res)
           /\ Unlinked(t) <=> act[t].drain
           /\ InScreen(t) <=> act[t].drain
<1>1. Held(t) /\ ~Linked(t)
  BY DEF Held, Linked, Deleting
<1>2. HeldOK(t)
  BY <1>1, HolderKnows
<1>3. /\ res[act[t].res].st = IF act[t].drain THEN "known" ELSE "closing"
      /\ \A c \in DOMAIN ctx : ~InList(c, act[t].res)
  BY <1>1, <1>2 DEF HeldOK
<1>4. (Unlinked(t) <=> act[t].drain) /\ (InScreen(t) <=> act[t].drain)
  BY DEF Unlinked, InScreen, Deleting
<1> QED BY <1>1, <1>3, <1>4, HolderKnows

\* The step of DeleteResource that goes on with the same resource, which gets the memory of x.
LEMMA DeleteStep ==
    ASSUME DInv, NEW t \in Threads, act[t].pc \in Deleting, NEW pc \in Deleting, To(t, pc),
           NEW i, i = act[t].res, NEW x \in Resource, res' = [res EXCEPT ![i] = x],
           x.kind = res[i].kind, x.st = res[i].st, x.blk \in {res[i].blk, NoBlock},
           UNCHANGED <<ctxList, ctx, control, hctx, hres, nextCtx, nextRes>>,
           command' \in Seq(ResourceCommand), lost' \in BOOLEAN, free' \subseteq Blocks,
           pc = "free" => x.kind = "buffer" /\ x.blk # NoBlock,
           pc = "unref" => x.blk = NoBlock,
           pc # "detach",
           Types' => BlocksAccounted'
    PROVE  DInv'
<1>1. Types /\ Resources
  BY DEF DInv
<1>2. /\ Held(t) /\ i \in Ids /\ i # 0 /\ res[i] \in Resource
      /\ act[t].pc \notin Outside /\ act[t].ctx \in DOMAIN ctx
      /\ HeldOK(t) /\ BackingOf(t) /\ ContextOf(t) /\ ResourceOK(i)
      /\ res[i].st = (IF act[t].drain THEN "known" ELSE "closing")
      /\ \A c \in DOMAIN ctx : ~InList(c, i)
      /\ (Unlinked(t) <=> act[t].drain) /\ (InScreen(t) <=> act[t].drain)
  BY DeleterKnows
<1>3. /\ Went(t, act'[t]) /\ act'[t].pc = pc /\ act'[t].ctx = act[t].ctx
      /\ act'[t].res = i /\ act'[t].drain = act[t].drain
  <2>1. pc \in {"detach", "free", "unref"}
    BY DEF Deleting
  <2> QED BY <1>1, <2>1, WentTo
<1>4. res' \in [Ids -> Resource] /\ res'[i] = x /\ \A j \in Ids \ {i} : res'[j] = res[j]
  BY <1>1, <1>2, ResourceChanged
<1>5. Types'
  BY <1>1, <1>3, <1>4 DEF Types, Went, ResourceCommand
<1>6. Contexts'
  <2>1. /\ (Unlinked(t)' <=> Unlinked(t)) /\ (InScreen(t)' => InScreen(t))
        /\ act'[t].pc \notin Outside /\ act'[t].pc # "ctxdestroy"
    BY <1>2, <1>3 DEF Unlinked, InScreen, Outside, Deleting
  <2> QED BY <1>2, <1>3, <2>1, UseStep
<1>7. \A c \in DOMAIN ctx : ~InList(c, i)'
  BY <1>2 DEF InList
<1>8. ResourceOK(i)'
  BY <1>2, <1>3, <1>4, <1>7 DEF ResourceOK
<1>9. HeldOK(t)'
  <2>1. Held(t)' /\ ~Linked(t)' /\ act'[t].pc \notin Creating /\ act'[t].pc # "remove"
    BY <1>3 DEF Held, Linked, Creating, Deleting
  <2>2. \A d \in DOMAIN ctx' : i \notin Range(ctx'[d].list)
    BY <1>7 DEF InList
  <2> QED BY <1>2, <1>3, <1>4, <2>1, <2>2 DEF HeldOK, InList
<1>10. BackingOf(t)'
  BY <1>3, <1>4 DEF BackingOf, Deleting
<1>11. Resources'
  BY <1>2, <1>3, <1>4, <1>5, <1>8, <1>9, <1>10, HolderStep
<1> QED BY <1>5, <1>6, <1>11 DEF DInv

\* The host is told that the memory goes, or the mapping.
LEMMA StepDetachBacking ==
    ASSUME DInv, NEW t \in Threads, DetachBacking(t)
    PROVE  DInv'
<1>0. PICK i : i = act[t].res
  OBVIOUS
<1>1. /\ act[t].pc = "detach"
      /\ IF res[i].kind = "blob"
         THEN PushCommand([op |-> "unmap", id |-> i, blk |-> NoBlock]) /\ To(t, "unref")
         ELSE PushCommand([op |-> "detach", id |-> i, blk |-> NoBlock]) /\ To(t, "free")
      /\ UNCHANGED <<ctxList, ctx, res, free, control, hctx, hres, nextCtx, nextRes>>
  BY <1>0 DEF DetachBacking, driver, host
<1>2. act[t].pc \in Deleting /\ Types
  BY <1>1 DEF Deleting, DInv
<1>3. i \in Ids /\ res[i] \in Resource /\ BackingOf(t)
  BY <1>0, <1>2, DeleterKnows
<1>4. res[i].kind # "plain" /\ (res[i].kind = "buffer" <=> res[i].blk # NoBlock)
      /\ res[i].kind \in {"plain", "buffer", "blob"}
  BY <1>0, <1>1, <1>3 DEF BackingOf, Resource
<1>5. command' \in Seq(ResourceCommand) /\ lost' \in BOOLEAN
  BY <1>1, <1>2, <1>3, CommandQueued
<1>6. free' \subseteq Blocks /\ BlocksAccounted'
  BY <1>1 DEF DInv, Resources, BlocksAccounted, Types
<1>7. PICK x \in Resource : x = res[i]
  BY <1>3
<1>8. /\ res' = [res EXCEPT ![i] = x]
      /\ x.blk \in {res[i].blk, NoBlock} /\ x.kind = res[i].kind /\ x.st = res[i].st
      /\ UNCHANGED <<ctxList, ctx, control, hctx, hres, nextCtx, nextRes>>
  BY <1>1, <1>2, <1>7 DEF Types
<1>9. CASE res[i].kind = "blob"
  <2>1. To(t, "unref") /\ "unref" \in Deleting /\ x.blk = NoBlock
    BY <1>1, <1>4, <1>7, <1>9 DEF Deleting
  <2> QED BY <1>0, <1>2, <1>5, <1>6, <1>8, <2>1, DeleteStep
<1>10. CASE res[i].kind # "blob"
  <2>1. To(t, "free") /\ "free" \in Deleting /\ x.kind = "buffer" /\ x.blk # NoBlock
    BY <1>1, <1>4, <1>7, <1>10 DEF Deleting
  <2> QED BY <1>0, <1>2, <1>5, <1>6, <1>8, <2>1, DeleteStep
<1> QED BY <1>9, <1>10

\* The block is free again.
LEMMA StepFreeBacking ==
    ASSUME DInv, NEW t \in Threads, FreeBacking(t)
    PROVE  DInv'
<1>0. PICK i : i = act[t].res
  OBVIOUS
<1> DEFINE x == [res[i] EXCEPT !.blk = NoBlock]
<1>1. /\ act[t].pc = "free" /\ free' = free \cup {res[i].blk} /\ res' = [res EXCEPT ![i] = x]
      /\ To(t, "unref")
      /\ UNCHANGED <<ctxList, ctx, control, command, lost, hctx, hres, nextCtx, nextRes>>
  BY <1>0 DEF FreeBacking, queues, host
<1>2. act[t].pc \in Deleting /\ Types /\ Resources
  BY <1>1 DEF Deleting, DInv
<1>3. i \in Ids /\ res[i] \in Resource /\ BackingOf(t)
  BY <1>0, <1>2, DeleterKnows
<1>4. x \in Resource /\ x.kind = res[i].kind /\ x.st = res[i].st /\ x.blk = NoBlock
  BY <1>3 DEF Resource
<1>5. res[i].blk # NoBlock /\ res[i].blk \in Blocks
  BY <1>0, <1>1, <1>3 DEF BackingOf, Resource
<1> HIDE DEF x
<1>6. res' \in [Ids -> Resource] /\ res'[i] = x /\ \A j \in Ids \ {i} : res'[j] = res[j]
  BY <1>1, <1>2, <1>3, <1>4, ResourceChanged
<1>7. free' \subseteq Blocks
  BY <1>1, <1>2, <1>5 DEF Types
<1>8. Types' => BlocksAccounted'
  <2>1. Accounts
    BY <1>2, BlockByBlock DEF Resources
  <2>2. \A j \in Ids : j # i => res[j].blk # res[i].blk
    BY <1>3, <1>5, <2>1 DEF Accounts
  <2>3. \A k, j \in Ids : k # j /\ res'[k].blk # NoBlock => res'[k].blk # res'[j].blk
    BY <1>4, <1>6, <2>1 DEF Accounts
  <2>4. \A j \in Ids : res'[j].blk # NoBlock => res'[j].blk \notin free'
    BY <1>1, <1>4, <1>6, <2>1, <2>2 DEF Accounts
  <2>5. \A a \in Blocks \ free' : \E j \in Ids : res'[j].blk = a
    <3>1. SUFFICES ASSUME NEW a \in Blocks \ free' PROVE \E j \in Ids : res'[j].blk = a
      OBVIOUS
    <3>2. PICK j \in Ids : res[j].blk = a
      BY <1>1, <2>1, <3>1 DEF Accounts
    <3>3. j # i
      BY <1>1, <3>1, <3>2
    <3> QED BY <1>6, <3>2, <3>3
  <2>6. Accounts'
    BY <2>3, <2>4, <2>5 DEF Accounts
  <2>7. Types' => (BlocksAccounted' <=> Accounts')
    BY BlockByBlock, PTL
  <2> QED BY <2>6, <2>7
<1>9. command' \in Seq(ResourceCommand) /\ lost' \in BOOLEAN
  BY <1>1, <1>2 DEF Types, ResourceCommand
<1>10. "unref" \in Deleting
  BY DEF Deleting
<1> QED BY <1>0, <1>1, <1>2, <1>3, <1>4, <1>7, <1>8, <1>9, <1>10, DeleteStep, ZenonT(40)

\* The VIRGL_RESOURCE goes back to the look-aside list: nobody has it any more.
LEMMA StepUnrefResource ==
    ASSUME DInv, NEW t \in Threads, UnrefResource(t)
    PROVE  DInv'
<1>0. PICK i : i = act[t].res
  OBVIOUS
<1> DEFINE x == [res[i] EXCEPT !.st = "dead"]
<1>1. /\ act[t].pc = "unref" /\ res' = [res EXCEPT ![i] = x]
      /\ PushCommand([op |-> "unref", id |-> i, blk |-> NoBlock])
      /\ IF act[t].drain THEN act' = [act EXCEPT ![t].pc = "drain", ![t].res = 0] ELSE Return(t)
      /\ UNCHANGED <<ctxList, ctx, free, control, hctx, hres, nextCtx, nextRes>>
  BY <1>0 DEF UnrefResource, host
<1>2. act[t].pc \in Deleting /\ Types /\ Resources /\ act[t] \in Activity
  BY <1>1 DEF Deleting, DInv, Types
<1>3. /\ Held(t) /\ i \in Ids /\ i # 0 /\ res[i] \in Resource
      /\ act[t].pc \notin Outside /\ act[t].ctx \in DOMAIN ctx
      /\ HeldOK(t) /\ BackingOf(t) /\ ContextOf(t) /\ ResourceOK(i)
      /\ res[i].st = (IF act[t].drain THEN "known" ELSE "closing")
      /\ \A c \in DOMAIN ctx : ~InList(c, i)
      /\ (Unlinked(t) <=> act[t].drain) /\ (InScreen(t) <=> act[t].drain)
  BY <1>0, <1>2, DeleterKnows
<1>4. x \in Resource /\ x.kind = res[i].kind /\ x.st = "dead" /\ x.blk = res[i].blk
  BY <1>3 DEF Resource
<1> HIDE DEF x
<1>5. res' \in [Ids -> Resource] /\ res'[i] = x /\ \A j \in Ids \ {i} : res'[j] = res[j]
  BY <1>1, <1>2, <1>3, <1>4, ResourceChanged
<1>6. command' \in Seq(ResourceCommand) /\ lost' \in BOOLEAN
  BY <1>1, <1>2, <1>3, CommandQueued
<1>7. \A c \in DOMAIN ctx : ~InList(c, i)'
  BY <1>1, <1>3 DEF InList
<1>8. ResourceOK(i)'
  BY <1>1, <1>3, <1>4, <1>5, <1>7 DEF ResourceOK
<1>9. BlocksAccounted'
  <2>1. \A j \in Ids : res'[j].blk = res[j].blk
    BY <1>4, <1>5
  <2> QED BY <1>1, <1>2, <2>1 DEF Resources, BlocksAccounted
<1>10. /\ Went(t, act'[t]) /\ act'[t].res = 0
       /\ act[t].drain => act'[t].pc = "drain" /\ act'[t].ctx = act[t].ctx /\ act'[t].drain
       /\ ~act[t].drain => act'[t] = Idle
  <2>1. CASE act[t].drain
    <3> DEFINE r == [act[t] EXCEPT !.pc = "drain", !.res = 0]
    <3>1. r \in Activity /\ r.pc = "drain" /\ r.ctx = act[t].ctx /\ r.res = 0 /\ r.drain = act[t].drain
      BY <1>2 DEF Activity
    <3>2. act' = [act EXCEPT ![t] = r] /\ act \in [Threads -> Activity]
      BY <1>1, <1>2, <2>1 DEF Types
    <3> HIDE DEF r
    <3>3. act'[t] = r /\ act' \in [Threads -> Activity] /\ \A u \in Threads \ {t} : act'[u] = act[u]
      BY <3>1, <3>2
    <3> QED BY <2>1, <3>1, <3>3 DEF Went
  <2>2. CASE ~act[t].drain
    BY <1>1, <1>2, <2>2, Returned, Values
  <2> QED BY <2>1, <2>2
<1>11. Types'
  BY <1>1, <1>2, <1>5, <1>6, <1>10 DEF Types, Went, ResourceCommand
<1>12. Contexts'
  <2>1. CASE act[t].drain
    <3>1. Unlinked(t)' /\ act'[t].pc \notin Outside /\ act'[t].pc # "ctxdestroy"
      BY <1>10, <2>1 DEF Unlinked, Outside
    <3> QED BY <1>1, <1>3, <1>10, <2>1, <3>1, UseStep
  <2>2. CASE ~act[t].drain
    BY <1>1, <1>3, <1>10, <2>2, UseStep
  <2> QED BY <2>1, <2>2
<1>13. HeldOK(t)' /\ BackingOf(t)'
  <2>1. act'[t].pc \in {"drain", "idle"}
    BY <1>10, Values
  <2> QED BY <1>10, <2>1, HoldsNothingNext DEF Creating, Deleting
<1>14. Resources'
  BY <1>0, <1>1, <1>3, <1>5, <1>8, <1>9, <1>10, <1>13, HolderStep
<1> QED BY <1>11, <1>12, <1>14 DEF DInv
-----------------------------------------------------------------------------
(* CtlDestroyVirglContext.                                                   *)

\* The context is found; nobody else of the process is inside.
LEMMA StepDestroyLookup ==
    ASSUME DInv, NEW t \in Threads, DestroyLookup(t)
    PROVE  DInv'
<1> DEFINE r == [Idle EXCEPT !.ctx = Found(t), !.pc = "unlink"]
<1>1. /\ act[t].pc = "idle" /\ Listed(t) # {} /\ Quiet(t) /\ act' = [act EXCEPT ![t] = r]
      /\ UNCHANGED <<ctxList, ctx, res, free, control, command, lost, hctx, hres, nextCtx, nextRes>>
  BY DEF DestroyLookup, Alone, Quiet, Free, driver, queues, host
<1>2. Types /\ Contexts /\ Resources
  BY DEF DInv
<1>3. act[t].ctx = 0 /\ act[t].res = 0 /\ act[t].drain = FALSE /\ ~Unlinked(t) /\ ~InScreen(t)
  BY <1>1, IdleHandler
<1>4. OnList(Found(t)) /\ Live(Found(t)) /\ ctx[Found(t)].proc = Proc[t] /\ Found(t) \in CtxIds
  BY <1>1, <1>2, FoundContext
<1>5. /\ r \in Activity /\ r.pc = "unlink" /\ r.ctx = Found(t) /\ r.res = 0 /\ r.drain = FALSE
  BY <1>4 DEF Idle, Activity
<1> HIDE DEF r
<1>6. /\ Went(t, act'[t]) /\ act'[t].pc = "unlink" /\ act'[t].ctx = Found(t) /\ act'[t].res = 0
      /\ act'[t].drain = FALSE /\ \A u \in Threads \ {t} : act'[u] = act[u]
  <2>1. act \in [Threads -> Activity]
    BY <1>2 DEF Types
  <2>2. act'[t] = r /\ act' \in [Threads -> Activity] /\ \A u \in Threads \ {t} : act'[u] = act[u]
    BY <1>1, <1>5, <2>1
  <2> QED BY <1>5, <2>2 DEF Went
<1>7. Types'
  BY <1>1, <1>2, <1>6 DEF Types, Went
<1>8. Contexts'
  <2>1. ~Unlinked(t)'
    BY <1>6 DEF Unlinked
  <2>2. Live(act[t].ctx)' /\ OnList(act[t].ctx)' /\ ctx'[act'[t].ctx].proc = Proc[t]
    BY <1>1, <1>4, <1>6 DEF Live, OnList
  <2>3. ContextOf(t)'
    BY <1>6, <2>1, <2>2 DEF ContextOf, Outside
  <2> QED BY <1>1, <1>2, <1>3, <1>6, <2>3, ContextStep
<1>9. Resources'
  <2>1. HeldOK(t)' /\ BackingOf(t)'
    BY <1>6, HoldsNothingNext DEF Creating, Deleting
  <2> QED BY <1>1, <1>3, <1>6, <1>8, <2>1, QuietStep
<1> QED BY <1>7, <1>8, <1>9 DEF DInv

\* What the handler that destroys a context knows: no other handler has it.
LEMMA DestroyerKnows ==
    ASSUME DInv, NEW t \in Threads, act[t].pc \in {"unlink", "drain", "ctxdestroy"}
    PROVE  /\ Live(act[t].ctx) /\ act[t].ctx \in DOMAIN ctx /\ ctx[act[t].ctx].proc = Proc[t]
           /\ act[t].res = 0 /\ InScreen(t) /\ act[t].pc \notin Outside
           /\ act[t].pc # "drain" => ~act[t].drain
           /\ OnList(act[t].ctx) <=> act[t].pc = "unlink"
           /\ act[t].pc = "ctxdestroy" => ctx[act[t].ctx].list = <<>>
           /\ \A u \in Threads \ {t} : Proc[u] = Proc[t] => act[u].pc = "idle"
           /\ \A u \in Threads \ {t} : act[u].pc \notin Outside => act[u].ctx # act[t].ctx
<1>1. ContextOf(t) /\ HeldOK(t) /\ act[t] \in Activity
  BY DEF DInv, Types, Contexts, Resources
<1>2. act[t].pc \notin Outside /\ InScreen(t) /\ (act[t].pc # "drain" => ~act[t].drain)
  BY <1>1 DEF Outside, InScreen, ContextOf, Deleting
<1>3. Live(act[t].ctx) /\ act[t].ctx \in DOMAIN ctx /\ ctx[act[t].ctx].proc = Proc[t]
  BY <1>1, <1>2 DEF ContextOf, Live
<1>4. OnList(act[t].ctx) <=> act[t].pc = "unlink"
  BY <1>1, <1>2 DEF ContextOf, Unlinked
<1>5. act[t].res = 0
  BY <1>1, HoldsNothing DEF Creating, Deleting
<1>6. \A u \in Threads \ {t} : Proc[u] = Proc[t] => act[u].pc = "idle"
  BY <1>2 DEF DInv, Contexts, Screen
<1>7. ASSUME NEW u \in Threads \ {t}, act[u].pc \notin Outside PROVE act[u].ctx # act[t].ctx
  <2>1. ctx[act[u].ctx].proc = Proc[u]
    BY <1>7 DEF DInv, Contexts, ContextOf
  <2>2. Proc[u] # Proc[t]
    BY <1>6, <1>7 DEF Outside
  <2> QED BY <1>3, <2>1, <2>2
<1>8. act[t].pc = "ctxdestroy" => ctx[act[t].ctx].list = <<>>
  BY <1>1 DEF ContextOf
<1> QED BY <1>2, <1>3, <1>4, <1>5, <1>6, <1>7, <1>8

\* The context leaves VirglContextList and only its destroyer has it.
LEMMA StepDestroyUnlink ==
    ASSUME DInv, NEW t \in Threads, DestroyUnlink(t)
    PROVE  DInv'
<1>0. PICK c : c = act[t].ctx
  OBVIOUS
<1>1. /\ act[t].pc = "unlink" /\ ctxList' = RemoveFirst(ctxList, c) /\ To(t, "drain")
      /\ UNCHANGED <<ctx, res, free, control, command, lost, hctx, hres, nextCtx, nextRes>>
  BY <1>0 DEF DestroyUnlink, queues, host
<1>2. Types /\ Contexts /\ Resources
  BY DEF DInv
<1>3. /\ Live(c) /\ c \in DOMAIN ctx /\ ctx[c].proc = Proc[t] /\ OnList(c)
      /\ act[t].res = 0 /\ InScreen(t) /\ ~act[t].drain
      /\ \A u \in Threads \ {t} : act[u].pc \notin Outside => act[u].ctx # c
  BY <1>0, <1>1, DestroyerKnows
<1>4. /\ Went(t, act'[t]) /\ act'[t].pc = "drain" /\ act'[t].ctx = c
      /\ act'[t].res = 0 /\ act'[t].drain = act[t].drain /\ \A u \in Threads \ {t} : act'[u] = act[u]
  BY <1>0, <1>1, <1>2, <1>3, WentTo DEF Went
<1>5. ctxList' \in Seq(CtxIds) /\ Range(ctxList') = Range(ctxList) \ {c} /\ IsInjective(ctxList')
  BY <1>1, <1>2, <1>3, Removed DEF Types, Contexts, ContextsListed, OnList
<1>6. Types'
  BY <1>1, <1>2, <1>4, <1>5 DEF Types, Went
<1>7. /\ \A d : Live(d)' <=> Live(d)
      /\ \A d : OnList(d)' <=> OnList(d) /\ d # c
      /\ \A p : HasContext(p)' <=> HasContext(p)
  <2>1. \A d : Live(d)' <=> Live(d)
    BY <1>1 DEF Live
  <2> QED BY <1>1, <1>5, <2>1 DEF OnList, HasContext
<1>8. Unlinked(t)' /\ InScreen(t)' /\ \A u \in Threads \ {t} :
         (Unlinked(u)' <=> Unlinked(u)) /\ (InScreen(u)' <=> InScreen(u))
  BY <1>4 DEF Unlinked, InScreen
<1>9. Contexts'
  <2>1. ContextsListed'
    BY <1>2, <1>5, <1>7 DEF Contexts, ContextsListed
  <2>2. LiveKept'
    <3>1. SUFFICES ASSUME NEW d \in DOMAIN ctx, Live(d)
                   PROVE  OnList(d)' \/ \E u \in Threads : act'[u].ctx = d /\ Unlinked(u)'
      BY <1>1, <1>7 DEF LiveKept
    <3>2. CASE d = c
      BY <1>4, <1>8, <3>2
    <3>3. CASE d # c /\ OnList(d)
      BY <1>7, <3>3
    <3>4. CASE d # c /\ ~OnList(d)
      <4>1. PICK u \in Threads : act[u].ctx = d /\ Unlinked(u)
        BY <1>2, <3>1, <3>4 DEF Contexts, LiveKept
      <4> QED BY <1>0, <1>4, <1>8, <3>4, <4>1
    <3> QED BY <3>2, <3>3, <3>4
  <2>3. Screen'
    <3>1. \A u \in Threads : InScreen(u)' => InScreen(u)
      BY <1>3, <1>8
    <3>2. \A u \in Threads : act[u].pc = "idle" => act'[u].pc = "idle"
      BY <1>1, <1>4
    <3> QED BY <1>2, <3>1, <3>2 DEF Contexts, Screen
  <2>4. OneContext'
    BY <1>1, <1>2 DEF Contexts, OneContext
  <2>5. ASSUME NEW u \in Threads PROVE ContextOf(u)'
    <3>1. CASE u = t
      <4>1. Live(c)' /\ ctx'[c].proc = Proc[t] /\ ~OnList(c)'
        BY <1>1, <1>3, <1>7
      <4> QED BY <1>4, <1>8, <3>1, <4>1 DEF ContextOf, Outside, Live, OnList
    <3>2. CASE u # t
      <4>1. ContextOf(u) /\ act'[u] = act[u]
        BY <1>2, <1>4, <3>2 DEF Contexts
      <4>2. act[u].pc \notin Outside => (OnList(act[u].ctx)' <=> OnList(act[u].ctx))
        BY <1>3, <1>7, <3>2, <4>1
      <4> QED BY <1>1, <1>7, <1>8, <3>2, <4>1, <4>2 DEF ContextOf
    <3> QED BY <3>1, <3>2
  <2> QED BY <2>1, <2>2, <2>3, <2>4, <2>5 DEF Contexts
<1>10. Resources'
  <2>1. HeldOK(t)' /\ BackingOf(t)'
    BY <1>4, HoldsNothingNext DEF Creating, Deleting
  <2> QED BY <1>1, <1>3, <1>4, <1>9, <2>1, QuietStep
<1> QED BY <1>6, <1>9, <1>10 DEF DInv

\* The loop takes the last resource, or finds the list empty and leaves.
LEMMA StepDestroyDrain ==
    ASSUME DInv, NEW t \in Threads, DestroyDrain(t)
    PROVE  DInv'
<1>0. PICK c, list : c = act[t].ctx /\ list = ctx[c].list
  OBVIOUS
<1>1. /\ act[t].pc = "drain"
      /\ list = <<>> => /\ act' = [act EXCEPT ![t].pc = "ctxdestroy", ![t].drain = FALSE]
                        /\ ctx' = ctx
      /\ list # <<>> => /\ ctx' = [ctx EXCEPT ![c].list = Front(list)]
                        /\ act' = [act EXCEPT ![t].pc = DeletePc(Last(list)), ![t].res = Last(list),
                                              ![t].drain = TRUE]
      /\ UNCHANGED <<ctxList, res, free, control, command, lost, hctx, hres, nextCtx, nextRes>>
  BY <1>0 DEF DestroyDrain, queues, host
<1>2. Types /\ Contexts /\ Resources /\ act[t] \in Activity /\ act \in [Threads -> Activity]
  BY DEF DInv, Types
<1>3. /\ Live(c) /\ c \in DOMAIN ctx /\ ctx[c].proc = Proc[t] /\ ~OnList(c)
      /\ act[t].res = 0 /\ InScreen(t) /\ act[t].pc \notin Outside
      /\ \A u \in Threads \ {t} : act[u].pc \notin Outside => act[u].ctx # c
  BY <1>0, <1>1, DestroyerKnows
<1>4. Unlinked(t)
  BY <1>1 DEF Unlinked
<1>5. CASE list = <<>>
  <2> DEFINE r == [act[t] EXCEPT !.pc = "ctxdestroy", !.drain = FALSE]
  <2>1. /\ r \in Activity /\ r.pc = "ctxdestroy" /\ r.ctx = c /\ r.res = 0 /\ r.drain = FALSE
    BY <1>0, <1>2, <1>3 DEF Activity
  <2>2. act' = [act EXCEPT ![t] = r]
    BY <1>1, <1>5
  <2> HIDE DEF r
  <2>3. act'[t] = r /\ act' \in [Threads -> Activity] /\ \A u \in Threads \ {t} : act'[u] = act[u]
    BY <1>2, <2>1, <2>2
  <2>4. Went(t, act'[t])
    BY <2>1, <2>3 DEF Went
  <2>5. Types'
    BY <1>1, <1>2, <1>5, <2>3 DEF Types
  <2>6. Contexts'
    <3>1. Unlinked(t)' /\ act'[t].pc \notin Outside /\ ctx' = ctx
      BY <1>1, <1>5, <2>1, <2>3 DEF Unlinked, Outside
    <3> QED BY <1>0, <1>1, <1>3, <1>4, <1>5, <2>1, <2>3, <2>4, <3>1, UseStep
  <2>7. HeldOK(t)' /\ BackingOf(t)'
    BY <2>1, <2>3, HoldsNothingNext DEF Creating, Deleting
  <2>8. Resources'
    BY <1>1, <1>3, <1>5, <2>1, <2>3, <2>4, <2>6, <2>7, QuietStep
  <2> QED BY <2>5, <2>6, <2>8 DEF DInv
<1>6. CASE list # <<>>
  <2>1. list \in Seq(Ids) /\ IsInjective(list)
    <3>1. ctx[c] \in Context
      BY <1>2, <1>3 DEF Types
    <3> QED BY <1>0, <1>2, <1>3, <3>1 DEF Context, Resources, ListOK
  <2>2. PICK i, l : i = Last(list) /\ l = Front(list)
    OBVIOUS
  <2>3. /\ l \in Seq(Ids) /\ i \in Range(list) /\ i \in Ids
        /\ Range(l) = Range(list) \ {i} /\ IsInjective(l)
    BY <1>6, <2>1, <2>2, TailRemoved
  <2>4. InList(c, i) /\ i # 0 /\ ResourceOK(i) /\ res[i] \in Resource
    BY <1>0, <1>2, <2>3, Values DEF InList, Resources, Types
  <2>5. res[i].st = "known" /\ (res[i].kind = "buffer" <=> res[i].blk # NoBlock)
    <3>1. (res[i].kind = "buffer" <=> res[i].blk # NoBlock)
      BY <1>3, <2>4 DEF ResourceOK
    <3>2. ASSUME res[i].st # "known" PROVE FALSE
      <4>1. PICK u \in Threads : Linked(u) /\ act[u].res = i /\ act[u].ctx = c
        BY <1>3, <2>4, <3>2 DEF ResourceOK
      <4>2. u # t /\ act[u].pc \notin Outside
        BY <1>1, <4>1 DEF Linked, Outside
      <4> QED BY <1>3, <4>1, <4>2
    <3> QED BY <3>1, <3>2
  <2>6. \A u \in Threads : act[u].res # i
    BY <1>3, <2>3, <2>4, <2>5, ListedNotHeld
  <2>7. PICK pc : pc = DeletePc(i)
    OBVIOUS
  <2>8. pc \in {"unref", "detach"} /\ (pc = "unref" <=> res[i].kind = "plain")
    BY <2>7 DEF DeletePc
  <2> DEFINE r == [act[t] EXCEPT !.pc = pc, !.res = i, !.drain = TRUE]
  <2>9. /\ r \in Activity /\ r.pc = pc /\ r.ctx = c /\ r.res = i /\ r.drain = TRUE
    BY <1>0, <1>2, <2>3, <2>8 DEF Activity
  <2>10. act' = [act EXCEPT ![t] = r] /\ ctx' = [ctx EXCEPT ![c].list = l]
    BY <1>1, <1>6, <2>2, <2>7
  <2> HIDE DEF r
  <2>11. act'[t] = r /\ act' \in [Threads -> Activity] /\ \A u \in Threads \ {t} : act'[u] = act[u]
    BY <1>2, <2>9, <2>10
  <2>12. Went(t, act'[t])
    BY <2>9, <2>11 DEF Went
  <2>13. /\ ctx' \in Seq(Context) /\ Len(ctx') = Len(ctx) /\ DOMAIN ctx' = DOMAIN ctx
         /\ ctx'[c].list = l
         /\ \A d \in DOMAIN ctx : /\ ctx'[d].proc = ctx[d].proc /\ ctx'[d].freed = ctx[d].freed
                                  /\ d # c => ctx'[d] = ctx[d]
    BY <1>2, <1>3, <2>3, <2>10, ListChanged
  <2>14. Types'
    BY <1>1, <1>2, <2>11, <2>13 DEF Types
  <2>15. Contexts'
    <3>1. Unlinked(t)' /\ act'[t].pc \notin Outside /\ act'[t].pc \in Deleting
      BY <2>8, <2>9, <2>11 DEF Unlinked, Outside, Deleting
    <3>2. act'[t].pc # "ctxdestroy" /\ act'[t].ctx = act[t].ctx
      BY <1>0, <2>8, <2>9, <2>11
    <3> QED BY <1>0, <1>1, <1>3, <1>4, <2>12, <2>13, <3>1, <3>2, UseStep
  <2>16. \A d \in DOMAIN ctx : ~InList(d, i)'
    <3>1. \A d \in DOMAIN ctx : InList(d, i) => d = c
      BY <1>3, <2>4 DEF ResourceOK
    <3> QED BY <2>3, <2>13, <3>1 DEF InList
  <2>17. ResourceOK(i)'
    BY <1>1, <2>4, <2>5, <2>9, <2>11, <2>13, <2>16 DEF ResourceOK
  <2>18. HeldOK(t)'
    <3>1. Held(t)' /\ ~Linked(t)' /\ act'[t].pc \notin Creating /\ act'[t].pc # "remove"
      BY <2>8, <2>9, <2>11 DEF Held, Linked, Creating, Deleting
    <3>2. \A d \in DOMAIN ctx' : i \notin Range(ctx'[d].list)
      BY <2>13, <2>16 DEF InList
    <3> QED BY <1>1, <2>4, <2>5, <2>9, <2>11, <3>1, <3>2 DEF HeldOK, InList
  <2>19. BackingOf(t)'
    BY <1>1, <2>5, <2>8, <2>9, <2>11 DEF BackingOf
  <2>20. act[t].res \in {0, i} /\ act'[t].res \in {0, i} /\ ~ctx[c].freed
         /\ Range(l) \ {i} = Range(ctx[c].list) \ {i}
    BY <1>0, <1>3, <2>3, <2>9, <2>11 DEF Live
  <2>21. Resources'
    BY <1>1, <1>3, <2>3, <2>6, <2>10, <2>12, <2>17, <2>18, <2>19, <2>20, ListStep
  <2> QED BY <2>14, <2>15, <2>21 DEF DInv
<1> QED BY <1>5, <1>6
\* The last step of the destruction: the context is freed, and nobody else had it.
LEMMA StepDestroyVirglContext ==
    ASSUME DInv, NEW t \in Threads, DestroyVirglContext(t)
    PROVE  DInv'
<1>0. PICK c : c = act[t].ctx
  OBVIOUS
<1> DEFINE x == [ctx[c] EXCEPT !.freed = TRUE]
<1>1. /\ act[t].pc = "ctxdestroy" /\ PushControl([op |-> "destroy", proc |-> Proc[t]]) /\ Return(t)
      /\ ctx' = [ctx EXCEPT ![c] = x]
      /\ UNCHANGED <<ctxList, res, free, command, hctx, hres, nextCtx, nextRes>>
  BY <1>0 DEF DestroyVirglContext, host
<1>2. Types /\ Contexts /\ Resources
  BY DEF DInv
<1>3. /\ Live(c) /\ c \in DOMAIN ctx /\ ctx[c].proc = Proc[t] /\ ~OnList(c) /\ ctx[c].list = <<>>
      /\ act[t].res = 0 /\ InScreen(t)
      /\ \A u \in Threads \ {t} : Proc[u] = Proc[t] => act[u].pc = "idle"
      /\ \A u \in Threads \ {t} : act[u].pc \notin Outside => act[u].ctx # c
  BY <1>0, <1>1, DestroyerKnows
<1>4. Went(t, act'[t]) /\ act'[t] = Idle /\ \A u \in Threads \ {t} : act'[u] = act[u]
  BY <1>1, <1>2, Returned DEF Went
<1>5. ctx \in Seq(Context) /\ DOMAIN ctx = 1..Len(ctx) /\ ctx[c] \in Context
  BY <1>2, <1>3 DEF Types
<1>6. x \in Context /\ x.list = ctx[c].list /\ x.proc = ctx[c].proc /\ x.freed = TRUE
  BY <1>5 DEF Context
<1> HIDE DEF x
<1>7. /\ ctx' \in Seq(Context) /\ Len(ctx') = Len(ctx)
      /\ \A d \in 1..Len(ctx) : ctx'[d] = IF d = c THEN x ELSE ctx[d]
  BY <1>1, <1>3, <1>5, <1>6, ExceptSeq
<1>8. /\ DOMAIN ctx' = DOMAIN ctx /\ ctx'[c].freed
      /\ \A d \in DOMAIN ctx : /\ ctx'[d].proc = ctx[d].proc /\ ctx'[d].list = ctx[d].list
                               /\ d # c => ctx'[d] = ctx[d]
  BY <1>3, <1>5, <1>6, <1>7
<1>9. Types'
  <2>1. [op |-> "destroy", proc |-> Proc[t]] \in ControlCommand
    BY LifetimeAssumption DEF ControlCommand
  <2>2. control' \in Seq(ControlCommand) /\ lost' \in BOOLEAN
    BY <1>1, <1>2, <2>1, Queued DEF PushControl, Types, ControlCommand
  <2> QED BY <1>1, <1>2, <1>4, <1>7, <2>2 DEF Types, Went, ControlCommand
<1>10. /\ \A d : Live(d)' <=> Live(d) /\ d # c
       /\ \A d : OnList(d)' <=> OnList(d)
       /\ \A p : HasContext(p)' => HasContext(p)
       /\ \A p : HasContext(p) /\ p # Proc[t] => HasContext(p)'
  <2>1. \A d : Live(d)' <=> Live(d) /\ d # c
    BY <1>3, <1>8 DEF Live
  <2>2. \A d : OnList(d)' <=> OnList(d)
    BY <1>1 DEF OnList
  <2>3. \A p : HasContext(p)' => HasContext(p)
    BY <1>8, <2>1 DEF HasContext
  <2>4. \A p : HasContext(p) /\ p # Proc[t] => HasContext(p)'
    BY <1>3, <1>8, <2>1 DEF HasContext
  <2> QED BY <2>1, <2>2, <2>3, <2>4
<1>11. ~InScreen(t)' /\ \A u \in Threads \ {t} :
          (Unlinked(u)' <=> Unlinked(u)) /\ (InScreen(u)' <=> InScreen(u))
  BY <1>4, Values DEF Unlinked, InScreen
<1>12. Contexts'
  <2>1. ContextsListed'
    BY <1>1, <1>2, <1>3, <1>10 DEF Contexts, ContextsListed, OnList
  <2>2. LiveKept'
    <3>1. SUFFICES ASSUME NEW d \in DOMAIN ctx, Live(d), d # c
                   PROVE  OnList(d)' \/ \E u \in Threads : act'[u].ctx = d /\ Unlinked(u)'
      BY <1>8, <1>10 DEF LiveKept
    <3>2. CASE OnList(d)
      BY <1>10, <3>2
    <3>3. CASE ~OnList(d)
      <4>1. PICK u \in Threads : act[u].ctx = d /\ Unlinked(u)
        BY <1>2, <3>1, <3>3 DEF Contexts, LiveKept
      <4> QED BY <1>0, <1>4, <1>11, <3>1, <4>1
    <3> QED BY <3>2, <3>3
  <2>3. Screen'
    <3>1. \A u \in Threads : InScreen(u)' => InScreen(u)
      BY <1>11
    <3>2. \A u \in Threads : act[u].pc = "idle" => act'[u].pc = "idle"
      BY <1>1, <1>4
    <3> QED BY <1>2, <3>1, <3>2 DEF Contexts, Screen
  <2>4. OneContext'
    BY <1>2, <1>8 DEF Contexts, OneContext
  <2>5. ASSUME NEW u \in Threads PROVE ContextOf(u)'
    <3>1. CASE u = t
      BY <1>4, <3>1, Values DEF ContextOf, Outside
    <3>2. CASE u # t
      <4>1. ContextOf(u) /\ act'[u] = act[u]
        BY <1>2, <1>4, <3>2 DEF Contexts
      <4>2. act[u].pc = "ctxcreate" => Proc[u] # Proc[t]
        BY <1>3, <3>2
      <4>3. act[u].pc \in Outside => ContextOf(u)'
        BY <1>10, <4>1, <4>2 DEF ContextOf, Outside, Deleting
      <4>4. ASSUME act[u].pc \notin Outside PROVE ContextOf(u)'
        <5>1. act[u].ctx # c /\ act[u].ctx \in DOMAIN ctx /\ Live(act[u].ctx)
          BY <1>3, <3>2, <4>1, <4>4 DEF ContextOf, Live
        <5>2. ctx'[act[u].ctx] = ctx[act[u].ctx] /\ Live(act[u].ctx)'
          BY <1>8, <1>10, <4>1, <5>1
        <5>3. OnList(act[u].ctx)' <=> OnList(act[u].ctx)
          BY <1>10, <4>1
        <5> QED BY <1>11, <3>2, <4>1, <4>4, <5>1, <5>2, <5>3 DEF ContextOf, Outside
      <4> QED BY <4>3, <4>4
    <3> QED BY <3>1, <3>2
  <2> QED BY <2>1, <2>2, <2>3, <2>4, <2>5 DEF Contexts
<1>13. Resources'
  <2>1. HeldOK(t)' /\ BackingOf(t)'
    BY <1>4, Values, HoldsNothingNext DEF Creating, Deleting
  <2>2. \A d \in DOMAIN ctx', j \in Ids : InList(d, j)' <=> d \in DOMAIN ctx /\ InList(d, j)
    BY <1>8 DEF InList
  <2>3. \A d \in DOMAIN ctx' : ListOK(d)'
    BY <1>2, <1>3, <1>8 DEF Resources, ListOK
  <2>4. BlocksAccounted'
    BY <1>1, <1>2 DEF Resources, BlocksAccounted
  <2>5. act'[t].res = 0
    BY <1>4, Values
  <2>6. /\ 0 \in Ids \cup {0} /\ act[t].res \in {0} /\ act'[t].res \in {0}
        /\ res' = res /\ nextRes' = nextRes /\ DOMAIN ctx' = DOMAIN ctx
        /\ \A u \in Threads \ {t} : act'[u] = act[u]
    BY <1>1, <1>3, <1>4, <1>8, <2>5
  <2> QED BY <1>2, <2>1, <2>2, <2>3, <2>4, <2>6, ResourceStep
<1> QED BY <1>9, <1>12, <1>13 DEF DInv

-----------------------------------------------------------------------------
(* The host.                                                                *)

\* The host does not touch what the driver keeps.
LEMMA DriverKept ==
    ASSUME DInv, Types', UNCHANGED <<ctxList, ctx, res, act, free, nextCtx, nextRes>>
    PROVE  DInv'
<1>1. Contexts'
  BY DEF DInv, Contexts, ContextsListed, LiveKept, Screen, OneContext, ContextOf, Live, OnList,
         HasContext, Unlinked, InScreen
<1>2. Resources'
  BY DEF DInv, Resources, OneHolder, BlocksAccounted, ListOK, ResourceOK, HeldOK, BackingOf, Held, Linked,
         InList
<1> QED BY <1>1, <1>2 DEF DInv

\* What the host has of a resource, after a command.
LEMMA Executed ==
    ASSUME NEW cmd \in ResourceCommand, NEW r \in HostResource
    PROVE  Execute(cmd, r) \in HostResource
<1>1. cmd.blk \in Blocks \cup {NoBlock}
  BY DEF ResourceCommand
<1>2. [r EXCEPT !.there = TRUE] \in HostResource
  BY DEF HostResource
<1>3. [r EXCEPT !.back = cmd.blk] \in HostResource
  BY <1>1 DEF HostResource
<1>4. [r EXCEPT !.back = NoBlock] \in HostResource
  BY DEF HostResource
<1>5. [r EXCEPT !.mapped = TRUE] \in HostResource /\ [r EXCEPT !.mapped = FALSE] \in HostResource
  BY DEF HostResource
<1>6. Absent \in HostResource
  BY Values
<1> QED BY <1>2, <1>3, <1>4, <1>5, <1>6 DEF Execute

\* The first command of a queue and the rest.
LEMMA Dequeued ==
    ASSUME NEW S, NEW q \in Seq(S), q # <<>>
    PROVE  /\ Head(q) \in S /\ Head(q) = q[1] /\ Tail(q) \in Seq(S) /\ Len(Tail(q)) = Len(q) - 1
           /\ \A k \in 1..(Len(q) - 1) : Tail(q)[k] = q[k + 1]
           /\ Len(q) \in Nat /\ Len(q) # 0
  BY HeadTailProperties

\* The host takes a context command.
LEMMA StepHostControl ==
    ASSUME DInv, HostControl
    PROVE  DInv'
<1>1. /\ control # <<>> /\ control' = Tail(control)
      /\ hctx' = (IF Head(control).op = "create" THEN hctx \cup {Head(control).proc}
                  ELSE hctx \ {Head(control).proc})
      /\ UNCHANGED <<ctxList, ctx, res, act, free, command, lost, hres, nextCtx, nextRes>>
  BY DEF HostControl, driver
<1>2. control \in Seq(ControlCommand) /\ hctx \subseteq Procs
  BY DEF DInv, Types, ControlCommand
<1>3. Head(control) \in ControlCommand /\ control' \in Seq(ControlCommand)
  BY <1>1, <1>2, Dequeued
<1>4. Head(control).proc \in Procs
  BY <1>3 DEF ControlCommand
<1>5. hctx' \subseteq Procs
  BY <1>1, <1>2, <1>4
<1>6. Types'
  BY <1>1, <1>3, <1>5 DEF DInv, Types, ControlCommand
<1> QED BY <1>1, <1>6, DriverKept

\* The host takes a resource command.
LEMMA StepHostCommand ==
    ASSUME DInv, HostCommand
    PROVE  DInv'
<1>1. /\ command # <<>> /\ command' = Tail(command)
      /\ hres' = [hres EXCEPT ![Head(command).id] = Execute(Head(command), hres[Head(command).id])]
      /\ UNCHANGED <<ctxList, ctx, res, act, free, control, lost, hctx, nextCtx, nextRes>>
  BY DEF HostCommand, driver
<1>2. command \in Seq(ResourceCommand) /\ hres \in [Ids -> HostResource]
  BY DEF DInv, Types, ResourceCommand
<1>3. Head(command) \in ResourceCommand /\ command' \in Seq(ResourceCommand)
  BY <1>1, <1>2, Dequeued
<1>4. Head(command).id \in Ids
  BY <1>3 DEF ResourceCommand
<1>5. Execute(Head(command), hres[Head(command).id]) \in HostResource
  BY <1>2, <1>3, <1>4, Executed
<1>6. hres' \in [Ids -> HostResource]
  BY <1>1, <1>2, <1>5
<1>7. Types'
  BY <1>1, <1>3, <1>6 DEF DInv, Types, ResourceCommand
<1> QED BY <1>1, <1>7, DriverKept

-----------------------------------------------------------------------------
(* The theorems about the driver.                                            *)

\* At the start there is no context, no resource and no handler.
LEMMA Initially == Init => DInv
<1>1. SUFFICES ASSUME Init PROVE DInv
  OBVIOUS
<1>2. /\ ctxList = <<>> /\ ctx = <<>> /\ res = [i \in Ids |-> NoResource]
      /\ act = [t \in Threads |-> Idle] /\ free = Blocks /\ control = <<>> /\ command = <<>>
      /\ lost = FALSE /\ hctx = {} /\ hres = [i \in Ids |-> Absent] /\ nextCtx = 1 /\ nextRes = 1
  BY <1>1 DEF Init
<1>3. Types
  <2>1. \A S : <<>> \in Seq(S)
    OBVIOUS
  <2>2. ctxList \in Seq(CtxIds) /\ ctx \in Seq(Context) /\ Len(ctx) = nextCtx - 1
    BY <1>2
  <2>3. /\ control \in Seq([op : {"create", "destroy"}, proc : Procs])
        /\ command \in Seq([op : {"create", "attach", "map", "detach", "unmap", "unref"}, id : Ids,
                            blk : Blocks \cup {NoBlock}])
    BY <1>2, <2>1
  <2>4. res \in [Ids -> Resource] /\ act \in [Threads -> Activity] /\ hres \in [Ids -> HostResource]
    BY <1>2, Values
  <2>5. nextCtx \in 1..(MaxCtx + 1) /\ nextRes \in 1..(MaxRes + 1)
    BY <1>2, LifetimeAssumption
  <2> QED BY <1>2, <2>2, <2>3, <2>4, <2>5 DEF Types
<1>4. DOMAIN ctx = {} /\ Range(ctxList) = {} /\ IsInjective(ctxList)
  BY <1>2 DEF Range, IsInjective
<1>5. \A t \in Threads : act[t] = Idle
  BY <1>2
<1>6. Contexts
  <2>1. ContextsListed /\ LiveKept /\ OneContext
    BY <1>4 DEF ContextsListed, LiveKept, OneContext
  <2>2. Screen
    BY <1>5, Values DEF Screen
  <2>3. \A t \in Threads : ContextOf(t)
    BY <1>5, Values DEF ContextOf, Outside
  <2> QED BY <2>1, <2>2, <2>3 DEF Contexts
<1>7. Resources
  <2>1. \A i \in Ids : res[i] = NoResource /\ res[i].blk = NoBlock /\ res[i].st = "none" /\ nextRes <= i
    BY <1>2 DEF NoResource, Ids
  <2>2. \A i \in Ids : ResourceOK(i)
    BY <1>4, <2>1 DEF ResourceOK
  <2>3. \A t \in Threads : HeldOK(t) /\ BackingOf(t)
    BY <1>5, Values, HoldsNothing DEF Creating, Deleting
  <2>4. OneHolder
    BY <1>5, Values DEF OneHolder
  <2>5. Accounts
    BY <1>2, <2>1 DEF Accounts
  <2>6. BlocksAccounted
    BY <1>3, <2>5, BlockByBlock
  <2> QED BY <1>4, <2>2, <2>3, <2>4, <2>6 DEF Resources
<1> QED BY <1>3, <1>6, <1>7 DEF DInv

\* Every step keeps the invariant of the driver.
LEMMA Inductive == DInv /\ WInv /\ [Next]_vars => DInv'
<1>1. SUFFICES ASSUME DInv, WInv, [Next]_vars PROVE DInv'
  OBVIOUS
<1>2. ASSUME NEW t \in Threads, WalkOn(t) \/ WalkAstray(t) PROVE DInv'
  <2>1. UNCHANGED <<ctxList, ctx, res, act, free, control, command, lost, hctx, hres, nextCtx, nextRes>>
    BY <1>2 DEF WalkOn, WalkAstray, driver, queues, host
  <2>2. Types'
    BY <1>1, <2>1 DEF DInv, Types
  <2> QED BY <1>1, <2>1, <2>2, DriverKept
<1>3. ASSUME NEW t \in Threads, Handler(t) PROVE DInv'
  BY <1>1, <1>2, <1>3, StepInitCheck, StepInitInsert, StepCreateVirglContext, StepCreateResource,
     StepAllocateBacking, StepAttachResourceBacking, StepInsertResource, StepMapBlobResource,
     StepCloseLookup, StepCloseRemove, StepDetachBacking, StepFreeBacking, StepUnrefResource,
     StepDestroyLookup, StepDestroyUnlink, StepDestroyDrain, StepDestroyVirglContext DEF Handler
<1>4. CASE UNCHANGED vars
  <2>1. Types'
    BY <1>1, <1>4 DEF DInv, Types, vars
  <2> QED BY <1>1, <1>4, <2>1, DriverKept DEF vars
<1> QED BY <1>1, <1>3, <1>4, StepHostControl, StepHostCommand DEF Next

-----------------------------------------------------------------------------
(* The unlocked walks.                                                       *)

\* A step that makes and unlinks no context, begins no walk and lets nobody into a screen.
LEMMA WalksKept ==
    ASSUME DInv, WInv, ctxList' = ctxList, left' = left, DOMAIN ctx' = DOMAIN ctx,
           \A c \in DOMAIN ctx : ctx'[c].proc = ctx[c].proc,
           walk' \in [Threads -> CtxIds \cup {0}],
           \A u \in Threads : /\ walk'[u] # 0 => walk'[u] = walk[u] /\ act'[u].pc = act[u].pc
                              /\ InScreen(u)' => InScreen(u)
    PROVE  WInv'
<1>1. \A o \in Range(ctxList) : o \in DOMAIN ctx
  BY ListOfContexts DEF OnList
<1>2. WalkTypes' /\ NewestFirst'
  BY DEF WInv, WalkTypes, NewestFirst
<1>3. Newest'
  BY <1>1 DEF WInv, Newest
<1>4. ASSUME NEW c \in DOMAIN ctx', ~OnList(c)' PROVE LeftBehind(c)'
  <2>1. LeftBehind(c)
    BY <1>4 DEF WInv, OnList
  <2> QED BY <2>1 DEF LeftBehind
<1>5. ASSUME NEW u \in Threads, walk'[u] # 0 PROVE WalkOK(u)'
  <2>1. WalkOK(u) /\ walk'[u] = walk[u] /\ act'[u].pc = act[u].pc
    BY <1>5 DEF WInv
  <2>2. MayUse(u)'
    BY <2>1 DEF WalkOK, MayUse
  <2> QED BY <1>1, <2>1, <2>2 DEF WalkOK
<1> QED BY <1>2, <1>3, <1>4, <1>5 DEF WInv

\* A step of a handler that has found its context, or makes it.
LEMMA InsideStep ==
    ASSUME DInv, WInv, NEW t \in Threads, NEW a, act' = [act EXCEPT ![t] = a],
           UNCHANGED <<ctxList, walk, left>>, DOMAIN ctx' = DOMAIN ctx,
           \A c \in DOMAIN ctx : ctx'[c].proc = ctx[c].proc,
           act[t].pc # "idle",
           a.drain \/ a.pc \in {"init", "ctxcreate", "unlink", "drain", "ctxdestroy"} => InScreen(t)
    PROVE  WInv'
<1>1. act \in [Threads -> Activity] /\ walk \in [Threads -> CtxIds \cup {0}]
  BY DEF DInv, Types, WInv, WalkTypes
<1>2. act'[t] = a /\ \A u \in Threads \ {t} : act'[u] = act[u]
  BY <1>1
<1>3. walk[t] = 0
  BY DEF WInv, WalkOK
<1>4. \A u \in Threads : InScreen(u)' => InScreen(u)
  BY <1>2 DEF InScreen
<1>5. \A u \in Threads : walk'[u] # 0 => walk'[u] = walk[u] /\ act'[u].pc = act[u].pc
  BY <1>2, <1>3
<1> QED BY <1>1, <1>4, <1>5, WalksKept

\* The process of a context never changes.
LEMMA SameProc ==
    ASSUME Types, NEW c, NEW l, ctx' = [ctx EXCEPT ![c].list = l]
    PROVE  DOMAIN ctx' = DOMAIN ctx /\ \A d \in DOMAIN ctx : ctx'[d].proc = ctx[d].proc
<1>1. \A d \in DOMAIN ctx : ctx[d] \in Context
  BY DEF Types
<1>2. ctx' = [d \in DOMAIN ctx |-> IF d = c THEN [ctx[d] EXCEPT !.list = l] ELSE ctx[d]]
  BY DEF Types
<1> QED BY <1>1, <1>2 DEF Context

\* The lookup ends the walk.
LEMMA WalkEnds ==
    ASSUME DInv, WInv, NEW t \in Threads, NEW a, act' = [act EXCEPT ![t] = a],
           UNCHANGED <<ctxList, ctx, left>>, walk' = [walk EXCEPT ![t] = 0],
           ~a.drain, a.pc \notin {"init", "ctxcreate", "unlink", "drain", "ctxdestroy"}
    PROVE  WInv'
<1>1. act \in [Threads -> Activity] /\ walk \in [Threads -> CtxIds \cup {0}]
  BY DEF DInv, Types, WInv, WalkTypes
<1>2. act'[t] = a /\ \A u \in Threads \ {t} : act'[u] = act[u]
  BY <1>1
<1>3. walk' \in [Threads -> CtxIds \cup {0}] /\ walk'[t] = 0 /\ \A u \in Threads \ {t} : walk'[u] = walk[u]
  BY <1>1
<1>4. \A u \in Threads : InScreen(u)' => InScreen(u)
  BY <1>2 DEF InScreen
<1>5. \A u \in Threads : walk'[u] # 0 => walk'[u] = walk[u] /\ act'[u].pc = act[u].pc
  BY <1>2, <1>3
<1> QED BY <1>3, <1>4, <1>5, WalksKept

\* A walk goes on, or goes astray.
LEMMA WalkStep ==
    ASSUME DInv, WInv, NEW t \in Threads, WalkOn(t) \/ WalkAstray(t)
    PROVE  WInv'
<1>1. /\ UNCHANGED <<ctxList, ctx, act, left>> /\ walk \in [Threads -> CtxIds \cup {0}]
      /\ \A u \in Threads : InScreen(u)' <=> InScreen(u)
  BY DEF WalkOn, WalkAstray, driver, WInv, WalkTypes, InScreen
<1>2. CASE WalkAstray(t)
  <2>1. walk' = [walk EXCEPT ![t] = 0]
    BY <1>2 DEF WalkAstray
  <2> QED BY <1>1, <2>1, WalksKept
<1>3. CASE WalkOn(t)
  <2>0. PICK f : f = Reaches(t)
    OBVIOUS
  <2>1. Looking(t) /\ ctx[f].proc # Proc[t] /\ walk' = [walk EXCEPT ![t] = f]
    BY <1>3, <2>0 DEF WalkOn
  <2>2. /\ MayUse(t) /\ f \in DOMAIN ctx /\ f \in CtxIds /\ act[t].pc = "idle"
        /\ \E o \in Range(ctxList) : ctx[o].proc = Proc[t] /\ o < f
    BY <2>0, <2>1, WalkAhead, ListOfContexts DEF Looking
  <2>3. walk' \in [Threads -> CtxIds \cup {0}] /\ walk'[t] = f /\ \A u \in Threads \ {t} : walk'[u] = walk[u]
    BY <1>1, <2>1, <2>2
  <2>4. \A u \in Threads : MayUse(u)' <=> MayUse(u)
    BY <1>1 DEF MayUse
  <2>5. WalkOK(t)'
    BY <1>1, <2>1, <2>2, <2>3, <2>4 DEF WalkOK
  <2>6. ASSUME NEW u \in Threads, u # t, walk'[u] # 0 PROVE WalkOK(u)'
    BY <1>1, <2>3, <2>4, <2>6 DEF WInv, WalkOK
  <2>7. WalkTypes' /\ NewestFirst' /\ Newest' /\ \A c \in DOMAIN ctx' : ~OnList(c)' => LeftBehind(c)'
    BY <1>1, <2>3 DEF WInv, WalkTypes, NewestFirst, Newest, LeftBehind, OnList
  <2> QED BY <2>5, <2>6, <2>7 DEF WInv
<1> QED BY <1>2, <1>3

\* Nobody of the process walks when its context is about to be made.
LEMMA WalkInitCheck ==
    ASSUME DInv, WInv, NEW t \in Threads, InitCheck(t)
    PROVE  WInv'
<1>1. /\ walk[t] = 0 /\ Listed(t) = {} /\ act' = [act EXCEPT ![t].pc = "init"]
      /\ UNCHANGED <<ctxList, ctx, walk, left>>
  BY DEF InitCheck, Free, To, driver, walks
<1>2. act \in [Threads -> Activity] /\ walk \in [Threads -> CtxIds \cup {0}]
  BY DEF DInv, Types, WInv, WalkTypes
<1>3. \A u \in Threads \ {t} : act'[u] = act[u] /\ (InScreen(u)' <=> InScreen(u))
  BY <1>1, <1>2 DEF InScreen
<1>4. ASSUME NEW u \in Threads, walk[u] # 0 PROVE WalkOK(u)'
  <2>1. WalkOK(u) /\ u # t
    BY <1>1, <1>4 DEF WInv
  <2>2. PICK o \in Range(ctxList) : ctx[o].proc = Proc[u] /\ o < walk[u]
    BY <2>1 DEF WalkOK
  <2>3. Proc[u] # Proc[t]
    BY <1>1, <2>2, ListOfContexts DEF Listed, OnList
  <2>4. MayUse(u)'
    BY <1>3, <2>1, <2>3 DEF WalkOK, MayUse
  <2> QED BY <1>1, <1>3, <2>1, <2>4 DEF WalkOK
<1>5. WalkTypes' /\ NewestFirst' /\ Newest' /\ \A c \in DOMAIN ctx' : ~OnList(c)' => LeftBehind(c)'
  BY <1>1 DEF WInv, WalkTypes, NewestFirst, Newest, LeftBehind, OnList
<1> QED BY <1>1, <1>4, <1>5 DEF WInv

\* Nobody of the process walks when its context is about to be destroyed.
LEMMA WalkDestroyLookup ==
    ASSUME DInv, WInv, NEW t \in Threads, DestroyLookup(t)
    PROVE  WInv'
<1> DEFINE r == [Idle EXCEPT !.ctx = Found(t), !.pc = "unlink"]
<1>1. /\ walk[t] = 0 /\ Alone(t) /\ act' = [act EXCEPT ![t] = r]
      /\ UNCHANGED <<ctxList, ctx, walk, left>>
  BY DEF DestroyLookup, Free, driver, walks
<1> HIDE DEF r
<1>2. act \in [Threads -> Activity] /\ walk \in [Threads -> CtxIds \cup {0}]
  BY DEF DInv, Types, WInv, WalkTypes
<1>3. \A u \in Threads \ {t} : act'[u] = act[u] /\ (InScreen(u)' <=> InScreen(u))
  BY <1>1, <1>2 DEF InScreen
<1>4. ASSUME NEW u \in Threads, walk[u] # 0 PROVE WalkOK(u)'
  <2>1. WalkOK(u) /\ u # t /\ Proc[u] # Proc[t]
    BY <1>1, <1>4 DEF WInv, Alone, Free
  <2>2. MayUse(u)'
    BY <1>3, <2>1 DEF WalkOK, MayUse
  <2> QED BY <1>1, <1>3, <2>1, <2>2 DEF WalkOK
<1>5. WalkTypes' /\ NewestFirst' /\ Newest' /\ \A c \in DOMAIN ctx' : ~OnList(c)' => LeftBehind(c)'
  BY <1>1 DEF WInv, WalkTypes, NewestFirst, Newest, LeftBehind, OnList
<1> QED BY <1>1, <1>4, <1>5 DEF WInv

\* The new context is the newest, and nobody of its process walks.
LEMMA WalkInitInsert ==
    ASSUME DInv, WInv, NEW t \in Threads, InitInsert(t)
    PROVE  WInv'
<1>0. PICK n : n = nextCtx
  OBVIOUS
<1> DEFINE x == [proc |-> Proc[t], list |-> <<>>, freed |-> FALSE]
<1>1. /\ act[t].pc = "init" /\ n <= MaxCtx /\ act' = [act EXCEPT ![t].pc = "ctxcreate"]
      /\ ctx' = Append(ctx, x) /\ ctxList' = <<n>> \o ctxList /\ UNCHANGED <<walk, left>>
  BY <1>0 DEF InitInsert, To, walks
<1>2. x.proc = Proc[t]
  OBVIOUS
<1> HIDE DEF x
<1>3. /\ n \in Nat /\ n >= 1 /\ ctx \in Seq(Context) /\ Len(ctx) = n - 1 /\ ctxList \in Seq(CtxIds)
      /\ act \in [Threads -> Activity] /\ n \in CtxIds
  BY <1>0, <1>1, LifetimeAssumption DEF DInv, Types, CtxIds
<1>4. DOMAIN ctx = 1..(n - 1) /\ DOMAIN ctx' = 1..n /\ ctx'[n] = x /\ \A c \in 1..(n - 1) : ctx'[c] = ctx[c]
  <2>1. Len(ctx) + 1 = n
    BY <1>3
  <2> QED BY <1>1, <1>3, <2>1
<1>5. /\ DOMAIN ctxList' = 1..(Len(ctxList) + 1) /\ Len(ctxList) \in Nat /\ ctxList'[1] = n
      /\ \A k \in 1..(Len(ctxList) + 1) : k # 1 => k - 1 \in DOMAIN ctxList /\ ctxList'[k] = ctxList[k - 1]
  <2>1. <<n>> \in Seq(CtxIds) /\ Len(<<n>>) = 1 /\ <<n>>[1] = n
    BY <1>3
  <2>2. /\ ctxList' \in Seq(CtxIds) /\ Len(ctxList') = 1 + Len(ctxList)
        /\ \A k \in 1..(1 + Len(ctxList)) : ctxList'[k] = IF k <= 1 THEN <<n>>[k] ELSE ctxList[k - 1]
    BY ONLY <1>1, <1>3, <2>1, ConcatProperties
  <2>3. Len(ctxList) \in Nat /\ DOMAIN ctxList = 1..Len(ctxList) /\ DOMAIN ctxList' = 1..(1 + Len(ctxList))
    BY <1>3, <2>2
  <2> QED BY <2>1, <2>2, <2>3
<1>6. Range(ctxList') = {n} \cup Range(ctxList)
  BY <1>1, <1>3, Inserted
<1>7. \A o \in Range(ctxList) : o \in 1..(n - 1) /\ o < n /\ ctx[o].proc # Proc[t]
  <2>1. ContextOf(t) /\ ~HasContext(Proc[t])
    BY <1>1 DEF DInv, Contexts, ContextOf
  <2> QED BY <1>3, <1>4, <2>1, ListOfContexts DEF OnList, HasContext
<1>8. NewestFirst'
  <2>1. SUFFICES ASSUME NEW k \in DOMAIN ctxList', NEW l \in DOMAIN ctxList', k < l
                 PROVE  ctxList'[k] > ctxList'[l]
    BY DEF NewestFirst
  <2>2. l # 1 /\ l - 1 \in DOMAIN ctxList /\ ctxList'[l] = ctxList[l - 1]
    BY <1>5, <2>1
  <2>3. CASE k = 1
    BY <1>3, <1>5, <1>7, <2>2, <2>3, ListOfContexts DEF OnList
  <2>4. CASE k # 1
    <3>1. k - 1 \in DOMAIN ctxList /\ ctxList'[k] = ctxList[k - 1] /\ k - 1 < l - 1
      BY <1>5, <2>1, <2>4
    <3> QED BY <2>2, <3>1 DEF WInv, NewestFirst
  <2> QED BY <2>3, <2>4
<1>9. Newest'
  <2>1. SUFFICES ASSUME NEW o \in Range(ctxList'), NEW c \in DOMAIN ctx', ctx'[c].proc = ctx'[o].proc
                 PROVE  c <= o
    BY DEF Newest
  <2>2. CASE o = n
    BY <1>3, <1>4, <2>2
  <2>3. CASE o # n
    <3>1. o \in Range(ctxList) /\ ctx'[o] = ctx[o] /\ ctx[o].proc # Proc[t]
      BY <1>4, <1>6, <1>7, <2>1, <2>3
    <3>2. c # n
      BY <1>2, <1>4, <2>1, <3>1
    <3>3. c \in DOMAIN ctx /\ ctx'[c] = ctx[c]
      BY <1>3, <1>4, <2>1, <3>2
    <3> QED BY <2>1, <3>1, <3>3 DEF WInv, Newest
  <2> QED BY <2>2, <2>3
<1>10. ASSUME NEW c \in DOMAIN ctx', ~OnList(c)' PROVE LeftBehind(c)'
  <2>1. c \in DOMAIN ctx /\ ~OnList(c) /\ c < n
    BY <1>3, <1>4, <1>6, <1>10 DEF OnList
  <2>2. LeftBehind(c)
    BY <2>1 DEF WInv
  <2>3. left[c] \in DOMAIN ctx' \cup {0} /\ left[c] < c
    BY <1>3, <1>4, <2>2 DEF LeftBehind
  <2>4. \A o \in Range(ctxList') : o < c => o \in Range(ctxList)
    BY <1>3, <1>4, <1>6, <2>1
  <2> QED BY <1>1, <2>2, <2>3, <2>4 DEF LeftBehind
<1>11. \A u \in Threads : (InScreen(u)' <=> InScreen(u)) /\ (u # t => act'[u] = act[u])
  <2>1. act'[t].pc = "ctxcreate" /\ \A u \in Threads \ {t} : act'[u] = act[u]
    BY <1>1, <1>3 DEF Activity
  <2> QED BY <1>1, <2>1 DEF InScreen
<1>12. ASSUME NEW u \in Threads, walk'[u] # 0 PROVE WalkOK(u)'
  <2>1. WalkOK(u) /\ u # t /\ walk'[u] = walk[u]
    BY <1>1, <1>12 DEF WInv, WalkOK
  <2>2. MayUse(u)' /\ act'[u] = act[u]
    BY <1>11, <2>1 DEF WalkOK, MayUse
  <2>3. PICK o \in Range(ctxList) : ctx[o].proc = Proc[u] /\ o < walk[u]
    BY <2>1 DEF WalkOK
  <2>4. o \in Range(ctxList') /\ ctx'[o].proc = Proc[u] /\ o < walk'[u]
    BY <1>4, <1>6, <1>7, <2>1, <2>3
  <2>5. walk'[u] \in DOMAIN ctx' /\ ctx'[walk'[u]].proc # Proc[u]
    BY <1>3, <1>4, <2>1 DEF WalkOK
  <2> QED BY <2>1, <2>2, <2>4, <2>5 DEF WalkOK
<1>13. WalkTypes'
  BY <1>1 DEF WInv, WalkTypes
<1> QED BY <1>8, <1>9, <1>10, <1>12, <1>13 DEF WInv

\* The unlinked context points at what was behind it, and nobody of its process walks.
LEMMA WalkDestroyUnlink ==
    ASSUME DInv, WInv, NEW t \in Threads, DestroyUnlink(t)
    PROVE  WInv'
<1>0. PICK c, f : c = act[t].ctx /\ f = Flink(c)
  OBVIOUS
<1>1. /\ act[t].pc = "unlink" /\ ctxList' = RemoveFirst(ctxList, c) /\ left' = [left EXCEPT ![c] = f]
      /\ act' = [act EXCEPT ![t].pc = "drain"] /\ UNCHANGED <<ctx, walk>>
  BY <1>0 DEF DestroyUnlink, To
<1>2. c \in DOMAIN ctx /\ ctx[c].proc = Proc[t] /\ OnList(c) /\ InScreen(t) /\ c \in CtxIds
  BY <1>0, <1>1, DestroyerKnows, ListOfContexts
<1>3. /\ f \in DOMAIN ctx \cup {0} /\ f < c /\ f \in CtxIds \cup {0}
      /\ \A o \in Range(ctxList) : o < c => o <= f
  BY <1>0, <1>2, Ahead, ListOfContexts
<1>4. /\ Range(ctxList') = Range(ctxList) \ {c}
      /\ \A k, l \in DOMAIN ctxList' : k < l =>
            \E m, n \in DOMAIN ctxList : m < n /\ ctxList'[k] = ctxList[m] /\ ctxList'[l] = ctxList[n]
  BY <1>1, <1>2, Removed DEF DInv, Types, Contexts, ContextsListed, OnList
<1>5. left' \in [CtxIds -> CtxIds \cup {0}] /\ left'[c] = f /\ \A d \in CtxIds \ {c} : left'[d] = left[d]
  BY <1>1, <1>2, <1>3 DEF WInv, WalkTypes
<1>6. WalkTypes' /\ NewestFirst' /\ Newest'
  BY <1>1, <1>4, <1>5 DEF WInv, WalkTypes, NewestFirst, Newest
<1>7. ASSUME NEW d \in DOMAIN ctx', ~OnList(d)' PROVE LeftBehind(d)'
  <2>1. CASE d = c
    BY <1>1, <1>3, <1>4, <1>5, <2>1 DEF LeftBehind
  <2>2. CASE d # c
    <3>1. LeftBehind(d) /\ left'[d] = left[d]
      BY <1>1, <1>4, <1>5, <1>7, <2>2, ListOfContexts DEF WInv, OnList
    <3> QED BY <1>1, <1>4, <3>1 DEF LeftBehind
  <2> QED BY <2>1, <2>2
<1>8. act'[t].pc = "drain" /\ \A u \in Threads \ {t} : act'[u] = act[u]
  BY <1>1 DEF DInv, Types, Activity
<1>9. \A u \in Threads : InScreen(u)' => InScreen(u)
  BY <1>2, <1>8 DEF InScreen
<1>10. ASSUME NEW u \in Threads, walk'[u] # 0 PROVE WalkOK(u)'
  <2>1. WalkOK(u) /\ u # t /\ walk'[u] = walk[u]
    BY <1>1, <1>10 DEF WInv, WalkOK
  <2>2. MayUse(u)' /\ Proc[u] # Proc[t]
    BY <1>2, <1>9, <2>1 DEF WalkOK, MayUse
  <2>3. PICK o \in Range(ctxList) : ctx[o].proc = Proc[u] /\ o < walk[u]
    BY <2>1 DEF WalkOK
  <2>4. o \in Range(ctxList')
    BY <1>2, <1>4, <2>2, <2>3
  <2> QED BY <1>1, <1>8, <2>1, <2>2, <2>3, <2>4 DEF WalkOK
<1> QED BY <1>6, <1>7, <1>10 DEF WInv

\* The same, when the handler moves on.
LEMMA MoveStep ==
    ASSUME DInv, WInv, NEW t \in Threads,
           NEW pc \in {"attach", "insert", "mapblob", "detach", "free", "unref"}, To(t, pc),
           UNCHANGED <<ctxList, walk, left>>, DOMAIN ctx' = DOMAIN ctx,
           \A c \in DOMAIN ctx : ctx'[c].proc = ctx[c].proc,
           act[t].pc # "idle"
    PROVE  WInv'
<1> DEFINE a == [act[t] EXCEPT !.pc = pc]
<1>1. act' = [act EXCEPT ![t] = a]
  BY DEF To
<1>2. a.pc = pc /\ a.drain = act[t].drain
  BY DEF DInv, Types, Activity
<1> HIDE DEF a
<1> QED BY <1>1, <1>2, InsideStep DEF InScreen

\* The handlers between a lookup and their return leave the walks of the others alone.
LEMMA WalkHandler ==
    ASSUME DInv, WInv, NEW t \in Threads,
           \/ CreateVirglContext(t) \/ AllocateBacking(t) \/ AttachResourceBacking(t)
           \/ InsertResource(t) \/ MapBlobResource(t) \/ CloseRemove(t) \/ DetachBacking(t)
           \/ FreeBacking(t) \/ UnrefResource(t) \/ DestroyDrain(t) \/ DestroyVirglContext(t)
    PROVE  WInv'
<1>1. /\ act \in [Threads -> Activity] /\ act[t] \in Activity
      /\ Types /\ \A i : DeletePc(i) \in {"unref", "detach"}
  BY DEF DInv, Types, DeletePc
<1>2. Return(t) => act' = [act EXCEPT ![t] = Idle]
  BY DEF Return
<1>3. CASE CreateVirglContext(t)
  BY <1>2, <1>3, Values, InsideStep DEF CreateVirglContext, driver, walks
<1>4. CASE AllocateBacking(t)
  <2>1. act[t].pc = "alloc" /\ (To(t, "attach") \/ Return(t)) /\ UNCHANGED <<ctxList, ctx, walk, left>>
    BY <1>4 DEF AllocateBacking, walks
  <2> QED BY <1>2, <2>1, Values, InsideStep, MoveStep
<1>5. CASE AttachResourceBacking(t)
  BY <1>5, MoveStep DEF AttachResourceBacking, driver, walks
<1>6. CASE InsertResource(t)
  <2>1. /\ act[t].pc = "insert" /\ (To(t, "mapblob") \/ Return(t)) /\ UNCHANGED <<ctxList, walk, left>>
        /\ DOMAIN ctx' = DOMAIN ctx /\ \A c \in DOMAIN ctx : ctx'[c].proc = ctx[c].proc
    BY <1>1, <1>6, SameProc DEF InsertResource, walks
  <2> QED BY <1>2, <2>1, Values, InsideStep, MoveStep
<1>7. CASE MapBlobResource(t)
  BY <1>2, <1>7, Values, InsideStep DEF MapBlobResource, walks
<1>8. CASE CloseRemove(t)
  <2>1. /\ act[t].pc = "remove" /\ To(t, DeletePc(act[t].res)) /\ UNCHANGED <<ctxList, walk, left>>
        /\ DOMAIN ctx' = DOMAIN ctx /\ \A c \in DOMAIN ctx : ctx'[c].proc = ctx[c].proc
    BY <1>1, <1>8, SameProc DEF CloseRemove, walks
  <2> QED BY <1>1, <2>1, MoveStep
<1>9. CASE DetachBacking(t)
  <2>1. /\ act[t].pc = "detach" /\ (To(t, "unref") \/ To(t, "free"))
        /\ UNCHANGED <<ctxList, ctx, walk, left>>
    BY <1>9 DEF DetachBacking, driver, walks
  <2> QED BY <2>1, MoveStep
<1>10. CASE FreeBacking(t)
  BY <1>10, MoveStep DEF FreeBacking, walks
<1>11. CASE UnrefResource(t)
  <2>1. act[t].pc = "unref" /\ UNCHANGED <<ctxList, ctx, walk, left>>
    BY <1>11 DEF UnrefResource, walks
  <2>2. CASE act[t].drain
    <3> DEFINE a == [act[t] EXCEPT !.pc = "drain", !.res = 0]
    <3>1. act' = [act EXCEPT ![t] = a]
      BY <1>1, <1>11, <2>2 DEF UnrefResource
    <3> HIDE DEF a
    <3> QED BY <2>1, <2>2, <3>1, InsideStep DEF InScreen
  <2>3. CASE ~act[t].drain
    BY <1>2, <1>11, <2>1, <2>3, Values, InsideStep DEF UnrefResource
  <2> QED BY <2>2, <2>3
<1>12. CASE DestroyDrain(t)
  <2>1. act[t].pc = "drain" /\ InScreen(t) /\ UNCHANGED <<ctxList, walk, left>>
    BY <1>12 DEF DestroyDrain, walks, InScreen
  <2>2. CASE ctx[act[t].ctx].list = <<>>
    <3> DEFINE a == [act[t] EXCEPT !.pc = "ctxdestroy", !.drain = FALSE]
    <3>1. act' = [act EXCEPT ![t] = a] /\ ctx' = ctx
      BY <1>1, <1>12, <2>2 DEF DestroyDrain
    <3> HIDE DEF a
    <3> QED BY <2>1, <3>1, InsideStep
  <2>3. CASE ctx[act[t].ctx].list # <<>>
    <3> DEFINE a == [act[t] EXCEPT !.pc = DeletePc(Last(ctx[act[t].ctx].list)),
                                   !.res = Last(ctx[act[t].ctx].list), !.drain = TRUE]
    <3>1. act' = [act EXCEPT ![t] = a]
          /\ ctx' = [ctx EXCEPT ![act[t].ctx].list = Front(ctx[act[t].ctx].list)]
      BY <1>1, <1>12, <2>3 DEF DestroyDrain
    <3>2. DOMAIN ctx' = DOMAIN ctx /\ \A c \in DOMAIN ctx : ctx'[c].proc = ctx[c].proc
      BY <1>1, <3>1, SameProc
    <3> HIDE DEF a
    <3> QED BY <2>1, <3>1, <3>2, InsideStep
  <2> QED BY <2>2, <2>3
<1>13. CASE DestroyVirglContext(t)
  <2>1. act[t].pc = "ctxdestroy" /\ Return(t) /\ UNCHANGED <<ctxList, walk, left>>
        /\ ctx' = [ctx EXCEPT ![act[t].ctx].freed = TRUE]
    BY <1>13 DEF DestroyVirglContext, walks
  <2>2. \A d \in DOMAIN ctx : ctx[d] \in Context
    BY <1>1 DEF Types
  <2>3. ctx' = [d \in DOMAIN ctx |-> IF d = act[t].ctx THEN [ctx[d] EXCEPT !.freed = TRUE] ELSE ctx[d]]
    BY <1>1, <2>1 DEF Types
  <2>4. DOMAIN ctx' = DOMAIN ctx /\ \A c \in DOMAIN ctx : ctx'[c].proc = ctx[c].proc
    BY <2>2, <2>3 DEF Context
  <2> QED BY <1>2, <2>1, <2>4, Values, InsideStep
<1> QED BY <1>3, <1>4, <1>5, <1>6, <1>7, <1>8, <1>9, <1>10, <1>11, <1>12, <1>13

\* Every step keeps the invariant of the walks.
LEMMA WalksInductive == DInv /\ WInv /\ [Next]_vars => WInv'
<1>1. SUFFICES ASSUME DInv, WInv, [Next]_vars PROVE WInv'
  OBVIOUS
<1>2. ASSUME NEW t \in Threads, NEW kind \in Kinds, CreateResource(t, kind) PROVE WInv'
  <2> DEFINE a == [Idle EXCEPT !.ctx = Reaches(t), !.res = nextRes,
                               !.pc = IF kind = "buffer" THEN "alloc" ELSE "insert"]
  <2>1. act' = [act EXCEPT ![t] = a] /\ UNCHANGED <<ctxList, ctx, left>> /\ walk' = [walk EXCEPT ![t] = 0]
    BY <1>2 DEF CreateResource
  <2>2. ~a.drain /\ a.pc \in {"alloc", "insert"}
    BY DEF Idle
  <2> HIDE DEF a
  <2> QED BY <1>1, <2>1, <2>2, WalkEnds
<1>3. ASSUME NEW t \in Threads, NEW i \in Ids, CloseLookup(t, i) PROVE WInv'
  <2> DEFINE a == [Idle EXCEPT !.ctx = Reaches(t), !.res = i, !.pc = "remove"]
  <2>1. act' = [act EXCEPT ![t] = a] /\ UNCHANGED <<ctxList, ctx, left>> /\ walk' = [walk EXCEPT ![t] = 0]
    BY <1>3 DEF CloseLookup
  <2>2. ~a.drain /\ a.pc = "remove"
    BY DEF Idle
  <2> HIDE DEF a
  <2> QED BY <1>1, <2>1, <2>2, WalkEnds
<1>4. ASSUME NEW t \in Threads, Handler(t) PROVE WInv'
  BY <1>1, <1>2, <1>3, <1>4, WalkStep, WalkInitCheck, WalkInitInsert, WalkDestroyLookup,
     WalkDestroyUnlink, WalkHandler DEF Handler
<1>5. ASSUME HostControl \/ HostCommand \/ UNCHANGED vars PROVE WInv'
  <2>1. UNCHANGED <<ctxList, ctx, act, walk, left>>
    BY <1>5 DEF HostControl, HostCommand, vars, driver, walks
  <2>2. walk \in [Threads -> CtxIds \cup {0}]
    BY <1>1 DEF WInv, WalkTypes
  <2> QED BY <1>1, <2>1, <2>2, WalksKept DEF InScreen
<1> QED BY <1>1, <1>4, <1>5 DEF Next

\* At the start nothing is listed and nobody walks.
LEMMA WalksInitially == Init => WInv
<1>1. SUFFICES ASSUME Init PROVE WInv
  OBVIOUS
<1>2. ctxList = <<>> /\ ctx = <<>> /\ walk = [t \in Threads |-> 0] /\ left = [c \in CtxIds |-> 0]
  BY <1>1 DEF Init
<1>3. DOMAIN ctx = {} /\ DOMAIN ctxList = {} /\ Range(ctxList) = {}
  BY <1>2 DEF Range
<1> QED BY <1>2, <1>3 DEF WInv, WalkTypes, NewestFirst, Newest

\* In every reachable state each handler of control.c has the context and the resource its
\* position says, each list entry is live and listed once, and each unlocked walk has the
\* context of its process ahead of it.
THEOREM Invariance == Spec => [](DInv /\ WInv)
<1>1. Init => DInv /\ WInv
  BY Initially, WalksInitially
<1>2. DInv /\ WInv /\ [Next]_vars => DInv' /\ WInv'
  BY Inductive, WalksInductive
<1> QED BY <1>1, <1>2, PTL DEF Spec

\* The state has its types: the lists of control.c hold ids that were handed out, the pool holds
\* blocks, the commands are about contexts and resources that may exist.
THEOREM TypeCorrect == Spec => []TypeOK
<1>1. DInv /\ WInv => TypeOK
  BY DEF DInv, Types, WInv, WalkTypes, TypeOK
<1> QED BY <1>1, Invariance, PTL

\* No block is leaked, free while it is used, or used by two resources, through CtlCreateResource,
\* DeleteResource (control.c:118) and the loop of CtlDestroyVirglContext, even when the pool or a
\* queue runs out in the middle.
THEOREM BlocksAccountedHolds == Spec => []BlocksAccounted
<1>1. DInv => BlocksAccounted
  BY DEF DInv, Resources
<1> QED BY <1>1, Invariance, PTL

\* The unlocked walk of GetVirglContextFromListUnsafe (control.h:48) never runs past the context
\* of its process and takes no unlinked one, for any number of processes that insert, unlink and
\* free theirs under it, as long as the memory of a freed context under a walk is not used again.
THEOREM WalkFindsContextHolds == Spec => []WalkFindsContext
<1>1. ASSUME DInv, WInv PROVE WalkFindsContext
  <2>1. SUFFICES ASSUME NEW t \in Threads, walk[t] # 0
                 PROVE  /\ Reaches(t) # 0
                        /\ ctx[Reaches(t)].proc = Proc[t] => Reaches(t) \in Range(ctxList)
    BY DEF WalkFindsContext
  <2>2. Looking(t)
    BY <1>1, <2>1 DEF WInv, WalkOK, Looking
  <2>3. Reaches(t) \in DOMAIN ctx /\ (ctx[Reaches(t)].proc = Proc[t] => OnList(Reaches(t)))
    BY <1>1, <2>2, WalkAhead
  <2>4. Reaches(t) # 0
    BY <1>1, <2>3, ListOfContexts
  <2> QED BY <2>3, <2>4 DEF OnList
<1> QED BY <1>1, Invariance, PTL
=============================================================================
