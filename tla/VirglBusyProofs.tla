---------------------------- MODULE VirglBusyProofs ----------------------------
(***************************************************************************)
(* Theorems about the busy/idle protocol (VirglFence) that need more than the *)
(* inductive invariant of VirglFenceProofs: no block is lost, a busy resource  *)
(* has somebody who will make it idle, and a blob is mapped before it is used. *)
(* The last section shows that the driver implements FenceLife.               *)
(*                                                                           *)
(* The three invariants, LInv, BInv and MInv, rest on a common one, NInv: the  *)
(* load of the ring is bounded, commands name resources that are there, and    *)
(* the counters are ahead of what they number.  The steps are first reduced to *)
(* a few shapes (Effects); each invariant is then shown for the shapes.        *)
(* Every theorem names, as its hypotheses, the failures and the parallelism it *)
(* does without.                                                               *)
(***************************************************************************)
EXTENDS VirglFenceProofs

-----------------------------------------------------------------------------
(* The invariants.                                                           *)

\* The places in a handler or a DPC where the command it holds, if any, counts.
Working == {"update", "write", "event", "push", "callback"}

\* The commands in the ring, among the completed ones, and both.
InRing == {ring[j] : j \in 1..Len(ring)}
InUsed == {used[j] : j \in 1..Len(used)}
Queued == {ring[j] : j \in 1..Len(ring)} \cup {used[j] : j \in 1..Len(used)}

\* The actors that hold a command.
Holders == {a \in Actors : act[a].cmd # Other}
LoadOK == InFlight <= MaxInFlight + 1

\* With the resources R, command c names resources that are there: one blob that is to be
\* mapped, or resources whose handles clients have.
Names(R, c) ==
    /\ \A i \in c.ids : R[i].st # "none"
    /\ c.type = "mapblob" => \E i \in Ids : c.ids = {i}
    /\ c.type \in {"submit", "xfer"} => \A i \in c.ids : R[i].st = "known"

\* What actor x has still to update is named by its command; what it maps has memory.
Doing(R, x) ==
    /\ Names(R, x.cmd)
    /\ x.pc \in {"update", "write", "event"} => x.todo \subseteq x.cmd.ids
    /\ x.pc \in {"write", "event"} => x.cur \in x.cmd.ids
    /\ x.pc \in {"wait"} \cup Mapping => R[x.cur].st = "known"
    /\ x.pc \in Mapping => R[x.cur].kind # "fence"

\* Resources are numbered in order, a buffer has its address from the start, and a
\* resource carries a fence id that has been handed out.
Numbered ==
    \A i \in Ids : /\ i >= nextRes => res[i].st = "none"
                   /\ res[i].st # "none" /\ res[i].kind = "buffer" => res[i].va
                   /\ res[i].FenceId < nextFence

NInv == /\ LoadOK /\ Numbered
        /\ \A a \in Actors : Doing(res, act[a])
        /\ \A c \in Queued : Names(res, c)

\* Block b has an owner, or is free.
Owned(b) ==
    \/ b \in free
    \/ \E i \in Ids : res[i].blk = b
    \/ \E a \in Actors : act[a].cmd.blk = b
    \/ \E c \in Queued : c.blk = b
LInv == \A b \in Blocks : Owned(b)

\* Actor a, being x, will set the event of resource i: a handler that has made it
\* busy and will push a command that names it, or a DPC that has yet to come to it.
WillSet(R, a, x, i) ==
    \/ a \in Threads /\ x.pc \in Working /\ i \in x.cmd.ids
    \/ /\ a \in Dpcs
       /\ \/ x.pc = "callback" /\ i \in x.cmd.ids
          \/ x.pc \in {"write", "event"} /\ x.cur = i
          \/ /\ x.pc \in {"update", "write", "event"} /\ i \in x.todo
             /\ x.cmd.fence = 0 \/ x.cmd.fence >= R[i].FenceId
SetLater(i) ==
    \/ \E a \in Actors : WillSet(res, a, act[a], i)
    \/ \E c \in Queued : i \in c.ids /\ (c.fence = 0 \/ c.fence >= res[i].FenceId)

\* A handler that has not pushed yet has the newest fence.
NewestFence ==
    \A t \in Threads : act[t].cmd.fence # 0 =>
        t \in FencedThreads /\ act[t].cmd.fence = nextFence - 1
BInv == NewestFence /\ \A i \in Ids : res[i].st # "none" /\ ~res[i].event => SetLater(i)

\* A blob the callback has not run for, the DPC that is about to run it, and the
\* completed and the queued commands in the order the DPC sees them.
Unmapped(i) == res[i].st # "none" /\ res[i].kind = "blob" /\ ~res[i].va
Calling(i) == \E d \in Dpcs : act[d].pc = "callback" /\ i \in act[d].cmd.ids
Queue == used \o ring
Maps(c, i) == c.type = "mapblob" /\ i \in c.ids

\* The mapping of a blob comes before every other command that names it.
MappedFirst(i) ==
    /\ ~res[i].event
    /\ res[i].st = "known" => Calling(i) \/ \E k \in 1..Len(Queue) : Maps(Queue[k], i)
    /\ \A j \in 1..Len(Queue) : i \in Queue[j].ids /\ Queue[j].type # "mapblob" =>
           Calling(i) \/ \E k \in 1..(j - 1) : Maps(Queue[k], i)
    /\ \A d \in Dpcs : act[d].pc \in {"update", "write", "event"} => i \notin act[d].cmd.ids
MInv == /\ \A i \in Ids : Unmapped(i) => MappedFirst(i)
        /\ MapAfterBlobMapped

-----------------------------------------------------------------------------
(* The load of the queue.                                                    *)

\* Holders are finitely many.
LEMMA HoldersFinite ==
    /\ IsFiniteSet(Holders) /\ IsFiniteSet(Holders')
    /\ Cardinality(Holders) \in Nat /\ Cardinality(Holders') \in Nat
    /\ InFlight = Len(ring) + Len(used) + Cardinality(Holders)
    /\ InFlight' = Len(ring') + Len(used') + Cardinality(Holders')
<1>1. IsFiniteSet(Actors)
  BY ConstAssumption, FS_Union DEF Actors
<1>2. Holders \subseteq Actors /\ Holders' \subseteq Actors
  BY DEF Holders
<1>3. IsFiniteSet(Holders) /\ IsFiniteSet(Holders')
  BY <1>1, <1>2, FS_Subset
<1> QED BY <1>3, FS_CardinalityType DEF InFlight, Holders

\* The holders after a step of actor a, which goes on as r.
LEMMA HoldersAfter ==
    ASSUME NEW a \in Actors, NEW r, ActStep(a, r)
    PROVE  /\ Cardinality(Holders') <= Cardinality(Holders) + 1
           /\ a \in Holders \/ r.cmd = Other => Cardinality(Holders') <= Cardinality(Holders)
           /\ a \in Holders /\ r.cmd = Other => Cardinality(Holders') <= Cardinality(Holders) - 1
<1>1. ASSUME NEW x, NEW y, Woken(x, y) PROVE y.cmd = x.cmd \/ y.cmd = Other
  <2>1. CASE x.pc = "mapwait" /\ y = [x EXCEPT !.pc = "mapshare"]
    BY <2>1
  <2> QED BY <1>1, <2>1 DEF Woken, Idle
<1>2. Holders' \subseteq Holders \cup {a} /\ (r.cmd = Other => a \notin Holders')
  BY <1>1 DEF Holders, ActStep
<1>3. IsFiniteSet(Holders \cup {a}) /\ Cardinality(Holders \cup {a}) <= Cardinality(Holders) + 1
  BY HoldersFinite, OneMore
<1>4. Cardinality(Holders') <= Cardinality(Holders \cup {a})
  BY <1>2, <1>3, FS_Subset
<1>5. Cardinality(Holders \cup {a}) \in Nat
  BY <1>3, FS_CardinalityType
<1>6. ASSUME a \in Holders \/ r.cmd = Other PROVE Cardinality(Holders') <= Cardinality(Holders)
  <2>1. Holders' \subseteq Holders
    BY <1>2, <1>6
  <2> QED BY <2>1, HoldersFinite, FS_Subset
<1>7. ASSUME a \in Holders, r.cmd = Other PROVE Cardinality(Holders') <= Cardinality(Holders) - 1
  <2>1. Holders' \subseteq Holders \ {a}
    BY <1>2, <1>7
  <2>2. IsFiniteSet(Holders \ {a}) /\ Cardinality(Holders \ {a}) = Cardinality(Holders) - 1
    BY <1>7, HoldersFinite, FS_RemoveElement
  <2> QED BY <2>1, <2>2, FS_Subset
<1> QED BY <1>3, <1>4, <1>5, <1>6, <1>7, HoldersFinite

\* The queues after a step that may push: at most the load of the step, which is within the
\* bound if it began below it.
LEMMA LoadKept ==
    ASSUME TypeOK, TypeOK', LoadOK, NEW a \in Actors, NEW r, ActStep(a, r), NEW n \in Nat,
           Len(ring') + Len(used') <= Len(ring) + Len(used) + n,
           \/ a \in Holders /\ r.cmd = Other /\ n <= 1
           \/ (a \in Holders \/ r.cmd = Other) /\ n = 0
           \/ InFlight < MaxInFlight /\ n + (IF r.cmd = Other THEN 0 ELSE 1) <= 2
    PROVE  LoadOK'
<1>1. /\ Len(ring) \in Nat /\ Len(used) \in Nat /\ Len(ring') \in Nat /\ Len(used') \in Nat
      /\ MaxInFlight \in Nat
  BY ConstAssumption DEF TypeOK
<1> DEFINE q == Len(ring) + Len(used)
           p == Len(ring') + Len(used')
           h == Cardinality(Holders)
           k == Cardinality(Holders')
<1>2. q \in Nat /\ p \in Nat /\ h \in Nat /\ k \in Nat /\ InFlight = q + h /\ InFlight' = p + k
  BY <1>1, HoldersFinite
<1>3. /\ k <= h + 1
      /\ a \in Holders \/ r.cmd = Other => k <= h
      /\ a \in Holders /\ r.cmd = Other => k <= h - 1
  BY HoldersAfter
<1>4. p <= q + n
  OBVIOUS
<1> HIDE DEF p, q, h, k
<1> QED BY <1>1, <1>2, <1>3, <1>4 DEF LoadOK

\* A handler that holds a command finds room if the ring has more slots than there are
\* commands in flight.
LEMMA RoomToPush ==
    ASSUME IInv, LoadOK, RingSize > MaxInFlight, NEW t \in Threads, act[t].pc \in {"push", "update"}
    PROVE  Room > 0
<1>1. t \in Actors /\ act[t].cmd.type \in {"submit", "xfer", "mapblob"}
  BY ThreadIsActor, ActorTyped DEF ActorOK
<1>2. t \in Holders
  BY <1>1 DEF Holders, Other
<1>3. Cardinality(Holders) # 0
  BY <1>2, HoldersFinite, FS_EmptySet
<1>4. Len(ring) \in Nat /\ Len(used) \in Nat /\ MaxInFlight \in Nat /\ RingSize \in Nat
  BY ConstAssumption DEF IInv, TypeOK
<1> QED BY <1>3, <1>4, HoldersFinite DEF Room, LoadOK

-----------------------------------------------------------------------------
(* What the commands name.                                                   *)

\* No step takes a resource away, changes its kind or unmaps it.
Lasting(R, S) ==
    \A i \in Ids : R[i].st # "none" =>
        /\ S[i].st # "none" /\ S[i].kind = R[i].kind
        /\ R[i].st = "known" => S[i].st = "known"
        /\ R[i].va => S[i].va

\* A command of no interest names nothing, and so does an idle actor.
LEMMA NothingNamed == \A R : Names(R, Other) /\ Doing(R, Idle)
  BY DEF Names, Doing, Other, Idle, Mapping

\* What is named stays there.
LEMMA NamesKept ==
    ASSUME NEW R, NEW S, Lasting(R, S)
    PROVE  /\ \A c \in Command : Names(R, c) => Names(S, c)
           /\ \A x \in Activity : (x.pc \in {"wait"} \cup Mapping => x.cur \in Ids) /\ Doing(R, x) => Doing(S, x)
<1>1. ASSUME NEW c \in Command, Names(R, c) PROVE Names(S, c)
  <2>1. c.ids \subseteq Ids
    BY DEF Command
  <2> QED BY <1>1, <2>1 DEF Names, Lasting
<1>2. ASSUME NEW x \in Activity, x.pc \in {"wait"} \cup Mapping => x.cur \in Ids, Doing(R, x)
      PROVE  Doing(S, x)
  <2>1. x.cmd \in Command
    BY DEF Activity
  <2>2. Names(S, x.cmd)
    BY <1>1, <1>2, <2>1 DEF Doing
  <2>3. x.pc \in {"wait"} \cup Mapping => S[x.cur].st = "known"
    BY <1>2 DEF Doing, Lasting
  <2>4. x.pc \in Mapping => S[x.cur].kind # "fence"
    BY <1>2 DEF Doing, Lasting
  <2> QED BY <1>2, <2>2, <2>3, <2>4 DEF Doing
<1> QED BY <1>1, <1>2

\* The commands in the queues are typed.
LEMMA QueuedTyped ==
    ASSUME TypeOK
    PROVE  /\ Queued \subseteq Command
           /\ \A j \in 1..Len(ring) : ring[j] \in Queued
           /\ \A j \in 1..Len(used) : used[j] \in Queued
  BY DEF TypeOK, Queued

\* A step of actor a, which goes on as r, and may push its command or one of no interest.
LEMMA NamingKept ==
    ASSUME IInv, NInv, NEW a \in Actors, NEW r \in Activity, ActStep(a, r), ActorOK(a, r),
           Lasting(res, res'), Doing(res', r), LoadOK', Numbered',
           Queued' \subseteq Queued \cup {act[a].cmd, Other}
    PROVE  NInv'
<1>1. TypeOK /\ ActorsOK
  BY DEF IInv
<1>2. \A c \in Queued' : Names(res', c)
  <2>1. Queued \subseteq Command /\ act[a].cmd \in Command
    BY <1>1, QueuedTyped, ActorTyped
  <2>2. Names(res, act[a].cmd) /\ \A c \in Queued : Names(res, c)
    BY DEF NInv, Doing
  <2>3. \A c \in Command : Names(res, c) => Names(res', c)
    BY NamesKept
  <2> QED BY <2>1, <2>2, <2>3, NothingNamed
<1>3. ASSUME NEW x, NEW y, Doing(res', x), Woken(x, y) PROVE Doing(res', y)
  <2>1. CASE x.pc = "mapwait" /\ y = [x EXCEPT !.pc = "mapshare"]
    BY <1>3, <2>1 DEF Doing, Mapping
  <2> QED BY <1>3, <2>1, NothingNamed DEF Woken
<1>4. ASSUME NEW b \in Actors PROVE Doing(res', act'[b])
  <2>1. CASE b = a
    BY <1>3, <2>1 DEF ActStep
  <2>2. CASE b # a
    <3>1. act[b] \in Activity /\ ActorOK(b, act[b])
      BY ActorTyped
    <3>2. act[b].pc \in {"wait"} \cup Mapping => act[b].cur \in Ids
      BY <3>1 DEF ActorOK
    <3>3. Doing(res', act[b])
      BY <3>1, <3>2, NamesKept DEF NInv
    <3>4. Woken(act[b], act'[b])
      BY <2>2 DEF ActStep
    <3> QED BY <1>3, <3>3, <3>4
  <2> QED BY <2>1, <2>2
<1> QED BY <1>2, <1>4 DEF NInv

-----------------------------------------------------------------------------
(* What the handlers and the DPC do, as far as the invariants are concerned.  *)

\* The resources R and S agree but for the mapping of the user's addresses.
Alike(R, S) ==
    \A i \in Ids : /\ S[i].st = R[i].st /\ S[i].kind = R[i].kind /\ S[i].event = R[i].event
                   /\ S[i].FenceId = R[i].FenceId /\ S[i].va = R[i].va /\ S[i].blk = R[i].blk

\* Thread t, which works on no command, goes on as r, which does not either.
Aside(t, r) ==
    /\ r \in Activity /\ To(t, r) /\ ActorOK(t, r) /\ Doing(res, r)
    /\ act[t].pc \notin Working /\ r.pc \notin Working
    /\ act[t].cmd.blk = NoBlock /\ r.cmd.blk = NoBlock /\ r.cmd.fence = 0
    /\ r.pc = "mapshare" => res[r.cur].event
    /\ r.cmd = Other \/ t \in Holders \/ InFlight < MaxInFlight
    /\ Alike(res, res')
    /\ UNCHANGED <<ring, used, free, nextRes, nextFence>>

\* An actor that works on no command has no memory, and a waiting one no command.
LEMMA Unburdened ==
    ASSUME IInv, NEW a \in Actors, act[a].pc \notin {"update", "write", "event"}
    PROVE  act[a].cmd.blk = NoBlock /\ act[a].cmd.fence = 0
<1>1. ActorOK(a, act[a]) /\ act[a] \in Activity
  BY ActorTyped
<1>2. act[a].pc \in {"idle", "infence", "alloc", "push", "wait", "mapwait", "mapshare", "mapuser", "callback"}
  BY <1>1 DEF Activity
<1> QED BY <1>1, <1>2 DEF ActorOK, CommandOK, Blank, Mapping, Other

\* CtlWait.
LEMMA EffectCtlWait ==
    ASSUME IInv, NEW t \in Threads, NEW i \in Ids, CtlWait(t, i)
    PROVE  \E r : Aside(t, r)
<1> DEFINE r == [Idle EXCEPT !.cur = i, !.pc = "wait"]
<1>1. r \in Activity /\ r.pc = "wait" /\ r.cur = i /\ r.cmd = Other
  BY Values DEF Activity, Idle
<1>2. ActorOK(t, r)
  BY <1>1, BlankOther DEF ActorOK, Mapping
<1>3. /\ To(t, r) /\ act[t].pc = "idle" /\ res[i].st = "known"
      /\ UNCHANGED <<res, ring, used, free, nextRes, nextFence>>
  BY DEF CtlWait, MayStart, Known
<1>4. act[t].cmd.blk = NoBlock
  BY <1>3, ThreadIsActor, Unburdened
<1> HIDE DEF r
<1>5. Doing(res, r)
  BY <1>1, <1>3, NothingNamed DEF Doing, Mapping
<1> QED BY <1>1, <1>2, <1>3, <1>4, <1>5 DEF Aside, Working, Alike, Other

\* CtlMap.
LEMMA EffectCtlMap ==
    ASSUME IInv, NEW t \in Threads, NEW i \in Ids, CtlMap(t, i)
    PROVE  \E r : Aside(t, r)
<1> DEFINE pc == IF res[i].event THEN "mapshare" ELSE "mapwait"
           r == [Idle EXCEPT !.cur = i, !.pc = pc]
<1>1. pc \in {"mapshare", "mapwait"} /\ (pc = "mapshare" => res[i].event)
  OBVIOUS
<1>2. /\ To(t, r) /\ act[t].pc = "idle" /\ res[i].st = "known" /\ res[i].kind # "fence"
      /\ UNCHANGED <<res, ring, used, free, nextRes, nextFence>>
  BY DEF CtlMap, MayStart, Known
<1> HIDE DEF pc
<1>3. r \in Activity /\ r.pc = pc /\ r.cur = i /\ r.cmd = Other
  BY <1>1, Values DEF Activity, Idle
<1>4. ActorOK(t, r)
  BY <1>1, <1>2, <1>3, BlankOther DEF ActorOK, Mapping
<1>5. act[t].cmd.blk = NoBlock
  BY <1>2, ThreadIsActor, Unburdened
<1> HIDE DEF r
<1>6. Doing(res, r)
  BY <1>1, <1>2, <1>3, NothingNamed DEF Doing, Mapping
<1> QED BY <1>1, <1>2, <1>3, <1>4, <1>5, <1>6 DEF Aside, Working, Alike, Other

\* CtlSubmitCommand, up to the wait for its in-fence.
LEMMA EffectCtlSubmitCommand ==
    ASSUME IInv, NEW t \in Threads, NEW ids \in SUBSET Known, NEW after \in 0..(nextFence - 1),
           CtlSubmitCommand(t, ids, after)
    PROVE  \E r : Aside(t, r)
<1> DEFINE c == [Other EXCEPT !.type = "submit", !.ids = ids, !.after = after]
           r == [Idle EXCEPT !.cmd = c, !.pc = "infence"]
<1>1. /\ act[t].pc = "idle" /\ InFlight < MaxInFlight /\ To(t, r)
      /\ UNCHANGED <<res, ring, used, free, nextRes, nextFence>>
  BY DEF CtlSubmitCommand, MayStart
<1>2. ids \subseteq Ids /\ \A i \in ids : res[i].st = "known"
  BY DEF Known
<1>3. after \in Fences
  <2>1. nextFence \in 1..(MaxFence + 1)
    BY DEF IInv, TypeOK
  <2> QED BY <2>1, ConstAssumption DEF Fences
<1>4. c \in Command /\ c.type = "submit" /\ c.ids = ids /\ c.fence = 0 /\ c.blk = NoBlock
  BY <1>2, <1>3, Values DEF Command, Other
<1> HIDE DEF c
<1>5. r \in Activity /\ r.cmd = c /\ r.pc = "infence"
  BY <1>4, Values DEF Activity, Idle
<1>6. ActorOK(t, r)
  BY <1>4, <1>5 DEF ActorOK, CommandOK, Mapping
<1>7. act[t].cmd.blk = NoBlock
  BY <1>1, ThreadIsActor, Unburdened
<1> HIDE DEF r
<1>8. Doing(res, r)
  BY <1>2, <1>4, <1>5 DEF Doing, Names, Mapping
<1> QED BY <1>1, <1>4, <1>5, <1>6, <1>7, <1>8 DEF Aside, Working, Alike

\* The wait for the in-fence.
LEMMA EffectWaitInFence ==
    ASSUME IInv, NInv, NEW t \in Threads, WaitInFence(t)
    PROVE  \E r : Aside(t, r)
<1> DEFINE r == [act[t] EXCEPT !.pc = "alloc"]
<1>1. /\ act[t].pc = "infence" /\ To(t, r) /\ t \in Actors
      /\ UNCHANGED <<res, ring, used, free, nextRes, nextFence>>
  BY ThreadIsActor DEF WaitInFence
<1>2. act[t] \in Activity /\ ActorOK(t, act[t]) /\ Doing(res, act[t])
  BY <1>1, ActorTyped DEF NInv
<1>3. r \in Activity /\ r.pc = "alloc" /\ r.cmd = act[t].cmd
  BY <1>2 DEF Activity
<1> HIDE DEF r
<1>4. ActorOK(t, r) /\ Doing(res, r) /\ act[t].cmd.blk = NoBlock /\ act[t].cmd.fence = 0
      /\ act[t].cmd.type = "submit"
  BY <1>1, <1>2, <1>3 DEF ActorOK, Doing, Mapping
<1>5. t \in Holders
  BY <1>1, <1>4 DEF Holders, Other
<1> QED BY <1>1, <1>3, <1>4, <1>5 DEF Aside, Working, Alike

\* A handler that was not working on a command returns.
LEMMA EffectReturn ==
    ASSUME IInv, NEW t \in Threads, act[t].pc \notin Working, Return(t), Alike(res, res'),
           UNCHANGED <<ring, used, free, nextRes, nextFence>>
    PROVE  Aside(t, Idle)
<1>1. act[t].cmd.blk = NoBlock
  BY ThreadIsActor, Unburdened DEF Working
<1>2. Idle.pc = "idle" /\ Idle.cmd = Other /\ Other.blk = NoBlock /\ Other.fence = 0
  BY DEF Idle, Other
<1> QED BY <1>1, <1>2, IdleOK, NothingNamed DEF Aside, Working, Return

\* CtlMap sets pMdl or fails.
LEMMA EffectMapShare ==
    ASSUME IInv, NInv, NEW t \in Threads, MapShare(t)
    PROVE  \E r : Aside(t, r)
<1> DEFINE r == [act[t] EXCEPT !.pc = "mapuser"]
<1>1. /\ act[t].pc = "mapshare" /\ t \in Actors
      /\ UNCHANGED <<ring, used, free, nextRes, nextFence>>
  BY ThreadIsActor DEF MapShare
<1>2. act[t] \in Activity /\ ActorOK(t, act[t]) /\ Doing(res, act[t])
  BY <1>1, ActorTyped DEF NInv
<1>3. CASE Return(t) /\ UNCHANGED res
  <2>1. Alike(res, res')
    BY <1>3 DEF Alike
  <2> QED BY <1>1, <1>3, <2>1, EffectReturn DEF Working
<1>4. CASE res' = [res EXCEPT ![act[t].cur].mdl = TRUE] /\ To(t, r)
  <2>1. r \in Activity /\ r.pc = "mapuser" /\ r.cmd = act[t].cmd /\ r.cur = act[t].cur
    BY <1>2 DEF Activity
  <2>2. Alike(res, res')
    <3>1. \A i \in Ids : res[i] \in Resource
      BY DEF IInv, TypeOK
    <3> QED BY <1>4, <3>1 DEF Alike, IInv, TypeOK, Resource
  <2> HIDE DEF r
  <2>3. ActorOK(t, r) /\ Doing(res, r) /\ r.cmd = Other
    BY <1>1, <1>2, <2>1 DEF ActorOK, Doing, Mapping
  <2>4. act[t].cmd.blk = NoBlock /\ Other.blk = NoBlock /\ Other.fence = 0
    BY <1>1, Unburdened DEF Other
  <2> QED BY <1>1, <1>4, <2>1, <2>2, <2>3, <2>4 DEF Aside, Working
<1> QED BY <1>3, <1>4 DEF MapShare

\* CtlMap ends, and may take pMdl back.
LEMMA EffectMapUser ==
    ASSUME IInv, NEW t \in Threads, MapUser(t)
    PROVE  \E r : Aside(t, r)
<1>1. /\ act[t].pc = "mapuser" /\ Return(t)
      /\ UNCHANGED <<ring, used, free, nextRes, nextFence>>
  BY DEF MapUser
<1>2. Alike(res, res')
  <2>1. res \in [Ids -> Resource] /\ \A i \in Ids : res[i] \in Resource
    BY DEF IInv, TypeOK
  <2>2. CASE res' = res
    BY <2>1, <2>2 DEF Alike, Resource
  <2>3. CASE res' = [res EXCEPT ![act[t].cur].mdl = FALSE]
    BY <2>1, <2>3 DEF Alike, Resource
  <2> QED BY <2>2, <2>3 DEF MapUser
<1> QED BY <1>1, <1>2, EffectReturn DEF Working

\* Thread t pushes the command it has prepared, if there is room, and returns; a blob
\* it has asked to map is then known.
Pushes(t) ==
    /\ act[t].pc \in {"push", "update"} /\ To(t, Idle)
    /\ \/ ring' = Append(ring, act[t].cmd)
       \/ ring' = ring /\ (Room > 0 => "pool" \in Faults /\ act[t].pc = "update")
    /\ \A i \in Ids : /\ res'[i].kind = res[i].kind /\ res'[i].event = res[i].event
                      /\ res'[i].FenceId = res[i].FenceId /\ res'[i].va = res[i].va
                      /\ res'[i].blk = res[i].blk
                      /\ res'[i].st = IF Maps(act[t].cmd, i) THEN "known" ELSE res[i].st
    /\ UNCHANGED <<used, free, nextRes, nextFence>>

\* MapBlobResource.
LEMMA EffectMapBlobResource ==
    ASSUME IInv, NEW t \in Threads, MapBlobResource(t)
    PROVE  Pushes(t)
<1>1. \A i \in Ids : res[i] \in Resource
  BY DEF IInv, TypeOK
<1> QED BY <1>1 DEF MapBlobResource, Pushes, PushQueue, Return, Maps, Resource

\* TransferHost3D.
LEMMA EffectTransferHost3D ==
    ASSUME NEW t \in Threads, TransferHost3D(t)
    PROVE  Pushes(t)
  BY DEF TransferHost3D, Pushes, PushQueue, Return, Maps

\* SubmitCommand.
LEMMA EffectSubmitCommand ==
    ASSUME IInv, NEW t \in Threads, SubmitCommand(t)
    PROVE  Pushes(t) /\ act[t].pc = "update" /\ act[t].todo = {}
<1>1. act[t].cmd.type \in {"submit", "xfer"}
  BY ThreadIsActor, ActorTyped DEF SubmitCommand, ActorOK
<1> QED BY <1>1 DEF SubmitCommand, Pushes, PushQueue, Return, Maps

\* The queued commands, when one is pushed, ...
LEMMA QueuedPush ==
    ASSUME TypeOK, NEW c \in Command, ring' = Append(ring, c), used' = used
    PROVE  /\ Queued' = Queued \cup {c} /\ Len(ring') = Len(ring) + 1 /\ Len(ring) \in Nat
           /\ InRing' = InRing \cup {c}
<1>1. ring \in Seq(Command) /\ Len(ring) \in Nat
  BY DEF TypeOK
<1>2. /\ Len(ring') = Len(ring) + 1 /\ ring'[Len(ring) + 1] = c
      /\ \A j \in 1..Len(ring) : ring'[j] = ring[j]
  BY <1>1, AppendProperties
<1>3. \A j \in 1..(Len(ring) + 1) : j \in 1..Len(ring) \/ j = Len(ring) + 1
  BY <1>1
<1>4. 1..Len(ring) \subseteq 1..(Len(ring) + 1) /\ Len(ring) + 1 \in 1..(Len(ring) + 1)
  BY <1>1
<1>5. {ring'[j] : j \in 1..Len(ring')} = {ring[j] : j \in 1..Len(ring)} \cup {c}
  BY <1>2, <1>3, <1>4
<1> QED BY <1>1, <1>2, <1>5 DEF Queued, InRing

\* Two commands of no interest pushed in a row.
LEMMA TwoMore ==
    ASSUME TypeOK, ring' = ring \o <<Other, Other>>
    PROVE  /\ Len(ring) \in Nat /\ Len(ring') = Len(ring) + 2 /\ ring'[Len(ring) + 1] = Other
           /\ \A j \in 1..Len(ring) : ring'[j] = ring[j]
           /\ \A j \in 1..Len(ring') : j \in 1..Len(ring) \/ ring'[j] = Other
<1> DEFINE two == <<Other, Other>>
<1>1. ring \in Seq(Command) /\ Len(ring) \in Nat
  BY DEF TypeOK
<1>2. two \in Seq(Command) /\ Len(two) = 2 /\ two[1] = Other /\ two[2] = Other
  BY Values
<1> HIDE DEF two
<1>3. /\ Len(ring \o two) = Len(ring) + Len(two)
      /\ \A j \in 1..(Len(ring) + Len(two)) :
            (ring \o two)[j] = IF j <= Len(ring) THEN ring[j] ELSE two[j - Len(ring)]
  BY ONLY <1>1, <1>2, ConcatProperties
<1>4. ring' = ring \o two
  BY DEF two
<1>5. \A j \in 1..(Len(ring) + 2) : j \in 1..Len(ring) \/ (~(j <= Len(ring)) /\ j - Len(ring) \in {1, 2})
  BY <1>1
<1>6. \A j \in 1..Len(ring) : j \in 1..(Len(ring) + 2) /\ j <= Len(ring)
  BY <1>1
<1>7. Len(ring) + 1 \in 1..(Len(ring) + 2) /\ ~(Len(ring) + 1 <= Len(ring)) /\ (Len(ring) + 1) - Len(ring) = 1
  BY <1>1
<1>8. /\ Len(ring') = Len(ring) + 2 /\ ring'[Len(ring) + 1] = Other
      /\ \A j \in 1..Len(ring) : ring'[j] = ring[j]
  BY <1>2, <1>3, <1>4, <1>6, <1>7
<1>9. \A j \in 1..Len(ring') : j \in 1..Len(ring) \/ ring'[j] = Other
  BY <1>2, <1>3, <1>4, <1>5
<1> QED BY <1>1, <1>8, <1>9
\* ... when two are, ...
LEMMA QueuedTwo ==
    ASSUME TypeOK, ring' = ring \o <<Other, Other>>, used' = used
    PROVE  /\ Queued' = Queued \cup {Other} /\ Len(ring') = Len(ring) + 2 /\ Len(ring) \in Nat
           /\ InRing' = InRing \cup {Other}
<1>1. /\ Len(ring) \in Nat /\ Len(ring') = Len(ring) + 2 /\ ring'[Len(ring) + 1] = Other
      /\ \A j \in 1..Len(ring) : ring'[j] = ring[j]
      /\ \A j \in 1..Len(ring') : j \in 1..Len(ring) \/ ring'[j] = Other
  BY TwoMore
<1>2. 1..Len(ring) \subseteq 1..Len(ring') /\ Len(ring) + 1 \in 1..Len(ring')
  BY <1>1
<1>3. {ring'[j] : j \in 1..Len(ring')} = {ring[j] : j \in 1..Len(ring)} \cup {Other}
  BY ONLY <1>1, <1>2
<1> QED BY <1>1, <1>3 DEF Queued, InRing

\* ... when a resource is created, ...
LEMMA QueuedCreate ==
    ASSUME TypeOK, used' = used, ring' \in {ring, Append(ring, Other), ring \o <<Other, Other>>}
    PROVE  /\ Queued \subseteq Queued' /\ Queued' \subseteq Queued \cup {Other}
           /\ InRing \subseteq InRing' /\ InRing' \subseteq InRing \cup {Other}
           /\ Len(ring) \in Nat /\ Len(ring') <= Len(ring) + 2
           /\ ring' \in {ring, Append(ring, Other)} => Len(ring') <= Len(ring) + 1
<1>1. Len(ring) \in Nat
  BY DEF TypeOK
<1>2. CASE ring' = ring
  BY <1>1, <1>2 DEF Queued, InRing
<1>3. CASE ring' = Append(ring, Other)
  BY <1>1, <1>3, QueuedPush, Values
<1>4. CASE ring' = ring \o <<Other, Other>>
  <2>1. Queued' = Queued \cup {Other} /\ Len(ring') = Len(ring) + 2 /\ InRing' = InRing \cup {Other}
    BY <1>4, QueuedTwo
  <2>2. ring' = ring => FALSE
    BY <1>1, <2>1
  <2>3. ring' = Append(ring, Other) => Len(ring') = Len(ring) + 1
    BY QueuedPush, Values
  <2> QED BY <1>1, <2>1, <2>2, <2>3
<1> QED BY <1>2, <1>3, <1>4

\* ... when the host completes one, ...
LEMMA QueuedHost ==
    ASSUME TypeOK, HostComplete
    PROVE  /\ Queued' = Queued /\ Len(ring') + Len(used') = Len(ring) + Len(used)
           /\ \E c \in InRing : InRing = InRing' \cup {c} /\ InUsed' = InUsed \cup {c}
<1>1. PICK i \in 1..Len(ring) :
        /\ used' = Append(used, ring[i])
        /\ ring' = SubSeq(ring, 1, i - 1) \o SubSeq(ring, i + 1, Len(ring))
  BY DEF HostComplete
<1>2. /\ Len(ring) \in Nat /\ Len(used) \in Nat /\ ring[i] \in Command
      /\ ring \in Seq(Command) /\ used \in Seq(Command)
  BY DEF TypeOK
<1> DEFINE at(j) == IF j < i THEN j ELSE j + 1
<1>3. /\ Len(ring') = Len(ring) - 1
      /\ \A j \in 1..(Len(ring) - 1) : ring'[j] = ring[at(j)]
  BY <1>1, <1>2, Without
<1>4. /\ Len(used') = Len(used) + 1 /\ used'[Len(used) + 1] = ring[i]
      /\ \A j \in 1..Len(used) : used'[j] = used[j]
  BY <1>1, <1>2, AppendProperties
<1>5. \A j \in 1..(Len(ring) - 1) : at(j) \in 1..Len(ring)
  BY <1>2
<1>6. \A j \in 1..Len(ring) : j # i => \E k \in 1..(Len(ring) - 1) : at(k) = j
  <2>1. SUFFICES ASSUME NEW j \in 1..Len(ring), j # i PROVE \E k \in 1..(Len(ring) - 1) : at(k) = j
    OBVIOUS
  <2>2. CASE j < i
    <3>1. j \in 1..(Len(ring) - 1) /\ at(j) = j
      BY <1>2, <2>1, <2>2
    <3> QED BY <3>1
  <2>3. CASE ~(j < i)
    <3>1. j - 1 \in 1..(Len(ring) - 1) /\ at(j - 1) = j
      BY <1>2, <2>1, <2>3
    <3> QED BY <3>1
  <2> QED BY <2>2, <2>3
<1> HIDE DEF at
<1>7. \A j \in 1..Len(used') : j \in 1..Len(used) \/ j = Len(used) + 1
  BY <1>2, <1>4
<1>8. 1..Len(used) \subseteq 1..Len(used') /\ Len(used) + 1 \in 1..Len(used')
  BY <1>2, <1>4
<1>9. {used'[j] : j \in 1..Len(used')} = {used[j] : j \in 1..Len(used)} \cup {ring[i]}
  BY <1>4, <1>7, <1>8
<1>10. {ring[j] : j \in 1..Len(ring)} = {ring'[j] : j \in 1..Len(ring')} \cup {ring[i]}
  <2>1. \A j \in 1..Len(ring') : \E k \in 1..Len(ring) : ring'[j] = ring[k]
    BY <1>3, <1>5
  <2>2. \A j \in 1..Len(ring) : j # i => \E k \in 1..Len(ring') : ring'[k] = ring[j]
    BY <1>3, <1>6
  <2> QED BY ONLY <2>1, <2>2, i \in 1..Len(ring), SMTT(20)
<1>11. Queued' = Queued
  BY <1>9, <1>10 DEF Queued
<1>12. ring[i] \in InRing /\ InRing = InRing' \cup {ring[i]} /\ InUsed' = InUsed \cup {ring[i]}
  BY <1>9, <1>10 DEF InRing, InUsed
<1>13. Len(ring') + Len(used') = Len(ring) + Len(used)
  BY <1>2, <1>3, <1>4
<1> QED BY <1>11, <1>12, <1>13

\* ... and when the DPC fetches one.
LEMMA QueuedRead ==
    ASSUME TypeOK, used # <<>>, used' = Tail(used), ring' = ring
    PROVE  /\ Queued = Queued' \cup {Head(used)} /\ Len(used') = Len(used) - 1 /\ Len(used) \in Nat
           /\ Head(used) = used[1] /\ 1 \in 1..Len(used)
           /\ InRing' = InRing /\ InUsed = InUsed' \cup {Head(used)}
<1>1. used \in Seq(Command) /\ Len(used) \in Nat /\ Len(used) # 0
  BY DEF TypeOK
<1>2. /\ Len(used') = Len(used) - 1 /\ Head(used) = used[1]
      /\ \A j \in 1..Len(used') : used'[j] = used[j + 1]
  BY <1>1, HeadTailProperties
<1>3. /\ 1 \in 1..Len(used) /\ \A j \in 1..Len(used') : j + 1 \in 1..Len(used)
      /\ \A j \in 1..Len(used) : j = 1 \/ (j - 1 \in 1..Len(used') /\ (j - 1) + 1 = j)
  BY <1>1, <1>2
<1>4. {used[j] : j \in 1..Len(used)} = {used'[j] : j \in 1..Len(used')} \cup {used[1]}
  BY <1>2, <1>3
<1>5. Queued = Queued' \cup {Head(used)}
  BY <1>2, <1>4 DEF Queued
<1>6. InRing' = InRing
  BY DEF InRing
<1>7. InUsed = InUsed' \cup {Head(used)}
  BY <1>2, <1>4 DEF InUsed
<1> QED BY <1>1, <1>2, <1>3, <1>5, <1>6, <1>7

\* KeSetEvent on resource i by actor a wakes those that wait for it, nobody else.
Wakes(a, i) ==
    \A b \in Actors \ {a} : \/ act'[b] = act[b]
                            \/ a \notin Threads /\ act[b].cur = i /\ Woken(act[b], act'[b])

\* Actor a, in UpdateResourceState, comes to resource i or goes on with it, and becomes r.
Updating == {"update", "write", "event"}
Updates(a, r, i) ==
    /\ act[a].pc \in Updating /\ r.pc \in Updating /\ r.cmd = act[a].cmd /\ i \in act[a].cmd.ids
    /\ r \in Activity /\ ActorOK(a, r) /\ Doing(res, r) /\ ActStep(a, r) /\ Wakes(a, i)
    /\ act[a].todo \ {i} \subseteq r.todo
    /\ \A j \in Ids : /\ res'[j].st = res[j].st /\ res'[j].kind = res[j].kind
                      /\ res'[j].va = res[j].va /\ res'[j].blk = res[j].blk
                      /\ j # i => res'[j].event = res[j].event /\ res'[j].FenceId = res[j].FenceId
    /\ act[a].pc # "update" => act[a].cur = i
    /\ \/ res'[i].event = (a \notin Threads) /\ res'[i].FenceId = res[i].FenceId
       \/ /\ res'[i].event = res[i].event
          /\ \/ r.pc \in {"write", "event"} /\ r.cur = i
                /\ res'[i].FenceId \in {res[i].FenceId, act[a].cmd.fence}
             \/ /\ act[a].cmd.fence # 0 /\ ~(act[a].cmd.fence >= res[i].FenceId)
                /\ act[a].pc = "update" /\ res'[i].FenceId = res[i].FenceId
    /\ UNCHANGED <<ring, used, free, nextRes, nextFence>>

\* The change of the event, seen from the others.
LEMMA EffectChangeEvent ==
    ASSUME TypeOK, NEW a \in Actors, NEW i \in Ids, NEW r \in Activity, ChangeEvent(a, i, r)
    PROVE  /\ ActStep(a, r) /\ Wakes(a, i) /\ res' \in [Ids -> Resource]
           /\ \A j \in Ids : /\ res'[j].st = res[j].st /\ res'[j].kind = res[j].kind
                             /\ res'[j].va = res[j].va /\ res'[j].blk = res[j].blk
                             /\ res'[j].FenceId = res[j].FenceId
                             /\ j # i => res'[j].event = res[j].event
           /\ res'[i].event = (a \notin Threads)
<1>1. ActStep(a, r) /\ res' = [res EXCEPT ![i].event = ~Busy(a)] /\ res' \in [Ids -> Resource]
  BY StepChangeEvent
<1> DEFINE A == [act EXCEPT ![a] = r]
<1>2. act' = IF Busy(a) THEN A ELSE Released(A, i)
  BY DEF ChangeEvent
<1>3. \A b \in Actors \ {a} : A[b] = act[b]
  BY DEF TypeOK
<1> HIDE DEF A
<1>4. Wakes(a, i)
  <2>1. SUFFICES ASSUME NEW b \in Actors \ {a}, act'[b] # act[b]
                 PROVE  a \notin Threads /\ act[b].cur = i /\ Woken(act[b], act'[b])
    BY DEF Wakes
  <2>2. ~Busy(a) /\ act' = Released(A, i)
    BY <1>2, <1>3, <2>1
  <2> QED BY <1>3, <2>1, <2>2 DEF Released, Woken, Busy
<1>5. \A j \in Ids : res[j] \in Resource
  BY DEF TypeOK
<1> QED BY <1>1, <1>4, <1>5 DEF TypeOK, Resource, Busy

\* A step that sets no event wakes nobody.
LEMMA WakesNobody ==
    ASSUME TypeOK, NEW a \in Actors, NEW r, To(a, r)
    PROVE  act'[a] = r /\ (\A b \in Actors \ {a} : act'[b] = act[b]) /\ \A i : Wakes(a, i)
  BY DEF TypeOK, To, Wakes

\* UpdateResourceState.
LEMMA EffectUpdate ==
    ASSUME IInv, NInv, NEW a \in Actors, UpdateResourceState(a)
    PROVE  \E i \in Ids : \E r : Updates(a, r, i)
<1>1. TypeOK /\ act[a] \in Activity /\ ActorOK(a, act[a]) /\ Doing(res, act[a]) /\ act[a].cmd.ids \subseteq Ids
  BY ActorTyped DEF IInv, NInv
<1>2. \A j \in Ids : res[j] \in Resource
  BY <1>1 DEF TypeOK
<1>3. ASSUME UpdateCompare(a) PROVE \E i \in Ids : \E r : Updates(a, r, i)
  <2>1. PICK i \in act[a].todo :
          LET rest == [act[a] EXCEPT !.todo = @ \ {i}]
          IN  \/ act[a].cmd.fence = 0 /\ ChangeEvent(a, i, rest)
              \/ /\ act[a].cmd.fence # 0 /\ Newer(a, i)
                 /\ To(a, [rest EXCEPT !.cur = i, !.pc = "write"])
                 /\ UNCHANGED res
              \/ /\ act[a].cmd.fence # 0 /\ ~Newer(a, i)
                 /\ To(a, rest)
                 /\ UNCHANGED res
    BY <1>3 DEF UpdateCompare
  <2>2. /\ act[a].pc = "update" /\ UNCHANGED <<ring, used, free, nextRes, nextFence>>
    BY <1>3 DEF UpdateCompare
  <2>3. i \in act[a].cmd.ids /\ i \in Ids
    BY <1>1, <2>1, <2>2 DEF Doing
  <2> DEFINE rest == [act[a] EXCEPT !.todo = @ \ {i}]
             write == [rest EXCEPT !.cur = i, !.pc = "write"]
  <2>4. rest \in Activity /\ rest.cmd = act[a].cmd /\ rest.pc = "update" /\ rest.todo = act[a].todo \ {i}
    BY <1>1, <2>2 DEF Activity
  <2>5. write \in Activity /\ write.cmd = act[a].cmd /\ write.pc = "write" /\ write.cur = i
        /\ write.todo = act[a].todo \ {i}
    BY <1>1, <2>3 DEF Activity
  <2>6. ActorOK(a, rest) /\ ActorOK(a, write)
    BY <1>1, <2>2, <2>3, <2>4, <2>5 DEF ActorOK, Mapping
  <2>7. Doing(res, rest) /\ Doing(res, write)
    BY <1>1, <2>2, <2>3, <2>4, <2>5 DEF Doing, Mapping
  <2>8. CASE act[a].cmd.fence = 0 /\ ChangeEvent(a, i, rest)
    <3> HIDE DEF rest
    <3>1. /\ ActStep(a, rest) /\ Wakes(a, i)
          /\ \A j \in Ids : /\ res'[j].st = res[j].st /\ res'[j].kind = res[j].kind
                            /\ res'[j].va = res[j].va /\ res'[j].blk = res[j].blk
                            /\ res'[j].FenceId = res[j].FenceId
                            /\ j # i => res'[j].event = res[j].event
          /\ res'[i].event = (a \notin Threads)
      BY <1>1, <2>3, <2>4, <2>8, EffectChangeEvent
    <3>2. Updates(a, rest, i)
      BY <2>2, <2>3, <2>4, <2>6, <2>7, <3>1 DEF Updates, Updating
    <3> QED BY <2>3, <3>2
  <2>9. CASE act[a].cmd.fence # 0 /\ To(a, write) /\ UNCHANGED res
    <3> HIDE DEF write
    <3>1. ActStep(a, write) /\ Wakes(a, i)
      BY <1>1, <2>5, <2>9, StepTo, WakesNobody
    <3>2. Updates(a, write, i)
      BY <2>2, <2>3, <2>5, <2>6, <2>7, <2>9, <3>1 DEF Updates, Updating
    <3> QED BY <2>3, <3>2
  <2>10. CASE act[a].cmd.fence # 0 /\ ~Newer(a, i) /\ To(a, rest) /\ UNCHANGED res
    <3> HIDE DEF rest
    <3>1. ActStep(a, rest) /\ Wakes(a, i)
      BY <1>1, <2>4, <2>10, StepTo, WakesNobody
    <3>2. Updates(a, rest, i)
      BY <2>2, <2>3, <2>4, <2>6, <2>7, <2>10, <3>1 DEF Updates, Updating, Newer
    <3> QED BY <2>3, <3>2
  <2> QED BY <2>1, <2>8, <2>9, <2>10
<1>4. ASSUME UpdateWrite(a) PROVE \E i \in Ids : \E r : Updates(a, r, i)
  <2> DEFINE i == act[a].cur
             r == [act[a] EXCEPT !.pc = "event"]
  <2>1. /\ act[a].pc = "write" /\ UNCHANGED <<ring, used, free, nextRes, nextFence>> /\ To(a, r)
        /\ res' = [res EXCEPT ![i].FenceId = act[a].cmd.fence]
    BY <1>4 DEF UpdateWrite
  <2>2. i \in act[a].cmd.ids /\ i \in Ids
    BY <1>1, <2>1 DEF Doing
  <2>3. r \in Activity /\ r.cmd = act[a].cmd /\ r.pc = "event" /\ r.cur = i /\ r.todo = act[a].todo
    BY <1>1 DEF Activity
  <2> HIDE DEF r
  <2>4. ActorOK(a, r)
    BY <1>1, <2>1, <2>3 DEF ActorOK, Mapping
  <2>5. Doing(res, r)
    BY <1>1, <2>1, <2>3 DEF Doing, Mapping
  <2>6. ActStep(a, r) /\ Wakes(a, i)
    BY <1>1, <2>1, <2>3, StepTo, WakesNobody
  <2>7. /\ \A j \in Ids : /\ res'[j].st = res[j].st /\ res'[j].kind = res[j].kind
                          /\ res'[j].va = res[j].va /\ res'[j].blk = res[j].blk
                          /\ res'[j].event = res[j].event
                          /\ j # i => res'[j].FenceId = res[j].FenceId
        /\ res'[i].FenceId = act[a].cmd.fence
    BY <1>1, <1>2, <2>1, <2>2 DEF TypeOK, Resource
  <2>8. Updates(a, r, i)
    BY <2>1, <2>2, <2>3, <2>4, <2>5, <2>6, <2>7 DEF Updates, Updating
  <2> QED BY <2>2, <2>8
<1>5. ASSUME UpdateEvent(a) PROVE \E i \in Ids : \E r : Updates(a, r, i)
  <2> DEFINE i == act[a].cur
             r == [act[a] EXCEPT !.pc = "update", !.cur = 0]
  <2>1. /\ act[a].pc = "event" /\ UNCHANGED <<ring, used, free, nextRes, nextFence>>
        /\ ChangeEvent(a, i, r)
    BY <1>5 DEF UpdateEvent
  <2>2. i \in act[a].cmd.ids /\ i \in Ids
    BY <1>1, <2>1 DEF Doing
  <2>3. r \in Activity /\ r.cmd = act[a].cmd /\ r.pc = "update" /\ r.todo = act[a].todo
    BY <1>1 DEF Activity
  <2> HIDE DEF r
  <2>4. ActorOK(a, r)
    BY <1>1, <2>1, <2>3 DEF ActorOK, Mapping
  <2>5. Doing(res, r)
    BY <1>1, <2>1, <2>3 DEF Doing, Mapping
  <2>6. /\ ActStep(a, r) /\ Wakes(a, i)
        /\ \A j \in Ids : /\ res'[j].st = res[j].st /\ res'[j].kind = res[j].kind
                          /\ res'[j].va = res[j].va /\ res'[j].blk = res[j].blk
                          /\ res'[j].FenceId = res[j].FenceId
                          /\ j # i => res'[j].event = res[j].event
        /\ res'[i].event = (a \notin Threads)
    BY <1>1, <2>1, <2>2, <2>3, EffectChangeEvent
  <2>7. Updates(a, r, i)
    BY <2>1, <2>2, <2>3, <2>4, <2>5, <2>6 DEF Updates, Updating
  <2> QED BY <2>2, <2>7
<1> QED BY <1>3, <1>4, <1>5 DEF UpdateResourceState

\* Thread t makes resource i busy for a transfer, and is then r.
Transfers(t, r, i) ==
    /\ act[t].pc = "idle" /\ InFlight < MaxInFlight /\ res[i].st = "known"
    /\ r \in Activity /\ ActorOK(t, r) /\ ActStep(t, r) /\ Wakes(t, i)
    /\ r.pc = "push" /\ r.cmd.type = "xfer" /\ r.cmd.ids = {i} /\ r.cmd.blk = NoBlock /\ r.cmd.fence = 0
    /\ \A j \in Ids : /\ res'[j].st = res[j].st /\ res'[j].kind = res[j].kind
                      /\ res'[j].va = res[j].va /\ res'[j].blk = res[j].blk
                      /\ res'[j].FenceId = res[j].FenceId
                      /\ j # i => res'[j].event = res[j].event
    /\ ~res'[i].event
    /\ UNCHANGED <<ring, used, free, nextRes, nextFence>>

\* CtlTransferHost.
LEMMA EffectCtlTransferHost ==
    ASSUME IInv, NEW t \in Threads, NEW i \in Ids, CtlTransferHost(t, i)
    PROVE  \E r : Transfers(t, r, i)
<1> DEFINE c == [Other EXCEPT !.type = "xfer", !.ids = {i}]
           r == [Idle EXCEPT !.cmd = c, !.pc = "push"]
<1>1. c \in Command /\ c.type = "xfer" /\ c.ids = {i} /\ Blank(c)
  BY Values DEF Command, Other, Blank
<1>2. /\ ChangeEvent(t, i, r) /\ act[t].pc = "idle" /\ InFlight < MaxInFlight /\ res[i].st = "known"
      /\ UNCHANGED <<ring, used, free, nextRes, nextFence>>
  BY DEF CtlTransferHost, MayStart, Known
<1> HIDE DEF c
<1>3. r \in Activity /\ r.pc = "push" /\ r.cmd = c
  BY <1>1, Values DEF Activity, Idle
<1>4. ActorOK(t, r)
  BY <1>1, <1>3 DEF ActorOK, Mapping, CommandOK
<1> HIDE DEF r
<1>5. TypeOK /\ t \in Actors
  BY ThreadIsActor DEF IInv
<1>6. /\ ActStep(t, r) /\ Wakes(t, i)
      /\ \A j \in Ids : /\ res'[j].st = res[j].st /\ res'[j].kind = res[j].kind
                        /\ res'[j].va = res[j].va /\ res'[j].blk = res[j].blk
                        /\ res'[j].FenceId = res[j].FenceId
                        /\ j # i => res'[j].event = res[j].event
      /\ res'[i].event = (t \notin Threads)
  BY <1>2, <1>3, <1>5, EffectChangeEvent
<1>7. Transfers(t, r, i)
  BY <1>1, <1>2, <1>3, <1>4, <1>6 DEF Transfers, Blank
<1> QED BY <1>7

\* Thread t takes block b and, if it is fenced, a fence id for its command, and is then r:
\* ready to update, or back with an error.
Takes(t, r, b) ==
    /\ act[t].pc = "alloc" /\ b \in free /\ free' = free \ {b}
    /\ r \in Activity /\ ActorOK(t, r) /\ Doing(res, r) /\ To(t, r)
    /\ nextFence' = nextFence \/ (t \in FencedThreads /\ nextFence' = nextFence + 1)
    /\ \/ r = Idle /\ "probe" \in Faults
       \/ /\ r.pc = "update" /\ r.cmd.ids = act[t].cmd.ids /\ r.cmd.blk = b /\ r.cmd.type = "submit"
          /\ \/ r.cmd.fence = 0 /\ nextFence' = nextFence
             \/ t \in FencedThreads /\ r.cmd.fence = nextFence /\ nextFence' = nextFence + 1
    /\ UNCHANGED <<res, ring, used, nextRes>>

\* The allocations of CtlSubmitCommand.
LEMMA EffectTakeCommandBuffer ==
    ASSUME IInv, NInv, NEW t \in Threads, TakeCommandBuffer(t)
    PROVE  \E r : Aside(t, r) \/ \E b : Takes(t, r, b)
<1>1. act[t].pc = "alloc" /\ t \in Actors /\ TypeOK /\ UNCHANGED <<res, ring, used, nextRes>>
  BY ThreadIsActor DEF TakeCommandBuffer, IInv
<1>2. /\ act[t] \in Activity /\ ActorOK(t, act[t]) /\ act[t].cmd \in Command /\ Doing(res, act[t])
      /\ act[t].cmd.type = "submit" /\ act[t].cmd.ids \subseteq Ids
  BY <1>1, ActorTyped DEF NInv, ActorOK
<1>3. CASE free = {} /\ Return(t) /\ UNCHANGED <<free, nextFence>>
  <2>1. Alike(res, res')
    BY <1>1 DEF Alike
  <2> QED BY <1>1, <1>3, <2>1, EffectReturn DEF Working
<1>4. ASSUME NEW b \in free, NEW fence \in {IF t \in FencedThreads THEN nextFence ELSE 0},
             free' = free \ {b}, nextFence' = IF fence # 0 THEN nextFence + 1 ELSE nextFence,
             \/ To(t, [act[t] EXCEPT !.cmd.blk = b, !.cmd.fence = fence,
                                     !.todo = act[t].cmd.ids, !.pc = "update"])
             \/ "probe" \in Faults /\ act[t].cmd.ids # {} /\ Return(t)
      PROVE  \E r : Takes(t, r, b)
  <2>1. b \in Blocks /\ nextFence # 0 /\ nextFence \in Nat
    BY <1>1 DEF TypeOK
  <2>2. \/ fence = 0 /\ nextFence' = nextFence
        \/ t \in FencedThreads /\ fence = nextFence /\ nextFence' = nextFence + 1
    BY <1>4, <2>1
  <2>3. CASE "probe" \in Faults /\ Return(t)
    <3>1. Takes(t, Idle, b)
      BY <1>1, <1>4, <2>2, <2>3, IdleOK, NothingNamed DEF Takes, Return
    <3> QED BY <3>1
  <2>4. CASE To(t, [act[t] EXCEPT !.cmd.blk = b, !.cmd.fence = fence,
                                  !.todo = act[t].cmd.ids, !.pc = "update"])
    <3> DEFINE c == [act[t].cmd EXCEPT !.blk = b, !.fence = fence]
               r == [act[t] EXCEPT !.cmd = c, !.todo = act[t].cmd.ids, !.pc = "update"]
    <3>1. fence \in Fences
      <4>1. CASE fence = 0
        BY <4>1, ConstAssumption DEF Fences
      <4>2. CASE t \in FencedThreads /\ fence = nextFence
        <5>1. nextFence <= MaxFence
          BY <1>1, <4>2, FenceWithin
        <5> QED BY <2>1, <4>2, <5>1, ConstAssumption DEF Fences
      <4> QED BY <2>2, <4>1, <4>2
    <3>2. c \in Command /\ c.blk = b /\ c.fence = fence /\ c.type = "submit" /\ c.ids = act[t].cmd.ids
      BY <1>2, <2>1, <3>1 DEF Command
    <3>3. To(t, r)
      BY <1>2, <2>4 DEF Activity
    <3> HIDE DEF c
    <3>4. r \in Activity /\ r.cmd = c /\ r.pc = "update" /\ r.todo = act[t].cmd.ids
      BY <1>2, <3>2 DEF Activity
    <3> HIDE DEF r
    <3>5. ActorOK(t, r)
      BY <3>2, <3>4 DEF ActorOK, CommandOK, Mapping
    <3>6. Doing(res, r)
      BY <1>2, <3>2, <3>4 DEF Doing, Names, Mapping
    <3>7. Takes(t, r, b)
      BY <1>1, <1>4, <2>2, <3>2, <3>3, <3>4, <3>5, <3>6 DEF Takes
    <3> QED BY <3>7
  <2> QED BY <1>4, <2>3, <2>4
<1> QED BY <1>3, <1>4 DEF TakeCommandBuffer

\* Thread t creates resource nextRes, or finds no memory for it, and is then r: as it was, or
\* about to map the blob.
Creates(t, r) ==
    /\ act[t].pc = "idle" /\ InFlight < MaxInFlight /\ nextRes \in Ids /\ nextRes' = nextRes + 1
    /\ r \in Activity /\ ActorOK(t, r) /\ ActStep(t, r)
    /\ act'[t] = r /\ \A b \in Actors \ {t} : act'[b] = act[b]
    /\ ring' \in {ring, Append(ring, Other), ring \o <<Other, Other>>}
    /\ \A i \in Ids \ {nextRes} : res'[i] = res[i]
    /\ LET x == res'[nextRes]
       IN  \/ r = act[t] /\ x = res[nextRes] /\ free' = free
           \/ /\ r = act[t] /\ x.st = "known" /\ x.event /\ x.FenceId = 0
              /\ x.kind = "fence" \/ (x.kind = "buffer" /\ x.va)
              /\ x.blk \in free \cup {NoBlock} /\ free' = free \ {x.blk}
           \/ /\ r.pc = "push" /\ r.cmd.type = "mapblob" /\ r.cmd.ids = {nextRes}
              /\ r.cmd.blk = NoBlock /\ r.cmd.fence = 0
              /\ ring' \in {ring, Append(ring, Other)}
              /\ x.st = "listed" /\ x.kind = "blob" /\ ~x.event /\ ~x.va /\ x.FenceId = 0
              /\ x.blk = NoBlock /\ free' = free
    /\ UNCHANGED <<used, nextFence>>

\* CtlCreateResource.
LEMMA EffectCtlCreateResource ==
    ASSUME IInv, NEW t \in Threads, NEW kind \in {"fence", "buffer"}, CtlCreateResource(t, kind)
    PROVE  \E r : Creates(t, r)
<1> DEFINE r == act[t]
<1>1. /\ act[t].pc = "idle" /\ nextRes <= MaxRes /\ nextRes' = nextRes + 1 /\ InFlight < MaxInFlight
      /\ UNCHANGED <<act, used, nextFence>>
  BY DEF CtlCreateResource, MayStart
<1>2. t \in Actors /\ r \in Activity /\ ActorOK(t, r) /\ TypeOK
  BY ThreadIsActor, ActorTyped DEF IInv
<1>3. ActStep(t, r)
  BY <1>1, <1>2 DEF ActStep, Woken, TypeOK
<1>4. nextRes \in Ids /\ res \in [Ids -> Resource]
  BY <1>1, <1>2, ConstAssumption DEF TypeOK, Ids
<1>5. NoBlock \notin free
  BY <1>2, ConstAssumption DEF TypeOK, NoBlock
<1> DEFINE fence == [NoResource EXCEPT !.st = "known"]
           buffer(b) == [NoResource EXCEPT !.st = "known", !.kind = "buffer", !.va = TRUE, !.blk = b]
<1>6. CASE kind = "fence" /\ PushQueue(Other) /\ UNCHANGED free /\ res' = [res EXCEPT ![nextRes] = fence]
  <2>1. fence.st = "known" /\ fence.event /\ fence.FenceId = 0 /\ fence.kind = "fence" /\ fence.blk = NoBlock
    BY DEF NoResource
  <2> HIDE DEF fence
  <2>2. res'[nextRes] = fence /\ \A i \in Ids \ {nextRes} : res'[i] = res[i]
    BY <1>4, <1>6
  <2>3. ring' \in {ring, Append(ring, Other)} /\ free' = free \ {NoBlock}
    BY <1>5, <1>6 DEF PushQueue
  <2> QED BY <1>1, <1>2, <1>3, <1>4, <2>1, <2>2, <2>3 DEF Creates
<1>7. CASE kind = "buffer" /\ free = {} /\ PushQueue(Other) /\ UNCHANGED <<res, free>>
  <2>1. ring' \in {ring, Append(ring, Other)}
    BY <1>7 DEF PushQueue
  <2> QED BY <1>1, <1>2, <1>3, <1>4, <1>7, <2>1 DEF Creates
<1>8. ASSUME NEW b \in free, PushTwo(Other, Other), free' = free \ {b},
             res' = [res EXCEPT ![nextRes] = buffer(b)]
      PROVE  Creates(t, r)
  <2> DEFINE x == buffer(b)
  <2>1. x.st = "known" /\ x.event /\ x.FenceId = 0 /\ x.kind = "buffer" /\ x.va /\ x.blk = b
    BY DEF NoResource
  <2>2. res' = [res EXCEPT ![nextRes] = x]
    BY <1>8
  <2> HIDE DEF x
  <2>3. res'[nextRes] = x /\ \A i \in Ids \ {nextRes} : res'[i] = res[i]
    BY <1>4, <2>2
  <2>4. ring' \in {ring, Append(ring, Other), ring \o <<Other, Other>>}
    <3>1. Room \in Int
      BY <1>2, ConstAssumption DEF Room, TypeOK
    <3> QED BY <1>8, <3>1 DEF PushTwo
  <2> QED BY <1>1, <1>2, <1>3, <1>4, <1>8, <2>1, <2>3, <2>4 DEF Creates
<1> QED BY <1>6, <1>7, <1>8 DEF CtlCreateResource

\* CtlCreateBlobResource.
LEMMA EffectCtlCreateBlobResource ==
    ASSUME IInv, NEW t \in Threads, CtlCreateBlobResource(t)
    PROVE  \E r : Creates(t, r)
<1> DEFINE x == [NoResource EXCEPT !.st = "listed", !.kind = "blob", !.event = FALSE]
           c == [Other EXCEPT !.type = "mapblob", !.ids = {nextRes}]
           r == [Idle EXCEPT !.cmd = c, !.pc = "push"]
<1>1. /\ act[t].pc = "idle" /\ nextRes <= MaxRes /\ nextRes' = nextRes + 1 /\ InFlight < MaxInFlight
      /\ To(t, r) /\ ring' \in {ring, Append(ring, Other)} /\ res' = [res EXCEPT ![nextRes] = x]
      /\ UNCHANGED <<used, free, nextFence>>
  BY DEF CtlCreateBlobResource, MayStart, PushQueue
<1>2. TypeOK /\ t \in Actors /\ nextRes \in Ids /\ res \in [Ids -> Resource]
  BY <1>1, ThreadIsActor, ConstAssumption DEF IInv, TypeOK, Ids
<1>3. x.st = "listed" /\ x.kind = "blob" /\ ~x.event /\ ~x.va /\ x.FenceId = 0 /\ x.blk = NoBlock
  BY DEF NoResource
<1>4. c \in Command /\ c.type = "mapblob" /\ c.ids = {nextRes} /\ Blank(c)
  BY <1>2, Values DEF Command, Other, Blank
<1> HIDE DEF c
<1>5. r \in Activity /\ r.pc = "push" /\ r.cmd = c
  BY <1>4, Values DEF Activity, Idle
<1>6. ActorOK(t, r)
  BY <1>4, <1>5 DEF ActorOK, Mapping, CommandOK
<1> HIDE DEF r, x
<1>7. ActStep(t, r) /\ act'[t] = r /\ \A b \in Actors \ {t} : act'[b] = act[b]
  BY <1>1, <1>2, <1>5, StepTo, WakesNobody
<1>8. res'[nextRes] = x /\ \A i \in Ids \ {nextRes} : res'[i] = res[i]
  BY <1>1, <1>2
<1> QED BY <1>1, <1>2, <1>3, <1>4, <1>5, <1>6, <1>7, <1>8 DEF Creates, Blank

\* DPC d fetches the oldest completed command, and is then r.
Reads(d, r) ==
    /\ act[d].pc = "idle" /\ used # <<>> /\ used' = Tail(used)
    /\ r \in Activity /\ ActorOK(d, r) /\ To(d, r)
    /\ \/ r.pc = "update" /\ r.cmd = Head(used) /\ r.todo = r.cmd.ids /\ r.cmd.type # "mapblob"
       \/ r.pc = "callback" /\ r.cmd = Head(used) /\ r.cmd.type = "mapblob"
       \/ r = Idle /\ Head(used) = Other
    /\ UNCHANGED <<res, ring, free, nextRes, nextFence>>

\* VirtioVgpuReadFromQueue.
LEMMA EffectReadFromQueue ==
    ASSUME IInv, NEW d \in Dpcs, ReadFromQueue(d)
    PROVE  \E r : Reads(d, r)
<1> DEFINE c == Head(used)
           r == CASE c.type \in {"submit", "xfer"} ->
                        [Idle EXCEPT !.cmd = c, !.todo = c.ids, !.pc = "update"]
                  [] c.type = "mapblob" -> [Idle EXCEPT !.cmd = c, !.pc = "callback"]
                  [] c.type = "other" -> Idle
<1>1. /\ act[d].pc = "idle" /\ used # <<>> /\ used' = Tail(used) /\ To(d, r)
      /\ UNCHANGED <<res, ring, free, nextRes, nextFence>>
  BY DEF ReadFromQueue
<1>2. d \in Actors /\ TypeOK /\ QueuesOK
  BY DpcIsActor DEF IInv
<1>3. c \in Command /\ CommandOK(c)
  <2>1. Head(used) = used[1] /\ 1 \in 1..Len(used)
    BY <1>1, <1>2, QueuedRead
  <2> QED BY <1>2, <2>1 DEF QueuesOK, TypeOK
<1>4. c.ids \subseteq Ids /\ c.type \in {"submit", "xfer", "mapblob", "other"}
  BY <1>3 DEF Command
<1> HIDE DEF c
<1>5. CASE c.type \in {"submit", "xfer"}
  <2> DEFINE x == [Idle EXCEPT !.cmd = c, !.todo = c.ids, !.pc = "update"]
  <2>1. x \in Activity /\ x.cmd = c /\ x.pc = "update" /\ x.todo = c.ids
    BY <1>3, <1>4, Values DEF Activity, Idle
  <2>2. r = x
    BY <1>5
  <2> HIDE DEF x, r
  <2>3. ActorOK(d, r)
    BY <1>3, <1>5, <2>1, <2>2 DEF ActorOK, Mapping
  <2> QED BY <1>1, <1>5, <2>1, <2>2, <2>3 DEF Reads, c
<1>6. CASE c.type = "mapblob"
  <2> DEFINE x == [Idle EXCEPT !.cmd = c, !.pc = "callback"]
  <2>1. x \in Activity /\ x.cmd = c /\ x.pc = "callback"
    BY <1>3, Values DEF Activity, Idle
  <2>2. r = x
    BY <1>6
  <2> HIDE DEF x, r
  <2>3. ActorOK(d, r)
    BY <1>3, <1>6, <2>1, <2>2 DEF ActorOK, Mapping
  <2> QED BY <1>1, <1>6, <2>1, <2>2, <2>3 DEF Reads, c
<1>7. CASE c.type = "other"
  <2>1. r = Idle /\ c = Other
    BY <1>3, <1>7 DEF CommandOK
  <2> HIDE DEF r
  <2> QED BY <1>1, <2>1, IdleOK DEF Reads, c
<1> QED BY <1>4, <1>5, <1>6, <1>7

\* DPC d runs the callback of the mapped blob i, which may fail.
Calls(d, i) ==
    /\ act[d].pc = "callback" /\ i \in act[d].cmd.ids /\ ActStep(d, Idle) /\ Wakes(d, i)
    /\ \A j \in Ids : /\ res'[j].st = res[j].st /\ res'[j].kind = res[j].kind
                      /\ res'[j].blk = res[j].blk /\ res'[j].FenceId = res[j].FenceId
                      /\ j # i => res'[j].event = res[j].event /\ res'[j].va = res[j].va
    /\ \/ res'[i].event /\ res'[i].va
       \/ /\ "mapio" \in Faults /\ res'[i].event = res[i].event /\ res'[i].va = res[i].va
          /\ \A b \in Actors \ {d} : act'[b] = act[b]
    /\ UNCHANGED <<ring, used, free, nextRes, nextFence>>

\* MapBlobResourceCallback.
LEMMA EffectMapBlobResourceCallback ==
    ASSUME IInv, NEW d \in Dpcs, MapBlobResourceCallback(d)
    PROVE  \E i \in Ids : Calls(d, i)
<1>1. d \in Actors /\ TypeOK /\ act[d].pc = "callback" /\ act[d].cmd.ids \subseteq Ids /\ d \notin Threads
      /\ UNCHANGED <<ring, used, free, nextRes, nextFence>>
  BY DpcIsActor, ActorTyped DEF IInv, MapBlobResourceCallback
<1>2. PICK i \in act[d].cmd.ids :
          \/ /\ res' = [res EXCEPT ![i].va = TRUE, ![i].event = TRUE]
             /\ act' = Released([act EXCEPT ![d] = Idle], i)
          \/ "mapio" \in Faults /\ To(d, Idle) /\ UNCHANGED res
  BY DEF MapBlobResourceCallback
<1>3. CASE "mapio" \in Faults /\ To(d, Idle) /\ UNCHANGED res
  <2>1. ActStep(d, Idle) /\ Wakes(d, i) /\ \A b \in Actors \ {d} : act'[b] = act[b]
    BY <1>1, <1>3, IdleOK, StepTo, WakesNobody
  <2> QED BY <1>1, <1>3, <2>1 DEF Calls
<1>4. CASE /\ res' = [res EXCEPT ![i].va = TRUE, ![i].event = TRUE]
           /\ act' = Released([act EXCEPT ![d] = Idle], i)
  <2> DEFINE A == [act EXCEPT ![d] = Idle]
  <2>1. A \in [Actors -> Activity] /\ \A b \in Actors : A[b] = IF b = d THEN Idle ELSE act[b]
    BY <1>1, IdleOK DEF TypeOK
  <2>2. act' = Released(A, i)
    BY <1>4
  <2>3. i \in Ids /\ res \in [Ids -> Resource] /\ \A j \in Ids : res[j] \in Resource
    BY <1>1 DEF TypeOK
  <2>4. /\ \A j \in Ids : /\ res'[j].st = res[j].st /\ res'[j].kind = res[j].kind
                          /\ res'[j].blk = res[j].blk /\ res'[j].FenceId = res[j].FenceId
                          /\ j # i => res'[j].event = res[j].event /\ res'[j].va = res[j].va
        /\ res'[i].event /\ res'[i].va
    BY <1>4, <2>3 DEF Resource
  <2> HIDE DEF A
  <2>5. \A b \in Actors : Woken(A[b], act'[b])
    BY <2>2 DEF Released, Woken
  <2>6. act' \in [Actors -> Activity]
    <3>1. \A b \in Actors : act'[b] \in Activity
      BY <2>1, <2>5, WokenType
    <3>2. act' = [b \in Actors |-> act'[b]]
      BY <2>2 DEF Released
    <3> QED BY <3>1, <3>2
  <2>7. ActStep(d, Idle)
    BY <2>1, <2>5, <2>6 DEF ActStep
  <2>8. Wakes(d, i)
    <3>1. SUFFICES ASSUME NEW b \in Actors \ {d}, act'[b] # act[b]
                   PROVE  act[b].cur = i /\ Woken(act[b], act'[b])
      BY <1>1 DEF Wakes
    <3>2. A[b] = act[b]
      BY <2>1, <3>1
    <3> QED BY <2>2, <2>5, <3>1, <3>2 DEF Released
  <2> QED BY <1>1, <2>4, <2>7, <2>8 DEF Calls
<1> QED BY <1>2, <1>3, <1>4

\* What a step is.
Handles(t) ==
    \/ Pushes(t)
    \/ \E r : Aside(t, r) \/ Creates(t, r) \/ (\E b : Takes(t, r, b)) \/ \E i \in Ids : Transfers(t, r, i)
Completes(d) ==
    \/ FinishCommand(d)
    \/ \E r : Reads(d, r)
    \/ \E i \in Ids : Calls(d, i)
Effect ==
    \/ \E t \in Threads : Handles(t)
    \/ \E a \in Actors, i \in Ids : \E r : Updates(a, r, i)
    \/ \E d \in Dpcs : Completes(d)
    \/ HostComplete

\* Every step of the driver and of the host is one of these.
LEMMA Effects ==
    ASSUME IInv, NInv, Next
    PROVE  Effect
<1>1. ASSUME NEW t \in Threads, Start(t) PROVE Handles(t)
  <2>1. ASSUME NEW kind \in {"fence", "buffer"}, CtlCreateResource(t, kind) PROVE Handles(t)
    BY <2>1, EffectCtlCreateResource DEF Handles
  <2>2. ASSUME CtlCreateBlobResource(t) PROVE Handles(t)
    BY <2>2, EffectCtlCreateBlobResource DEF Handles
  <2>3. ASSUME NEW i \in Ids, CtlTransferHost(t, i) \/ CtlWait(t, i) \/ CtlMap(t, i) PROVE Handles(t)
    BY <2>3, EffectCtlTransferHost, EffectCtlWait, EffectCtlMap DEF Handles
  <2>4. ASSUME NEW ids \in SUBSET Known, NEW after \in 0..(nextFence - 1), CtlSubmitCommand(t, ids, after)
        PROVE  Handles(t)
    BY <2>4, EffectCtlSubmitCommand DEF Handles
  <2> QED BY <1>1, <2>1, <2>2, <2>3, <2>4 DEF Start
<1>2. ASSUME NEW a \in Actors, UpdateResourceState(a) PROVE Effect
  BY <1>2, EffectUpdate DEF Effect
<1>3. ASSUME NEW t \in Threads, Continue(t) PROVE UpdateResourceState(t) \/ Handles(t)
  BY <1>3, EffectMapBlobResource, EffectTransferHost3D, EffectWaitInFence, EffectTakeCommandBuffer,
     EffectSubmitCommand, EffectMapShare, EffectMapUser DEF Continue, Handles
<1>4. ASSUME NEW d \in Dpcs, Dpc(d) PROVE UpdateResourceState(d) \/ Completes(d)
  BY <1>4, EffectReadFromQueue, EffectMapBlobResourceCallback DEF Dpc, Completes
<1> QED BY <1>1, <1>2, <1>3, <1>4, ThreadIsActor, DpcIsActor DEF Next, Effect

-----------------------------------------------------------------------------
(* The load, the names and the numbers are kept.                             *)

\* The handlers name what is known, and hold no more than the bound.
LEMMA NamingHandles ==
    ASSUME IInv, IInv', NInv, NEW t \in Threads, Handles(t)
    PROVE  NInv'
<1>1. TypeOK /\ TypeOK' /\ t \in Actors /\ LoadOK /\ Numbered
  BY ThreadIsActor DEF IInv, NInv
<1>2. /\ Len(ring) \in Nat /\ Len(used) \in Nat /\ Len(ring') \in Nat /\ Len(used') \in Nat
      /\ nextRes \in Nat /\ nextFence \in Nat /\ nextFence # 0
      /\ \A i \in Ids : i \in Nat /\ res[i].FenceId \in Nat
  <2>1. \A i \in Ids : res[i].FenceId \in Fences
    BY <1>1 DEF TypeOK, Resource
  <2> QED BY <1>1, <2>1, ConstAssumption DEF TypeOK, Fences, Ids
<1>3. act[t] \in Activity /\ act[t].cmd \in Command /\ ActorOK(t, act[t]) /\ Doing(res, act[t])
  BY <1>1, ActorTyped DEF NInv
<1>4. ASSUME NEW r, Aside(t, r) PROVE NInv'
  <2>1. r \in Activity /\ ActorOK(t, r) /\ ActStep(t, r) /\ Doing(res, r)
    BY <1>1, <1>4, StepTo DEF Aside
  <2>2. Lasting(res, res')
    BY <1>4 DEF Aside, Alike, Lasting
  <2>3. Doing(res', r)
    BY <2>1, <2>2, NamesKept DEF ActorOK
  <2>4. LoadOK'
    BY <1>1, <1>2, <1>4, <2>1, LoadKept DEF Aside
  <2>5. Numbered'
    BY <1>1, <1>4 DEF Aside, Alike, Numbered
  <2>6. Queued' = Queued
    BY <1>4 DEF Aside, Queued
  <2> QED BY <1>1, <2>1, <2>2, <2>3, <2>4, <2>5, <2>6, NamingKept
<1>5. ASSUME Pushes(t) PROVE NInv'
  <2>1. ActStep(t, Idle) /\ Doing(res', Idle) /\ Idle.cmd = Other
    BY <1>1, <1>5, IdleOK, StepTo, NothingNamed DEF Pushes, Idle
  <2>2. Lasting(res, res')
    BY <1>5 DEF Pushes, Lasting
  <2>3. Queued' \subseteq Queued \cup {act[t].cmd} /\ Len(ring') <= Len(ring) + 1 /\ used' = used
    <3>1. CASE ring' = ring
      BY <1>2, <1>5, <3>1 DEF Pushes, Queued
    <3>2. CASE ring' = Append(ring, act[t].cmd)
      BY <1>1, <1>2, <1>3, <1>5, <3>2, QueuedPush DEF Pushes
    <3> QED BY <1>5, <3>1, <3>2 DEF Pushes
  <2>4. t \in Holders
    BY <1>1, <1>3, <1>5 DEF Holders, Pushes, ActorOK, Other
  <2>5. Len(ring') + Len(used') <= Len(ring) + Len(used) + 1
    BY <1>2, <2>3
  <2>6. LoadOK'
    BY <1>1, <2>1, <2>4, <2>5, LoadKept
  <2>7. Numbered'
    <3>1. \A i \in Ids : Maps(act[t].cmd, i) => res[i].st # "none"
      BY <1>3 DEF Maps, Doing, Names
    <3>2. \A i \in Ids : res'[i].st # "none" => res[i].st # "none"
      BY <1>5, <3>1 DEF Pushes
    <3>3. /\ \A i \in Ids : /\ res'[i].kind = res[i].kind /\ res'[i].va = res[i].va
                            /\ res'[i].FenceId = res[i].FenceId
          /\ UNCHANGED <<nextRes, nextFence>>
      BY <1>5 DEF Pushes
    <3> QED BY <1>1, <3>2, <3>3 DEF Numbered
  <2> QED BY <1>1, <2>1, <2>2, <2>3, <2>6, <2>7, IdleOK, NamingKept
<1>6. ASSUME NEW r, NEW i \in Ids, Transfers(t, r, i) PROVE NInv'
  <2>1. r \in Activity /\ ActorOK(t, r) /\ ActStep(t, r)
    BY <1>6 DEF Transfers
  <2>2. Lasting(res, res')
    BY <1>6 DEF Transfers, Lasting
  <2>3. Doing(res', r)
    BY <1>6 DEF Transfers, Doing, Names, Mapping
  <2>4. LoadOK'
    BY <1>1, <1>2, <1>6, <2>1, LoadKept DEF Transfers
  <2>5. Numbered'
    BY <1>1, <1>6 DEF Transfers, Numbered
  <2>6. Queued' = Queued
    BY <1>6 DEF Transfers, Queued
  <2> QED BY <1>1, <2>1, <2>2, <2>3, <2>4, <2>5, <2>6, NamingKept
<1>7. ASSUME NEW r, NEW b, Takes(t, r, b) PROVE NInv'
  <2>1. r \in Activity /\ ActorOK(t, r) /\ ActStep(t, r)
    BY <1>1, <1>7, StepTo DEF Takes
  <2>2. Lasting(res, res') /\ Doing(res', r)
    BY <1>7 DEF Takes, Lasting
  <2>3. t \in Holders
    BY <1>1, <1>3, <1>7 DEF Holders, Takes, ActorOK, Other
  <2>4. LoadOK'
    BY <1>1, <1>2, <1>7, <2>1, <2>3, LoadKept DEF Takes
  <2>5. Numbered'
    <3>1. nextFence' >= nextFence /\ nextFence' \in Nat
      BY <1>2, <1>7 DEF Takes
    <3> QED BY <1>1, <1>2, <1>7, <3>1 DEF Takes, Numbered
  <2>6. Queued' = Queued
    BY <1>7 DEF Takes, Queued
  <2> QED BY <1>1, <2>1, <2>2, <2>4, <2>5, <2>6, NamingKept
<1>8. ASSUME NEW r, Creates(t, r) PROVE NInv'
  <2>1. r \in Activity /\ ActorOK(t, r) /\ ActStep(t, r) /\ nextRes \in Ids
    BY <1>8 DEF Creates
  <2>2. Lasting(res, res')
    <3>1. res[nextRes].st = "none"
      BY <1>1, <1>2, <2>1 DEF Numbered
    <3> QED BY <1>8, <3>1 DEF Creates, Lasting
  <2>3. Doing(res', r)
    <3>1. CASE r = act[t]
      BY <1>3, <2>1, <2>2, <3>1, NamesKept DEF ActorOK
    <3>2. CASE /\ r.pc = "push" /\ r.cmd.type = "mapblob" /\ r.cmd.ids = {nextRes}
               /\ res'[nextRes].st = "listed"
      BY <2>1, <3>2 DEF Doing, Names, Mapping
    <3> QED BY <1>8, <3>1, <3>2 DEF Creates
  <2>4. /\ Queued' \subseteq Queued \cup {Other} /\ Len(ring') <= Len(ring) + 2
        /\ ring' \in {ring, Append(ring, Other)} => Len(ring') <= Len(ring) + 1
        /\ used' = used
    BY <1>1, <1>8, QueuedCreate DEF Creates
  <2>5. LoadOK'
    <3>1. InFlight < MaxInFlight
      BY <1>8 DEF Creates
    <3>2. CASE r = act[t]
      <4>1. r.cmd = Other
        BY <1>3, <1>8, <3>2 DEF Creates, ActorOK
      <4>2. Len(ring') + Len(used') <= Len(ring) + Len(used) + 2
        BY <1>2, <2>4
      <4> QED BY <1>1, <2>1, <3>1, <4>1, <4>2, LoadKept
    <3>3. CASE ring' \in {ring, Append(ring, Other)}
      <4>1. Len(ring') + Len(used') <= Len(ring) + Len(used) + 1
        BY <1>2, <2>4, <3>3
      <4> QED BY <1>1, <2>1, <3>1, <4>1, LoadKept
    <3> QED BY <1>8, <3>2, <3>3 DEF Creates
  <2>6. Numbered'
    <3>1. \A i \in Ids : i >= nextRes' => i # nextRes /\ i >= nextRes
      BY <1>2, <1>8 DEF Creates
    <3>2. (\A i \in Ids \ {nextRes} : res'[i] = res[i]) /\ nextFence' = nextFence
      BY <1>8 DEF Creates
    <3> DEFINE x == res'[nextRes]
    <3>3. x = res[nextRes] \/ (x.FenceId = 0 /\ (x.kind = "buffer" => x.va))
      BY <1>8 DEF Creates
    <3> HIDE DEF x
    <3>4. x.FenceId < nextFence /\ (x.st # "none" /\ x.kind = "buffer" => x.va)
      BY <1>1, <1>2, <2>1, <3>3 DEF Numbered
    <3>5. \A i \in Ids : /\ res'[i].st # "none" /\ res'[i].kind = "buffer" => res'[i].va
                         /\ res'[i].FenceId < nextFence'
      BY <1>1, <3>2, <3>4 DEF Numbered, x
    <3>6. \A i \in Ids : i >= nextRes' => res'[i].st = "none"
      BY <1>1, <3>1, <3>2 DEF Numbered
    <3> QED BY <3>5, <3>6 DEF Numbered
  <2> QED BY <1>1, <2>1, <2>2, <2>3, <2>4, <2>5, <2>6, NamingKept
<1> QED BY <1>4, <1>5, <1>6, <1>7, <1>8 DEF Handles

\* UpdateResourceState keeps what is named.
LEMMA NamingUpdates ==
    ASSUME IInv, IInv', NInv, NEW a \in Actors, NEW i \in Ids, NEW r, Updates(a, r, i)
    PROVE  NInv'
<1>1. TypeOK /\ TypeOK' /\ LoadOK /\ Numbered /\ Commands
  BY DEF IInv, NInv
<1>2. /\ Len(ring) \in Nat /\ Len(used) \in Nat /\ nextFence \in Nat /\ nextFence # 0
      /\ act[a].cmd.fence \in Nat
  BY <1>1, ActorTyped, ConstAssumption DEF TypeOK, Fences
<1>3. r \in Activity /\ ActorOK(a, r) /\ ActStep(a, r) /\ Doing(res, r)
  BY DEF Updates
<1>4. Lasting(res, res')
  BY DEF Updates, Lasting
<1>5. Doing(res', r)
  BY <1>3, <1>4, NamesKept DEF ActorOK
<1>6. LoadOK'
  <2>1. a \in Holders \/ r.cmd = Other
    BY DEF Updates, Holders
  <2>2. UNCHANGED <<ring, used>>
    BY DEF Updates
  <2> QED BY <1>1, <1>2, <1>3, <2>1, <2>2, LoadKept
<1>7. Numbered'
  <2>1. act[a].cmd.fence < nextFence
    <3>1. <<"act", a>> \in Places /\ At(<<"act", a>>) = act[a].cmd
      BY AtPlaces
    <3> QED BY <1>1, <1>2, <3>1 DEF Commands, FencesFresh
  <2> QED BY <1>1, <2>1 DEF Updates, Numbered
<1>8. Queued' = Queued
  BY DEF Updates, Queued
<1> QED BY <1>3, <1>4, <1>5, <1>6, <1>7, <1>8, NamingKept

\* So does the DPC.
LEMMA NamingCompletes ==
    ASSUME IInv, IInv', NInv, NEW d \in Dpcs, Completes(d)
    PROVE  NInv'
<1>1. TypeOK /\ TypeOK' /\ d \in Actors /\ LoadOK /\ Numbered
  BY DpcIsActor DEF IInv, NInv
<1>2. Len(ring) \in Nat /\ Len(used) \in Nat /\ Len(ring') \in Nat /\ Len(used') \in Nat
  BY <1>1 DEF TypeOK
<1>3. act[d].cmd \in Command /\ ActorOK(d, act[d])
  BY <1>1, ActorTyped
<1>4. ASSUME ActStep(d, Idle), Lasting(res, res'), Numbered', UNCHANGED <<ring, used>> PROVE NInv'
  <2>1. Idle.cmd = Other
    BY DEF Idle
  <2>2. LoadOK'
    BY <1>1, <1>2, <1>4, <2>1, LoadKept
  <2>3. Queued' = Queued
    BY <1>4 DEF Queued
  <2> QED BY <1>1, <1>4, <2>2, <2>3, IdleOK, NothingNamed, NamingKept
<1>5. ASSUME FinishCommand(d) PROVE NInv'
  <2>1. ActStep(d, Idle) /\ UNCHANGED <<res, ring, used, nextRes, nextFence>>
    BY <1>1, <1>5, IdleOK, StepTo DEF FinishCommand
  <2>2. Lasting(res, res') /\ Numbered'
    BY <1>1, <2>1 DEF Lasting, Numbered
  <2> QED BY <1>4, <2>1, <2>2
<1>6. ASSUME NEW i \in Ids, Calls(d, i) PROVE NInv'
  <2>1. Lasting(res, res') /\ Numbered'
    BY <1>1, <1>6 DEF Calls, Lasting, Numbered
  <2> QED BY <1>4, <1>6, <2>1 DEF Calls
<1>7. ASSUME NEW r, Reads(d, r) PROVE NInv'
  <2>1. r \in Activity /\ ActorOK(d, r) /\ ActStep(d, r) /\ UNCHANGED <<res, ring, nextRes, nextFence>>
    BY <1>1, <1>7, StepTo DEF Reads
  <2>2. Queued = Queued' \cup {Head(used)} /\ Len(used') = Len(used) - 1
    BY <1>1, <1>7, QueuedRead DEF Reads
  <2>3. Lasting(res, res') /\ Numbered'
    BY <1>1, <2>1 DEF Lasting, Numbered
  <2>4. Doing(res', r)
    <3>1. Names(res, Head(used))
      BY <2>2 DEF NInv
    <3> QED BY <1>7, <2>1, <3>1, NothingNamed DEF Reads, Doing, Mapping
  <2>5. LoadOK'
    <3>1. d \notin Holders
      BY <1>3, <1>7 DEF Reads, Holders, ActorOK
    <3>2. Cardinality(Holders') <= Cardinality(Holders) + 1
      BY <1>1, <2>1, HoldersAfter
    <3>3. MaxInFlight \in Nat
      BY ConstAssumption
    <3> QED BY <1>1, <1>2, <2>1, <2>2, <3>2, <3>3, HoldersFinite DEF LoadOK
  <2> QED BY <1>1, <2>1, <2>2, <2>3, <2>4, <2>5, NamingKept
<1> QED BY <1>5, <1>6, <1>7 DEF Completes

\* So does the host, which only moves commands.
LEMMA NamingHost ==
    ASSUME IInv, NInv, HostComplete
    PROVE  NInv'
<1>1. TypeOK /\ UNCHANGED <<res, act, nextRes, nextFence>>
  BY DEF IInv, HostComplete
<1>2. Queued' = Queued /\ Len(ring') + Len(used') = Len(ring) + Len(used)
  BY <1>1, QueuedHost
<1>3. LoadOK'
  BY <1>1, <1>2 DEF NInv, LoadOK, InFlight
<1> QED BY <1>1, <1>2, <1>3 DEF NInv, Numbered

\* A step, or none, keeps them.
LEMMA NamingInductive == IInv /\ NInv /\ [Next]_vars => NInv'
<1> SUFFICES ASSUME IInv, NInv, [Next]_vars PROVE NInv'
  OBVIOUS
<1>1. IInv'
  BY Inductive
<1>2. CASE Next
  <2>1. Effect
    BY <1>2, Effects
  <2> QED BY <1>1, <2>1, NamingHandles, NamingUpdates, NamingCompletes, NamingHost DEF Effect
<1>3. CASE UNCHANGED vars
  <2>1. UNCHANGED <<res, act, ring, used, nextRes, nextFence>>
    BY <1>3 DEF vars
  <2>2. Queued' = Queued /\ LoadOK'
    BY <2>1 DEF NInv, Queued, LoadOK, InFlight
  <2> QED BY <2>1, <2>2 DEF NInv, Numbered
<1> QED BY <1>2, <1>3

\* They hold when the device is prepared.
LEMMA NamingInitially == Init => NInv
<1> SUFFICES ASSUME Init PROVE NInv
  OBVIOUS
<1>1. ring = <<>> /\ used = <<>> /\ Len(ring) = 0 /\ Len(used) = 0
  BY DEF Init
<1>2. Queued = {}
  BY <1>1 DEF Queued
<1>3. \A a \in Actors : act[a] = Idle /\ Idle.cmd = Other
  BY DEF Init, Idle
<1>4. Holders = {}
  BY <1>3 DEF Holders
<1>5. LoadOK
  <2>1. Cardinality(Holders) = 0
    BY <1>4, FS_EmptySet
  <2> QED BY <1>1, <2>1, HoldersFinite, ConstAssumption DEF LoadOK
<1>6. Numbered
  BY DEF Numbered, Init, NoResource
<1> QED BY <1>2, <1>3, <1>5, <1>6, NothingNamed DEF NInv

\* Commands name what is there, and the load is bounded.
LEMMA Naming == Spec => [](IInv /\ NInv)
<1>1. Init => IInv /\ NInv
  BY Initially, NamingInitially
<1>2. (IInv /\ NInv) /\ [Next]_vars => (IInv /\ NInv)'
  BY Inductive, NamingInductive
<1> QED BY <1>1, <1>2, PTL DEF Spec

-----------------------------------------------------------------------------
(* Every block has an owner.                                                 *)

\* Block b stays with its owner, unless that is free, actor a or the queue.
LEMMA OwnedKept ==
    ASSUME IInv, NEW a \in Actors, NEW r, ActStep(a, r), NEW b \in Blocks, Owned(b),
           b \in free => Owned(b)',
           \A i \in Ids : res[i].blk = b => res'[i].blk = b,
           act[a].cmd.blk = b => Owned(b)',
           \A c \in Queued : c.blk = b => Owned(b)'
    PROVE  Owned(b)'
<1>1. b # NoBlock
  BY ConstAssumption DEF NoBlock
<1>2. ASSUME NEW c \in Actors \ {a}, act[c].cmd.blk = b PROVE act'[c].cmd.blk = b
  <2>1. act[c].pc \in {"update", "write", "event"}
    BY <1>1, <1>2, Unburdened
  <2>2. Woken(act[c], act'[c])
    BY DEF ActStep
  <2> QED BY <1>2, <2>1, <2>2 DEF Woken
<1> QED BY <1>2 DEF Owned

\* Owners, seen after a step.
LEMMA OwnedBy ==
    ASSUME NEW b
    PROVE  /\ b \in free' => Owned(b)'
           /\ \A i \in Ids : res'[i].blk = b => Owned(b)'
           /\ \A a \in Actors : act'[a].cmd.blk = b => Owned(b)'
           /\ \A c \in Queued' : c.blk = b => Owned(b)'
  BY DEF Owned

\* The handlers lose no block.
LEMMA OwnedHandles ==
    ASSUME {"probe", "pool"} \cap Faults = {}, RingSize > MaxInFlight,
           IInv, IInv', NInv, LInv, NEW t \in Threads, Handles(t)
    PROVE  LInv'
<1> SUFFICES ASSUME NEW b \in Blocks PROVE Owned(b)'
  BY DEF LInv
<1>1. TypeOK /\ t \in Actors /\ Owned(b) /\ b # NoBlock /\ LoadOK
  BY ThreadIsActor, ConstAssumption DEF IInv, NInv, LInv, NoBlock
<1>2. ASSUME NEW r, Aside(t, r) PROVE Owned(b)'
  <2>1. ActStep(t, r) /\ act[t].cmd.blk # b
    BY <1>1, <1>2, StepTo DEF Aside
  <2>2. Queued' = Queued /\ free' = free /\ \A i \in Ids : res'[i].blk = res[i].blk
    BY <1>2 DEF Aside, Alike, Queued
  <2> QED BY <1>1, <2>1, <2>2, OwnedKept, OwnedBy
<1>3. ASSUME Pushes(t) PROVE Owned(b)'
  <2>1. ActStep(t, Idle)
    BY <1>1, <1>3, IdleOK, StepTo DEF Pushes
  <2>2. Room > 0
    BY <1>1, <1>3, RoomToPush DEF Pushes
  <2>3. ring' = Append(ring, act[t].cmd) /\ UNCHANGED <<used, free>> /\ \A i \in Ids : res'[i].blk = res[i].blk
    BY <1>3, <2>2 DEF Pushes
  <2>4. Queued' = Queued \cup {act[t].cmd}
    BY <1>1, <2>3, ActorTyped, QueuedPush
  <2> QED BY <1>1, <2>1, <2>3, <2>4, OwnedKept, OwnedBy
<1>4. ASSUME NEW r, NEW i \in Ids, Transfers(t, r, i) PROVE Owned(b)'
  <2>1. ActStep(t, r) /\ act[t].cmd.blk # b
    BY <1>1, <1>4, Unburdened DEF Transfers
  <2>2. Queued' = Queued /\ free' = free /\ \A j \in Ids : res'[j].blk = res[j].blk
    BY <1>4 DEF Transfers, Queued
  <2> QED BY <1>1, <2>1, <2>2, OwnedKept, OwnedBy
<1>5. ASSUME NEW r, NEW taken, Takes(t, r, taken) PROVE Owned(b)'
  <2>1. ActStep(t, r) /\ act[t].cmd.blk # b
    BY <1>1, <1>5, StepTo, Unburdened DEF Takes
  <2>2. Queued' = Queued /\ free' = free \ {taken} /\ res' = res
    BY <1>5 DEF Takes, Queued
  <2>3. act'[t].cmd.blk = taken
    <3>1. act'[t] = r
      BY <1>1, <1>5, WakesNobody DEF Takes
    <3> QED BY <1>5, <3>1 DEF Takes
  <2> QED BY <1>1, <2>1, <2>2, <2>3, OwnedKept, OwnedBy
<1>6. ASSUME NEW r, Creates(t, r) PROVE Owned(b)'
  <2>1. ActStep(t, r) /\ act[t].cmd.blk # b /\ nextRes \in Ids
    BY <1>1, <1>6, Unburdened DEF Creates
  <2>2. Queued \subseteq Queued'
    BY <1>1, <1>6, QueuedCreate DEF Creates
  <2>3. res[nextRes].blk = NoBlock
    <3>1. nextRes \in Nat
      BY <1>1 DEF TypeOK
    <3> QED BY <2>1, <3>1 DEF IInv, ResourcesOK
  <2>4. free' = free \/ free' = free \ {res'[nextRes].blk}
    BY <1>6 DEF Creates
  <2>5. \A i \in Ids \ {nextRes} : res'[i] = res[i]
    BY <1>6 DEF Creates
  <2> QED BY <1>1, <2>1, <2>2, <2>3, <2>4, <2>5, OwnedKept, OwnedBy
<1> QED BY <1>2, <1>3, <1>4, <1>5, <1>6 DEF Handles

\* Nor do UpdateResourceState, the DPC and the host.
LEMMA OwnedOthers ==
    ASSUME IInv, NInv, LInv,
           \/ \E a \in Actors, i \in Ids : \E r : Updates(a, r, i)
           \/ \E d \in Dpcs : Completes(d)
           \/ HostComplete
    PROVE  LInv'
<1> SUFFICES ASSUME NEW b \in Blocks PROVE Owned(b)'
  BY DEF LInv
<1>1. TypeOK /\ Owned(b) /\ b # NoBlock
  BY ConstAssumption DEF IInv, LInv, NoBlock
<1>2. ASSUME NEW a \in Actors, NEW i \in Ids, NEW r, Updates(a, r, i) PROVE Owned(b)'
  <2>1. ActStep(a, r) /\ r.cmd = act[a].cmd /\ r.pc \in Updating
    BY <1>2 DEF Updates
  <2>2. Queued' = Queued /\ free' = free /\ \A j \in Ids : res'[j].blk = res[j].blk
    BY <1>2 DEF Updates, Queued
  <2>3. act'[a] = r
    BY <2>1 DEF ActStep, Woken, Updating
  <2> QED BY <1>1, <2>1, <2>2, <2>3, OwnedKept, OwnedBy
<1>3. ASSUME NEW d \in Dpcs, FinishCommand(d) PROVE Owned(b)'
  <2>1. d \in Actors /\ ActStep(d, Idle)
    BY <1>1, <1>3, DpcIsActor, IdleOK, StepTo DEF FinishCommand
  <2>2. Queued' = Queued /\ free' = free \cup ({act[d].cmd.blk} \ {NoBlock}) /\ res' = res
    BY <1>3 DEF FinishCommand, Queued
  <2> QED BY <1>1, <2>1, <2>2, OwnedKept, OwnedBy
<1>4. ASSUME NEW d \in Dpcs, NEW r, Reads(d, r) PROVE Owned(b)'
  <2>1. d \in Actors /\ ActStep(d, r) /\ act'[d] = r
    BY <1>1, <1>4, DpcIsActor, StepTo, WakesNobody DEF Reads
  <2>2. Queued = Queued' \cup {Head(used)} /\ free' = free /\ res' = res
    BY <1>1, <1>4, QueuedRead DEF Reads
  <2>3. Head(used).blk = b => act'[d].cmd.blk = b
    BY <1>1, <1>4, <2>1 DEF Reads, Other
  <2>4. act[d].cmd.blk # b
    BY <1>1, <1>4, <2>1, Unburdened DEF Reads
  <2> QED BY <1>1, <2>1, <2>2, <2>3, <2>4, OwnedKept, OwnedBy
<1>5. ASSUME NEW d \in Dpcs, NEW i \in Ids, Calls(d, i) PROVE Owned(b)'
  <2>1. d \in Actors /\ ActStep(d, Idle) /\ act[d].cmd.blk # b
    BY <1>1, <1>5, DpcIsActor, Unburdened DEF Calls
  <2>2. Queued' = Queued /\ free' = free /\ \A j \in Ids : res'[j].blk = res[j].blk
    BY <1>5 DEF Calls, Queued
  <2> QED BY <1>1, <2>1, <2>2, OwnedKept, OwnedBy
<1>6. ASSUME HostComplete PROVE Owned(b)'
  <2>1. Queued' = Queued /\ UNCHANGED <<res, act, free>>
    BY <1>1, <1>6, QueuedHost DEF HostComplete
  <2> QED BY <1>1, <2>1 DEF Owned
<1> QED BY <1>2, <1>3, <1>4, <1>5, <1>6 DEF Completes

\* A block is at no place only if a call failed or the queue was full.
LEMMA OwnedInductive ==
    ASSUME {"probe", "pool"} \cap Faults = {}, RingSize > MaxInFlight
    PROVE  (IInv /\ NInv /\ LInv) /\ [Next]_vars => LInv'
<1> SUFFICES ASSUME IInv, NInv, LInv, [Next]_vars PROVE LInv'
  OBVIOUS
<1>1. IInv'
  BY Inductive
<1>2. CASE Next
  <2>1. Effect
    BY <1>2, Effects
  <2> QED BY <1>1, <2>1, OwnedHandles, OwnedOthers DEF Effect
<1>3. CASE UNCHANGED vars
  BY <1>3 DEF vars, LInv, Owned, Queued
<1> QED BY <1>2, <1>3

\* If neither the probe of the handles nor the copy of them fails and the ring has a slot for
\* every command in flight, each block of VgpuMemory is free, a resource's or a command's: no
\* path of CtlSubmitCommand (control.c:928-980), of the DPC (vgpu.c:94) or of the creation of
\* resources loses one.
THEOREM NoBlockLeakedHolds ==
    ASSUME {"probe", "pool"} \cap Faults = {}, RingSize > MaxInFlight
    PROVE  Spec => []NoBlockLeaked
<1>1. Init => LInv
  BY DEF Init, LInv, Owned
<1>2. LInv => NoBlockLeaked
  <2>1. SUFFICES ASSUME LInv, NEW b \in Blocks
                 PROVE  b \in free \/ (\E i \in Ids : res[i].blk = b) \/ \E p \in Places : At(p).blk = b
    BY DEF NoBlockLeaked
  <2>2. Owned(b)
    BY <2>1 DEF LInv
  <2>3. ASSUME NEW c \in Queued PROVE \E p \in Places : At(p) = c
    BY <2>3, AtPlaces DEF Queued
  <2> QED BY <2>2, <2>3, AtPlaces DEF Owned
<1>3. LInv /\ (IInv /\ NInv) /\ [Next]_vars => LInv'
  BY OwnedInductive
<1> QED BY <1>1, <1>2, <1>3, Naming, PTL DEF Spec

-----------------------------------------------------------------------------
(* A busy resource has somebody who will make it idle.                        *)

\* Who sets the event of i still does, unless that is actor a or the queue.
LEMMA SetLaterKept ==
    ASSUME NEW a \in Actors, NEW r, ActStep(a, r), NEW i \in Ids, SetLater(i),
           res'[i].FenceId = res[i].FenceId,
           WillSet(res, a, act[a], i) => SetLater(i)',
           \A c \in Queued : i \in c.ids /\ (c.fence = 0 \/ c.fence >= res[i].FenceId) => SetLater(i)'
    PROVE  SetLater(i)'
<1>1. ASSUME NEW b \in Actors \ {a}, WillSet(res, b, act[b], i)
      PROVE  WillSet(res', b, act'[b], i)
  <2>1. act[b].pc \in Working
    BY <1>1 DEF WillSet, Working
  <2>2. Woken(act[b], act'[b])
    BY DEF ActStep
  <2>3. act'[b] = act[b]
    BY <2>1, <2>2 DEF Woken, Working
  <2> QED BY <1>1, <2>3 DEF WillSet
<1> QED BY <1>1 DEF SetLater

\* Who sets the event, seen after a step.
LEMMA SetLaterBy ==
    ASSUME NEW i
    PROVE  /\ \A a \in Actors : WillSet(res', a, act'[a], i) => SetLater(i)'
           /\ \A c \in Queued' : i \in c.ids /\ (c.fence = 0 \/ c.fence >= res'[i].FenceId) => SetLater(i)'
  BY DEF SetLater

\* A step that gives no thread a fence leaves each with the newest.
LEMMA NewestKept ==
    ASSUME NewestFence, NEW a \in Actors, NEW r, ActStep(a, r), nextFence' = nextFence,
           a \in Threads => r.cmd.fence \in {0, act[a].cmd.fence}
    PROVE  NewestFence'
<1>1. ASSUME NEW x, NEW y, Woken(x, y) PROVE y.cmd.fence \in {0, x.cmd.fence}
  <2>1. CASE x.pc = "mapwait" /\ y = [x EXCEPT !.pc = "mapshare"]
    BY <2>1
  <2> QED BY <1>1, <2>1 DEF Woken, Idle, Other
<1>2. ASSUME NEW t \in Threads PROVE act'[t].cmd.fence \in {0, act[t].cmd.fence}
  <2>1. t \in Actors
    BY ThreadIsActor
  <2>2. CASE t = a
    <3>1. Woken(r, act'[t])
      BY <2>1, <2>2 DEF ActStep
    <3> QED BY <1>1, <2>2, <3>1
  <2>3. CASE t # a
    <3>1. Woken(act[t], act'[t])
      BY <2>1, <2>3 DEF ActStep
    <3> QED BY <1>1, <3>1
  <2> QED BY <2>2, <2>3
<1> QED BY <1>2 DEF NewestFence

\* Threads are not DPCs, and a thread that does not work on a command sets nothing.
LEMMA IdleSetsNothing ==
    ASSUME NEW t \in Threads, act[t].pc \notin Working
    PROVE  \A i : ~WillSet(res, t, act[t], i)
  BY ConstAssumption DEF WillSet

\* The handlers make a resource busy only with a command to push, and push it.
LEMMA BusyHandles ==
    ASSUME {"pool", "mapio"} \cap Faults = {}, RingSize > MaxInFlight, \A s, u \in FencedThreads : s = u,
           IInv, IInv', NInv, BInv, NEW t \in Threads, Handles(t)
    PROVE  BInv'
<1>1. TypeOK /\ t \in Actors /\ t \notin Dpcs /\ LoadOK /\ NewestFence
  BY ThreadIsActor, ConstAssumption DEF IInv, NInv, BInv
<1>2. ASSUME NEW r, Aside(t, r) PROVE BInv'
  <2>1. ActStep(t, r)
    BY <1>1, <1>2, StepTo DEF Aside
  <2>2. NewestFence'
    BY <1>1, <1>2, <2>1, NewestKept DEF Aside
  <2>3. Queued' = Queued /\ Alike(res, res')
    BY <1>2 DEF Aside, Queued
  <2>4. ASSUME NEW i \in Ids, res'[i].st # "none", ~res'[i].event PROVE SetLater(i)'
    <3>1. SetLater(i) /\ res'[i].FenceId = res[i].FenceId
      BY <2>3, <2>4 DEF BInv, Alike
    <3>2. ~WillSet(res, t, act[t], i)
      BY <1>2, IdleSetsNothing DEF Aside
    <3> QED BY <1>1, <2>1, <2>3, <3>1, <3>2, SetLaterKept, SetLaterBy
  <2> QED BY <2>2, <2>4 DEF BInv
<1>3. ASSUME Pushes(t) PROVE BInv'
  <2>1. ActStep(t, Idle) /\ Idle.cmd.fence = 0
    BY <1>1, <1>3, IdleOK, StepTo DEF Pushes, Idle, Other
  <2>2. NewestFence'
    BY <1>1, <1>3, <2>1, NewestKept DEF Pushes
  <2>3. Room > 0
    BY <1>1, <1>3, RoomToPush DEF Pushes
  <2>4. ring' = Append(ring, act[t].cmd) /\ used' = used
    BY <1>3, <2>3 DEF Pushes
  <2>5. Queued' = Queued \cup {act[t].cmd}
    BY <1>1, <2>4, ActorTyped, QueuedPush
  <2>6. ASSUME NEW i \in Ids, res'[i].st # "none", ~res'[i].event PROVE SetLater(i)'
    <3>1. res'[i].event = res[i].event /\ res'[i].FenceId = res[i].FenceId
      BY <1>3 DEF Pushes
    <3>2. res[i].st # "none"
      <4>1. Names(res, act[t].cmd)
        BY <1>1 DEF NInv, Doing
      <4> QED BY <1>3, <2>6, <4>1 DEF Pushes, Maps, Names
    <3>3. SetLater(i)
      BY <2>6, <3>1, <3>2 DEF BInv
    <3>4. act[t].cmd.fence = 0 \/ act[t].cmd.fence >= res[i].FenceId
      <4>1. act[t].cmd.fence # 0 => act[t].cmd.fence = nextFence - 1
        BY <1>1 DEF NewestFence
      <4>2. res[i].FenceId < nextFence /\ nextFence \in Nat /\ res[i].FenceId \in Nat
        <5>1. res[i].FenceId \in Fences
          BY <1>1 DEF TypeOK, Resource
        <5> QED BY <1>1, <5>1, ConstAssumption DEF NInv, Numbered, TypeOK, Fences
      <4> QED BY <4>1, <4>2
    <3>5. WillSet(res, t, act[t], i) => i \in act[t].cmd.ids
      BY <1>1 DEF WillSet
    <3> QED BY <1>1, <2>1, <2>5, <3>1, <3>3, <3>4, <3>5, SetLaterKept, SetLaterBy
  <2> QED BY <2>2, <2>6 DEF BInv
<1>4. ASSUME NEW r, NEW i \in Ids, Transfers(t, r, i) PROVE BInv'
  <2>1. ActStep(t, r) /\ r.pc = "push" /\ r.cmd.ids = {i} /\ r.cmd.fence = 0
    BY <1>4 DEF Transfers
  <2>2. NewestFence'
    BY <1>1, <1>4, <2>1, NewestKept DEF Transfers
  <2>3. Queued' = Queued
    BY <1>4 DEF Transfers, Queued
  <2>4. act'[t] = r
    BY <1>1, <2>1 DEF ActStep, Woken
  <2>5. ASSUME NEW j \in Ids, res'[j].st # "none", ~res'[j].event PROVE SetLater(j)'
    <3>1. CASE j = i
      <4>1. WillSet(res', t, act'[t], j)
        BY <2>1, <2>4, <3>1 DEF WillSet, Working
      <4> QED BY <1>1, <4>1, SetLaterBy
    <3>2. CASE j # i
      <4>1. SetLater(j) /\ res'[j].FenceId = res[j].FenceId
        BY <1>4, <2>5, <3>2 DEF BInv, Transfers
      <4>2. ~WillSet(res, t, act[t], j)
        BY <1>4, IdleSetsNothing DEF Transfers, Working
      <4> QED BY <1>1, <2>1, <2>3, <4>1, <4>2, SetLaterKept, SetLaterBy
    <3> QED BY <3>1, <3>2
  <2> QED BY <2>2, <2>5 DEF BInv
<1>5. ASSUME NEW r, NEW b, Takes(t, r, b) PROVE BInv'
  <2>1. ActStep(t, r) /\ act'[t] = r /\ \A a \in Actors \ {t} : act'[a] = act[a]
    BY <1>1, <1>5, StepTo, WakesNobody DEF Takes
  <2>2. NewestFence'
    <3>1. SUFFICES ASSUME NEW u \in Threads, act'[u].cmd.fence # 0
                   PROVE  u \in FencedThreads /\ act'[u].cmd.fence = nextFence' - 1
      BY DEF NewestFence
    <3>2. nextFence \in Nat /\ nextFence # 0 /\ u \in Actors
      BY <1>1, ThreadIsActor DEF TypeOK
    <3>3. CASE u = t
      <4>1. r # Idle
        BY <2>1, <3>1, <3>3 DEF Idle, Other
      <4>2. r.cmd.fence = nextFence /\ nextFence' = nextFence + 1 /\ t \in FencedThreads
        BY <1>5, <2>1, <3>1, <3>3, <4>1 DEF Takes
      <4> QED BY <2>1, <3>2, <3>3, <4>2
    <3>4. CASE u # t
      <4>1. act'[u] = act[u]
        BY <2>1, <3>2, <3>4
      <4>2. u \in FencedThreads /\ act[u].cmd.fence = nextFence - 1
        BY <1>1, <3>1, <4>1 DEF NewestFence
      <4>3. nextFence' = nextFence
        BY <1>5, <3>4, <4>2 DEF Takes
      <4> QED BY <4>1, <4>2, <4>3
    <3> QED BY <3>3, <3>4
  <2>3. Queued' = Queued /\ res' = res
    BY <1>5 DEF Takes, Queued
  <2>4. ASSUME NEW i \in Ids, res'[i].st # "none", ~res'[i].event PROVE SetLater(i)'
    <3>1. SetLater(i)
      BY <2>3, <2>4 DEF BInv
    <3>2. ~WillSet(res, t, act[t], i)
      BY <1>5, IdleSetsNothing DEF Takes, Working
    <3> QED BY <1>1, <2>1, <2>3, <3>1, <3>2, SetLaterKept, SetLaterBy
  <2> QED BY <2>2, <2>4 DEF BInv
<1>6. ASSUME NEW r, Creates(t, r) PROVE BInv'
  <2>1. ActStep(t, r) /\ act'[t] = r /\ nextRes \in Ids
    BY <1>6 DEF Creates
  <2>2. NewestFence'
    BY <1>1, <1>6, <2>1, NewestKept DEF Creates
  <2>3. Queued \subseteq Queued'
    BY <1>1, <1>6, QueuedCreate DEF Creates
  <2>4. ASSUME NEW i \in Ids, res'[i].st # "none", ~res'[i].event PROVE SetLater(i)'
    <3>1. CASE i = nextRes
      <4>1. res[nextRes].st = "none"
        <5>1. nextRes \in Nat
          BY <1>1 DEF TypeOK
        <5> QED BY <2>1, <5>1 DEF NInv, Numbered
      <4>2. r.pc = "push" /\ r.cmd.ids = {nextRes}
        BY <1>6, <2>4, <3>1, <4>1 DEF Creates
      <4>3. WillSet(res', t, act'[t], i)
        BY <2>1, <3>1, <4>2 DEF WillSet, Working
      <4> QED BY <1>1, <4>3, SetLaterBy
    <3>2. CASE i # nextRes
      <4>1. res'[i] = res[i]
        BY <1>6, <3>2 DEF Creates
      <4>2. SetLater(i)
        BY <2>4, <4>1 DEF BInv
      <4>3. ~WillSet(res, t, act[t], i)
        BY <1>6, IdleSetsNothing DEF Creates, Working
      <4> QED BY <1>1, <2>1, <2>3, <4>1, <4>2, <4>3, SetLaterKept, SetLaterBy
    <3> QED BY <3>1, <3>2
  <2> QED BY <2>2, <2>4 DEF BInv
<1> QED BY <1>2, <1>3, <1>4, <1>5, <1>6 DEF Handles

\* UpdateResourceState keeps the setters: a thread that clears an event will push the command,
\* a DPC that passes over a resource was not to set it.
LEMMA BusyUpdates ==
    ASSUME IInv, BInv, NEW a \in Actors, NEW i \in Ids, NEW r, Updates(a, r, i)
    PROVE  BInv'
<1>1. NewestFence /\ (a \in Threads \/ a \in Dpcs) /\ ~(a \in Threads /\ a \in Dpcs)
  BY ConstAssumption DEF BInv, Actors
<1>2. /\ act[a].pc \in Updating /\ r.pc \in Updating /\ r.cmd = act[a].cmd /\ i \in act[a].cmd.ids
      /\ ActStep(a, r) /\ act[a].todo \ {i} \subseteq r.todo /\ (act[a].pc # "update" => act[a].cur = i)
      /\ nextFence' = nextFence
  BY DEF Updates
<1>3. act'[a] = r
  BY <1>2 DEF ActStep, Woken, Updating
<1>4. NewestFence'
  BY <1>1, <1>2, NewestKept
<1>5. Queued' = Queued
  BY DEF Updates, Queued
<1>6. ASSUME NEW j \in Ids, res'[j].st # "none", ~res'[j].event PROVE SetLater(j)'
  <2>1. CASE a \in Threads /\ j = i
    <3>1. WillSet(res', a, act'[a], j)
      BY <1>2, <1>3, <2>1 DEF WillSet, Working, Updating
    <3> QED BY <3>1, SetLaterBy
  <2>2. CASE a \in Dpcs /\ j = i /\ r.pc \in {"write", "event"} /\ r.cur = i
    <3>1. WillSet(res', a, act'[a], j)
      BY <1>3, <2>2 DEF WillSet
    <3> QED BY <3>1, SetLaterBy
  <2>3. CASE a \in Dpcs /\ j = i /\ ~(r.pc \in {"write", "event"} /\ r.cur = i)
    <3>1. /\ res'[i].event = res[i].event /\ res'[i].st = res[i].st /\ res'[i].FenceId = res[i].FenceId
          /\ act[a].cmd.fence # 0 /\ ~(act[a].cmd.fence >= res[i].FenceId) /\ act[a].pc = "update"
      BY <1>1, <1>6, <2>3 DEF Updates
    <3>2. SetLater(i)
      BY <1>6, <2>3, <3>1 DEF BInv
    <3>3. ~WillSet(res, a, act[a], i)
      BY <1>1, <2>3, <3>1 DEF WillSet
    <3> QED BY <1>2, <1>5, <2>3, <3>1, <3>2, <3>3, SetLaterKept, SetLaterBy
  <2>4. CASE j # i
    <3>1. res'[j].event = res[j].event /\ res'[j].st = res[j].st /\ res'[j].FenceId = res[j].FenceId
      BY <2>4 DEF Updates
    <3>2. SetLater(j)
      BY <1>6, <3>1 DEF BInv
    <3>3. WillSet(res, a, act[a], j) => WillSet(res', a, act'[a], j)
      <4>1. CASE a \in Threads
        BY <1>1, <1>2, <1>3, <4>1 DEF WillSet, Working, Updating
      <4>2. CASE a \in Dpcs
        BY <1>1, <1>2, <1>3, <2>4, <3>1, <4>2 DEF WillSet, Updating
      <4> QED BY <1>1, <4>1, <4>2
    <3> QED BY <1>2, <1>5, <3>1, <3>2, <3>3, SetLaterKept, SetLaterBy
  <2> QED BY <1>1, <2>1, <2>2, <2>3, <2>4
<1> QED BY <1>4, <1>6 DEF BInv

\* The DPC keeps them: the command it fetches is now its own, and it finishes with none to
\* set.
LEMMA BusyCompletes ==
    ASSUME "mapio" \notin Faults, IInv, NInv, BInv, NEW d \in Dpcs, Completes(d)
    PROVE  BInv'
<1>1. TypeOK /\ NewestFence /\ d \in Actors /\ d \notin Threads
  BY DpcIsActor, ConstAssumption DEF IInv, BInv
<1>2. ASSUME FinishCommand(d) PROVE BInv'
  <2>1. ActStep(d, Idle) /\ Queued' = Queued /\ UNCHANGED <<res, nextFence>>
    BY <1>1, <1>2, IdleOK, StepTo DEF FinishCommand, Queued
  <2>2. NewestFence'
    BY <1>1, <2>1, NewestKept
  <2>3. ASSUME NEW i \in Ids, res'[i].st # "none", ~res'[i].event PROVE SetLater(i)'
    <3>1. SetLater(i)
      BY <2>1, <2>3 DEF BInv
    <3>2. ~WillSet(res, d, act[d], i)
      BY <1>1, <1>2 DEF FinishCommand, WillSet
    <3> QED BY <1>1, <2>1, <3>1, <3>2, SetLaterKept, SetLaterBy
  <2> QED BY <2>2, <2>3 DEF BInv
<1>3. ASSUME NEW r, Reads(d, r) PROVE BInv'
  <2>1. ActStep(d, r) /\ act'[d] = r /\ UNCHANGED <<res, nextFence>> /\ act[d].pc = "idle"
    BY <1>1, <1>3, StepTo, WakesNobody DEF Reads
  <2>2. Queued = Queued' \cup {Head(used)}
    BY <1>1, <1>3, QueuedRead DEF Reads
  <2>3. NewestFence'
    BY <1>1, <2>1, NewestKept
  <2>4. ASSUME NEW i \in Ids, res'[i].st # "none", ~res'[i].event PROVE SetLater(i)'
    <3>1. SetLater(i)
      BY <2>1, <2>4 DEF BInv
    <3>2. ~WillSet(res, d, act[d], i)
      BY <1>1, <2>1 DEF WillSet
    <3>3. ASSUME i \in Head(used).ids, Head(used).fence = 0 \/ Head(used).fence >= res[i].FenceId
          PROVE  WillSet(res', d, act'[d], i)
      BY <1>3, <2>1, <3>3 DEF Reads, WillSet, Other
    <3> QED BY <1>1, <2>1, <2>2, <3>1, <3>2, <3>3, SetLaterKept, SetLaterBy
  <2> QED BY <2>3, <2>4 DEF BInv
<1>4. ASSUME NEW i \in Ids, Calls(d, i) PROVE BInv'
  <2>1. /\ ActStep(d, Idle) /\ act[d].pc = "callback" /\ i \in act[d].cmd.ids /\ nextFence' = nextFence
        /\ res'[i].event
    BY <1>4 DEF Calls
  <2>2. Queued' = Queued
    BY <1>4 DEF Calls, Queued
  <2>3. NewestFence'
    BY <1>1, <2>1, NewestKept
  <2>4. act[d].cmd.ids = {i}
    <3>1. ActorOK(d, act[d]) /\ Names(res, act[d].cmd)
      BY <1>1, ActorTyped DEF NInv, Doing
    <3> QED BY <2>1, <3>1 DEF ActorOK, Names
  <2>5. ASSUME NEW j \in Ids, res'[j].st # "none", ~res'[j].event PROVE SetLater(j)'
    <3>1. j # i
      BY <2>1, <2>5
    <3>2. SetLater(j) /\ res'[j].FenceId = res[j].FenceId
      BY <1>4, <2>5, <3>1 DEF BInv, Calls
    <3>3. ~WillSet(res, d, act[d], j)
      BY <1>1, <2>1, <2>4, <3>1 DEF WillSet
    <3> QED BY <1>1, <2>1, <2>2, <3>2, <3>3, SetLaterKept, SetLaterBy
  <2> QED BY <2>3, <2>5 DEF BInv
<1> QED BY <1>2, <1>3, <1>4 DEF Completes

\* So does every step, if no call fails, the ring has room and one thread submits with fences.
LEMMA BusyInductive ==
    ASSUME {"pool", "mapio"} \cap Faults = {}, RingSize > MaxInFlight, \A s, u \in FencedThreads : s = u
    PROVE  BInv /\ (IInv /\ NInv) /\ [Next]_vars => BInv'
<1> SUFFICES ASSUME IInv, NInv, BInv, [Next]_vars PROVE BInv'
  OBVIOUS
<1>1. IInv'
  BY Inductive
<1>2. CASE Next
  <2>1. Effect
    BY <1>2, Effects
  <2>2. ASSUME HostComplete PROVE BInv'
    <3>1. Queued' = Queued /\ UNCHANGED <<res, act, nextFence>>
      BY <2>2, QueuedHost DEF HostComplete, IInv
    <3> QED BY <3>1 DEF BInv, NewestFence, SetLater
  <2> QED BY <1>1, <2>1, <2>2, BusyHandles, BusyUpdates, BusyCompletes DEF Effect
<1>3. CASE UNCHANGED vars
  BY <1>3 DEF vars, BInv, NewestFence, SetLater, Queued
<1> QED BY <1>2, <1>3

\* Without a failed call, with a slot in the ring for every command in flight and with one
\* thread that submits with fences, a busy resource is never forgotten: a handler, a queued
\* command whose fence is not too old or the DPC will set its event (control.h:60-87,
\* vgpu.c:81-118).
THEOREM BusyHasSetterHolds ==
    ASSUME {"pool", "mapio"} \cap Faults = {}, RingSize > MaxInFlight, \A s, u \in FencedThreads : s = u
    PROVE  Spec => []BusyHasSetter
<1>1. Init => BInv
  <2>1. SUFFICES ASSUME Init PROVE BInv
    OBVIOUS
  <2>2. \A t \in Threads : act[t].cmd.fence = 0
    BY <2>1, ThreadIsActor DEF Init, Idle, Other
  <2>3. \A i \in Ids : res[i].st = "none"
    BY <2>1 DEF Init, NoResource
  <2> QED BY <2>2, <2>3 DEF BInv, NewestFence
<1>2. BInv /\ IInv => BusyHasSetter
  <2>1. SUFFICES ASSUME BInv, IInv, NEW i \in Ids, SetLater(i) PROVE Setter(i)
    BY DEF BInv, BusyHasSetter
  <2>2. ASSUME NEW t \in Threads, act[t].pc \in Working, i \in act[t].cmd.ids
        PROVE  act[t].cmd.type # "other"
    <3>1. ActorOK(t, act[t])
      BY <2>1, ThreadIsActor, ActorTyped
    <3> QED BY <2>2, <3>1 DEF ActorOK, Working
  <2>3. ASSUME NEW c \in Queued PROVE \E p \in Places : p[1] # "act" /\ At(p) = c
    BY <2>3, AtPlaces DEF Queued
  <2>4. CASE \E a \in Actors : WillSet(res, a, act[a], i)
    BY <2>2, <2>4 DEF WillSet, Setter
  <2>5. CASE \E c \in Queued : i \in c.ids /\ (c.fence = 0 \/ c.fence >= res[i].FenceId)
    BY <2>3, <2>5 DEF Setter
  <2> QED BY <2>1, <2>4, <2>5 DEF SetLater
<1>3. BInv /\ (IInv /\ NInv) /\ [Next]_vars => BInv'
  BY BusyInductive
<1> QED BY <1>1, <1>2, <1>3, Naming, PTL DEF Spec

-----------------------------------------------------------------------------
(* The order of the queue.                                                   *)

\* The queue, before and after a step: what is completed, then what is not.
LEMMA QueueNow ==
    ASSUME TypeOK
    PROVE  /\ Len(used) \in Nat /\ Len(ring) \in Nat /\ Len(Queue) = Len(used) + Len(ring)
           /\ \A k \in 1..(Len(used) + Len(ring)) :
                 Queue[k] = IF k <= Len(used) THEN used[k] ELSE ring[k - Len(used)]
           /\ \A k \in 1..Len(Queue) : Queue[k] \in Queued
<1>1. used \in Seq(Command) /\ ring \in Seq(Command) /\ Len(used) \in Nat /\ Len(ring) \in Nat
  BY DEF TypeOK
<1>2. /\ Len(Queue) = Len(used) + Len(ring)
      /\ \A k \in 1..(Len(used) + Len(ring)) :
            Queue[k] = IF k <= Len(used) THEN used[k] ELSE ring[k - Len(used)]
  BY ONLY <1>1, ConcatProperties DEF Queue
<1>3. \A k \in 1..Len(Queue) : k \in 1..Len(used) \/ (~(k <= Len(used)) /\ k - Len(used) \in 1..Len(ring))
  BY <1>1, <1>2
<1> QED BY <1>1, <1>2, <1>3 DEF Queued
\* The same after a step.
LEMMA QueueThen ==
    ASSUME TypeOK'
    PROVE  /\ Len(used') \in Nat /\ Len(ring') \in Nat /\ Len(Queue') = Len(used') + Len(ring')
           /\ \A k \in 1..(Len(used') + Len(ring')) :
                 Queue'[k] = IF k <= Len(used') THEN used'[k] ELSE ring'[k - Len(used')]
<1>1. used' \in Seq(Command) /\ ring' \in Seq(Command) /\ Len(used') \in Nat /\ Len(ring') \in Nat
  BY DEF TypeOK
<1>2. Queue' = used' \o ring'
  BY DEF Queue
<1> QED BY ONLY <1>1, <1>2, ConcatProperties

\* The queue grows by commands of C.
Grown(C) ==
    /\ \A k \in 1..Len(Queue) : k \in 1..Len(Queue') /\ Queue'[k] = Queue[k]
    /\ \A k \in 1..Len(Queue') : k \in 1..Len(Queue) \/ (k > Len(Queue) /\ Queue'[k] \in C)

\* It does when the ring does, ...
LEMMA QueueGrown ==
    ASSUME TypeOK, TypeOK', used' = used, NEW C, Len(ring') >= Len(ring),
           \A j \in 1..Len(ring) : ring'[j] = ring[j],
           \A j \in 1..Len(ring') : j \in 1..Len(ring) \/ ring'[j] \in C
    PROVE  Grown(C)
<1>1. ASSUME NEW k \in 1..Len(Queue) PROVE k \in 1..Len(Queue') /\ Queue'[k] = Queue[k]
  <2>1. CASE k <= Len(used)
    <3>1. k \in 1..(Len(used) + Len(ring)) /\ k \in 1..(Len(used') + Len(ring')) /\ k \in 1..Len(Queue')
      BY <2>1, QueueNow, QueueThen
    <3>2. Queue[k] = used[k] /\ Queue'[k] = used'[k]
      BY <2>1, <3>1, QueueNow, QueueThen
    <3> QED BY <3>1, <3>2
  <2>2. CASE ~(k <= Len(used))
    <3>1. k - Len(used) \in 1..Len(ring) /\ k \in 1..(Len(used) + Len(ring))
      BY <2>2, QueueNow
    <3>2. k \in 1..(Len(used') + Len(ring')) /\ ~(k <= Len(used')) /\ k \in 1..Len(Queue')
      BY <2>2, <3>1, QueueNow, QueueThen
    <3>3. Queue[k] = ring[k - Len(used)]
      BY <2>2, <3>1, QueueNow
    <3>4. Queue'[k] = ring'[k - Len(used')]
      BY <3>2, QueueThen
    <3> QED BY <3>1, <3>2, <3>3, <3>4
  <2> QED BY <2>1, <2>2
<1>2. ASSUME NEW k \in 1..Len(Queue'), k \notin 1..Len(Queue) PROVE k > Len(Queue) /\ Queue'[k] \in C
  <2>1. k > Len(Queue) /\ ~(k <= Len(used')) /\ k - Len(used) \in 1..Len(ring') /\ k - Len(used) \notin 1..Len(ring)
    BY <1>2, QueueNow, QueueThen
  <2> QED BY <2>1, QueueThen
<1> QED BY <1>1, <1>2 DEF Grown

\* ... as a push lets it, ...
LEMMA QueueUnchanged ==
    ASSUME UNCHANGED <<ring, used>>
    PROVE  \A C : Grown(C)
  BY DEF Grown, Queue
\* ... one command behind the others, ...
LEMMA QueuePush ==
    ASSUME TypeOK, TypeOK', NEW c \in Command, ring' = Append(ring, c), used' = used
    PROVE  Grown({c}) /\ \E k \in 1..Len(Queue') : Queue'[k] = c
<1>1. ring \in Seq(Command) /\ Len(ring) \in Nat
  BY DEF TypeOK
<1>2. /\ Len(ring') = Len(ring) + 1 /\ ring'[Len(ring) + 1] = c
      /\ \A j \in 1..Len(ring) : ring'[j] = ring[j]
  BY <1>1, AppendProperties
<1>3. \A j \in 1..Len(ring') : j \in 1..Len(ring) \/ ring'[j] \in {c}
  BY <1>1, <1>2
<1>4. Len(ring') >= Len(ring)
  BY <1>1, <1>2
<1>5. Grown({c})
  BY <1>2, <1>3, <1>4, QueueGrown
<1> DEFINE k == Len(used) + Len(ring) + 1
<1>6. /\ k \in 1..(Len(used') + Len(ring')) /\ ~(k <= Len(used')) /\ k - Len(used') = Len(ring) + 1
      /\ k \in 1..Len(Queue')
  BY <1>2, QueueNow, QueueThen
<1> HIDE DEF k
<1>7. Queue'[k] = ring'[k - Len(used')]
  BY <1>6, QueueThen
<1> QED BY <1>2, <1>5, <1>6, <1>7
\* ... or those of a creation; ...
LEMMA QueueCreate ==
    ASSUME TypeOK, TypeOK', used' = used, ring' \in {ring, Append(ring, Other), ring \o <<Other, Other>>}
    PROVE  Grown({Other})
<1>1. CASE ring' = ring
  BY <1>1, QueueUnchanged
<1>2. CASE ring' = Append(ring, Other)
  BY <1>2, QueuePush, Values
<1>3. CASE ring' = ring \o <<Other, Other>>
  <2>1. /\ Len(ring) \in Nat /\ Len(ring') = Len(ring) + 2
        /\ \A j \in 1..Len(ring) : ring'[j] = ring[j]
        /\ \A j \in 1..Len(ring') : j \in 1..Len(ring) \/ ring'[j] \in {Other}
    BY <1>3, TwoMore
  <2>2. Len(ring') >= Len(ring)
    BY <2>1
  <2> QED BY <2>1, <2>2, QueueGrown
<1> QED BY <1>1, <1>2, <1>3

\* ... a host that completes in order leaves it alone, ...
LEMMA QueueHost ==
    ASSUME TypeOK, TypeOK', HostInOrder, HostComplete
    PROVE  Len(Queue') = Len(Queue) /\ \A k \in 1..Len(Queue) : Queue'[k] = Queue[k]
<1>1. PICK i \in 1..Len(ring) :
        /\ i = 1 /\ used' = Append(used, ring[i])
        /\ ring' = SubSeq(ring, 1, i - 1) \o SubSeq(ring, i + 1, Len(ring))
  BY DEF HostComplete
<1>2. /\ Len(ring) \in Nat /\ Len(used) \in Nat /\ ring[i] \in Command
      /\ ring \in Seq(Command) /\ used \in Seq(Command)
  BY DEF TypeOK
<1>3. /\ Len(ring') = Len(ring) - 1
      /\ \A j \in 1..(Len(ring) - 1) : ring'[j] = ring[IF j < i THEN j ELSE j + 1]
  BY <1>1, <1>2, Without
<1>4. \A j \in 1..(Len(ring) - 1) : ring'[j] = ring[j + 1]
  BY <1>1, <1>2, <1>3
<1>5. /\ Len(used') = Len(used) + 1 /\ used'[Len(used) + 1] = ring[1]
      /\ \A j \in 1..Len(used) : used'[j] = used[j]
  BY <1>1, <1>2, AppendProperties
<1>6. Len(Queue') = Len(Queue)
  BY <1>2, <1>3, <1>5, QueueNow, QueueThen
<1>7. ASSUME NEW k \in 1..Len(Queue) PROVE Queue'[k] = Queue[k]
  <2>1. k \in 1..(Len(used) + Len(ring)) /\ k \in 1..(Len(used') + Len(ring'))
    BY <1>6, QueueNow, QueueThen
  <2>2. CASE k <= Len(used)
    BY <1>2, <1>5, <2>1, <2>2, QueueNow, QueueThen
  <2>3. CASE k = Len(used) + 1
    <3>1. Queue[k] = ring[1]
      BY <1>2, <2>1, <2>3, QueueNow
    <3>2. Queue'[k] = used'[k]
      BY <1>2, <1>5, <2>1, <2>3, QueueThen
    <3> QED BY <1>5, <2>3, <3>1, <3>2
  <2>4. CASE k > Len(used) + 1
    <3> DEFINE j == k - Len(used) - 1
    <3>1. j \in 1..(Len(ring) - 1) /\ j + 1 = k - Len(used) /\ j = k - Len(used')
      BY <1>2, <1>5, <2>1, <2>4
    <3>2. Queue[k] = ring[j + 1]
      BY <1>2, <2>1, <2>4, <3>1, QueueNow
    <3>3. Queue'[k] = ring'[j]
      BY <1>2, <1>5, <2>1, <2>4, <3>1, QueueThen, SMTT(20)
    <3> QED BY <1>4, <3>1, <3>2, <3>3
  <2> QED BY <1>2, <2>1, <2>2, <2>3, <2>4
<1> QED BY <1>6, <1>7

\* ... and the DPC takes its first command.
LEMMA QueueRead ==
    ASSUME TypeOK, TypeOK', used # <<>>, used' = Tail(used), ring' = ring
    PROVE  /\ 1 \in 1..Len(Queue) /\ Queue[1] = Head(used) /\ Len(Queue) \in Nat
           /\ Len(Queue') = Len(Queue) - 1
           /\ \A k \in 1..Len(Queue') : Queue'[k] = Queue[k + 1]
<1>1. used \in Seq(Command) /\ Len(used) \in Nat /\ Len(used) # 0
  BY DEF TypeOK
<1>2. /\ Len(used') = Len(used) - 1 /\ Head(used) = used[1]
      /\ \A j \in 1..Len(used') : used'[j] = used[j + 1]
  BY <1>1, HeadTailProperties
<1>3. 1 \in 1..Len(Queue) /\ Queue[1] = Head(used) /\ Len(Queue) \in Nat /\ Len(Queue') = Len(Queue) - 1
  BY <1>1, <1>2, QueueNow, QueueThen
<1>4. ASSUME NEW k \in 1..Len(Queue') PROVE Queue'[k] = Queue[k + 1]
  <2>1. k \in 1..(Len(used') + Len(ring')) /\ k + 1 \in 1..(Len(used) + Len(ring))
    BY <1>3, QueueNow, QueueThen
  <2>2. CASE k <= Len(used')
    BY <1>1, <1>2, <2>1, <2>2, QueueNow, QueueThen
  <2>3. CASE ~(k <= Len(used'))
    <3>1. k - Len(used') = (k + 1) - Len(used) /\ ~(k + 1 <= Len(used))
      BY <1>1, <1>2, <2>1, <2>3
    <3> QED BY <2>1, <2>3, <3>1, QueueNow, QueueThen
  <2> QED BY <2>2, <2>3
<1> QED BY <1>3, <1>4

-----------------------------------------------------------------------------
(* A blob is mapped before it is used.                                       *)

\* A step of a thread is no step of a DPC: DPCs do not wait.
LEMMA DpcsStay ==
    ASSUME IInv, NEW a \in Actors, NEW r, ActStep(a, r)
    PROVE  \A d \in Dpcs \ {a} : act'[d] = act[d]
<1> SUFFICES ASSUME NEW d \in Dpcs \ {a} PROVE act'[d] = act[d]
  OBVIOUS
<1>1. d \in Actors /\ d \notin Threads /\ ActorOK(d, act[d]) /\ Woken(act[d], act'[d])
  BY DpcIsActor, ActorTyped, ConstAssumption DEF ActStep
<1> QED BY <1>1, ConstAssumption DEF ActorOK, Mapping, Woken

\* What CtlMap is about to share keeps its address, and who is woken finds one.
LEMMA ShareKept ==
    ASSUME IInv, NInv, MapAfterBlobMapped, NEW a \in Actors, NEW i \in Ids, Wakes(a, i),
           \A j \in Ids : res[j].va => res'[j].va,
           a \in Threads /\ act'[a].pc = "mapshare" => res'[act'[a].cur].va,
           a \notin Threads /\ res[i].st = "known" /\ res[i].kind # "fence" => res'[i].va
    PROVE  MapAfterBlobMapped'
<1> SUFFICES ASSUME NEW u \in Threads, act'[u].pc = "mapshare" PROVE res'[act'[u].cur].va
  BY DEF MapAfterBlobMapped
<1>1. u \in Actors /\ ActorOK(u, act[u]) /\ Doing(res, act[u])
  BY ThreadIsActor, ActorTyped DEF NInv
<1>2. CASE u # a /\ act'[u] = act[u]
  <2>1. act[u].cur \in Ids /\ res[act[u].cur].va
    BY <1>1, <1>2 DEF ActorOK, Mapping, MapAfterBlobMapped
  <2> QED BY <1>2, <2>1
<1>3. CASE u # a /\ act'[u] # act[u]
  <2>1. a \notin Threads /\ act[u].cur = i /\ Woken(act[u], act'[u])
    BY <1>1, <1>3 DEF Wakes
  <2>2. act[u].pc = "mapwait" /\ act'[u] = [act[u] EXCEPT !.pc = "mapshare"]
    BY <1>3, <2>1 DEF Woken, Idle
  <2>3. act'[u].cur = act[u].cur
    BY <2>2
  <2>4. res[i].st = "known" /\ res[i].kind # "fence"
    BY <1>1, <2>1, <2>2 DEF Doing, Mapping
  <2> QED BY <2>1, <2>3, <2>4
<1> QED BY <1>2, <1>3

\* A buffer or a blob that is not unmapped has its address.
LEMMA HasAddress ==
    ASSUME IInv, NInv, NEW i \in Ids, res[i].st = "known", res[i].kind # "fence", ~Unmapped(i)
    PROVE  res[i].va
<1>1. res[i] \in Resource
  BY DEF IInv, TypeOK
<1>2. res[i].kind \in {"fence", "buffer", "blob"}
  BY <1>1 DEF Resource
<1> QED BY <1>2 DEF NInv, Numbered, Unmapped

\* A thread keeps the order of the commands that name an unmapped blob i: its own, if not
\* the mapping, comes behind one.
LEMMA FirstKept ==
    ASSUME IInv, NEW t \in Threads, NEW r, ActStep(t, r), NEW C, Grown(C),
           NEW i \in Ids, MappedFirst(i), ~res'[i].event,
           res'[i].st = "known" => res[i].st = "known" \/ \E k \in 1..Len(Queue') : Maps(Queue'[k], i),
           \A c \in C : i \in c.ids /\ c.type # "mapblob" => res[i].st = "known"
    PROVE  MappedFirst(i)'
<1>1. t \in Actors /\ t \notin Dpcs
  BY ThreadIsActor, ConstAssumption
<1>2. \A d \in Dpcs : act'[d] = act[d]
  BY <1>1, DpcsStay
<1>3. Calling(i)' <=> Calling(i)
  BY <1>2 DEF Calling
<1>4. ASSUME NEW k \in 1..Len(Queue), Maps(Queue[k], i) PROVE k \in 1..Len(Queue') /\ Maps(Queue'[k], i)
  BY <1>4 DEF Grown
<1>5. res'[i].st = "known" => Calling(i)' \/ \E k \in 1..Len(Queue') : Maps(Queue'[k], i)
  BY <1>3, <1>4 DEF MappedFirst
<1>6. ASSUME NEW j \in 1..Len(Queue'), i \in Queue'[j].ids, Queue'[j].type # "mapblob", ~Calling(i)
      PROVE  \E k \in 1..(j - 1) : Maps(Queue'[k], i)
  <2>1. Len(Queue) \in Nat
    BY QueueNow DEF IInv
  <2>2. CASE j \in 1..Len(Queue)
    <3>1. Queue'[j] = Queue[j]
      BY <2>2 DEF Grown
    <3>2. PICK k \in 1..(j - 1) : Maps(Queue[k], i)
      BY <1>6, <2>2, <3>1 DEF MappedFirst
    <3>3. k \in 1..Len(Queue)
      BY <2>1, <2>2
    <3> QED BY <1>4, <3>2, <3>3
  <2>3. CASE j > Len(Queue) /\ Queue'[j] \in C
    <3>1. PICK k \in 1..Len(Queue) : Maps(Queue[k], i)
      BY <1>6, <2>3 DEF MappedFirst
    <3>2. k \in 1..(j - 1)
      BY <2>1, <2>3
    <3> QED BY <1>4, <3>1, <3>2
  <2> QED BY <2>2, <2>3 DEF Grown
<1> QED BY <1>2, <1>3, <1>5, <1>6 DEF MappedFirst

\* The handlers map a blob before they use it.
LEMMA MappedHandles ==
    ASSUME RingSize > MaxInFlight, IInv, IInv', NInv, MInv, NEW t \in Threads, Handles(t)
    PROVE  MInv'
<1>1. /\ TypeOK /\ TypeOK' /\ t \in Actors /\ t \notin Dpcs /\ LoadOK /\ Numbered /\ MapAfterBlobMapped
      /\ \A i \in Ids : Unmapped(i) => MappedFirst(i)
  BY ThreadIsActor, ConstAssumption DEF IInv, NInv, MInv
<1>2. ASSUME NEW r, ActStep(t, r), Grown({}), act'[t] = r, r.pc # "mapshare", NEW j \in Ids, Wakes(t, j),
             \A i \in Ids : /\ res'[i].st = res[i].st /\ res'[i].kind = res[i].kind /\ res'[i].va = res[i].va
                            /\ res[i].event \/ ~res'[i].event
      PROVE  MInv'
  <2>1. MapAfterBlobMapped'
    BY <1>1, <1>2, ShareKept
  <2>2. ASSUME NEW i \in Ids, Unmapped(i)' PROVE MappedFirst(i)'
    <3>1. MappedFirst(i)
      BY <1>1, <1>2, <2>2 DEF Unmapped
    <3>2. ~res'[i].event /\ res'[i].st = res[i].st
      BY <1>2, <3>1 DEF MappedFirst
    <3> QED BY <1>1, <1>2, <3>1, <3>2, FirstKept
  <2> QED BY <2>1, <2>2 DEF MInv
<1>3. ASSUME NEW r, Aside(t, r) PROVE MInv'
  <2>1. ActStep(t, r) /\ act'[t] = r /\ \A i : Wakes(t, i)
    BY <1>1, <1>3, StepTo, WakesNobody DEF Aside
  <2>2. Grown({}) /\ Alike(res, res')
    BY <1>3, QueueUnchanged DEF Aside
  <2>3. CASE Ids = {}
    <3>1. \A u \in Threads : act'[u].pc = "mapshare" => act'[u].cur \in Ids
      <4>1. ActorsOK'
        BY DEF IInv
      <4> QED BY <4>1, ThreadIsActor DEF ActorsOK, ActorOK, Mapping
    <3> QED BY <2>3, <3>1 DEF MInv, MapAfterBlobMapped
  <2>4. CASE Ids # {}
    <3>1. PICK j \in Ids : TRUE
      BY <2>4
    <3>2. r.pc = "mapshare" => res'[r.cur].va
      <4>1. ASSUME r.pc = "mapshare" PROVE res'[r.cur].va
        <5>1. r.cur \in Ids /\ res[r.cur].st = "known" /\ res[r.cur].kind # "fence" /\ res[r.cur].event
          BY <1>3, <4>1 DEF Aside, ActorOK, Doing, Mapping
        <5>2. ~Unmapped(r.cur)
          BY <1>1, <5>1 DEF MappedFirst
        <5> QED BY <2>2, <5>1, <5>2, HasAddress DEF Alike
      <4> QED BY <4>1
    <3>3. MapAfterBlobMapped'
      BY <1>1, <2>1, <2>2, <3>1, <3>2, ShareKept DEF Alike
    <3>4. ASSUME NEW i \in Ids, Unmapped(i)' PROVE MappedFirst(i)'
      <4>1. MappedFirst(i) /\ res'[i].event = res[i].event /\ res'[i].st = res[i].st
        BY <1>1, <2>2, <3>4 DEF Unmapped, Alike
      <4>2. ~res'[i].event
        BY <4>1 DEF MappedFirst
      <4> QED BY <1>1, <2>1, <2>2, <4>1, <4>2, FirstKept
    <3> QED BY <3>3, <3>4 DEF MInv
  <2> QED BY <2>3, <2>4
<1>4. ASSUME NEW r, NEW i \in Ids, Transfers(t, r, i) PROVE MInv'
  <2>1. ActStep(t, r) /\ r.pc = "push" /\ Wakes(t, i) /\ Grown({})
    BY <1>4, QueueUnchanged DEF Transfers
  <2>2. act'[t] = r
    BY <1>1, <2>1 DEF ActStep, Woken
  <2> QED BY <1>2, <1>4, <2>1, <2>2 DEF Transfers
<1>5. ASSUME NEW r, NEW b, Takes(t, r, b) PROVE MInv'
  <2>1. ActStep(t, r) /\ act'[t] = r /\ (\A i : Wakes(t, i)) /\ Grown({}) /\ res' = res
    BY <1>1, <1>5, StepTo, WakesNobody, QueueUnchanged DEF Takes
  <2>2. r.pc # "mapshare"
    BY <1>5 DEF Takes, Idle
  <2>3. MapAfterBlobMapped'
    <3>1. \A u \in Threads : act'[u] = act[u] \/ act'[u].pc # "mapshare"
      BY <1>1, <1>5, <2>1, <2>2, ThreadIsActor, WakesNobody DEF Takes
    <3> QED BY <1>1, <2>1, <3>1 DEF MapAfterBlobMapped
  <2>4. ASSUME NEW i \in Ids PROVE Unmapped(i)' => MappedFirst(i)'
    BY <1>2, <2>1, <2>2, <2>4 DEF MInv
  <2> QED BY <2>3, <2>4 DEF MInv
<1>6. ASSUME Pushes(t) PROVE MInv'
  <2> DEFINE c == act[t].cmd
  <2>1. /\ ActStep(t, Idle) /\ act'[t] = Idle /\ Idle.pc = "idle" /\ c \in Command /\ used' = used
        /\ \A u \in Actors \ {t} : act'[u] = act[u]
    BY <1>1, <1>6, IdleOK, StepTo, WakesNobody, ActorTyped DEF Pushes, Idle
  <2>2. MapAfterBlobMapped'
    <3>1. \A u \in Threads : act'[u].pc = "mapshare" => act'[u] = act[u] /\ act[u].cur \in Ids
      <4>1. ActorsOK
        BY DEF IInv
      <4> QED BY <2>1, <4>1, ThreadIsActor DEF ActorsOK, ActorOK, Mapping
    <3> QED BY <1>1, <1>6, <3>1 DEF MapAfterBlobMapped, Pushes
  <2>3. ring' = ring \/ ring' = Append(ring, c)
    BY <1>6 DEF Pushes
  <2>4. Grown({c})
    BY <1>1, <2>1, <2>3, QueueUnchanged, QueuePush
  <2>5. ASSUME NEW i \in Ids, Unmapped(i)' PROVE MappedFirst(i)'
    <3>1. /\ res'[i].event = res[i].event /\ res'[i].kind = res[i].kind /\ res'[i].va = res[i].va
          /\ res'[i].st = IF Maps(c, i) THEN "known" ELSE res[i].st
      BY <1>6 DEF Pushes
    <3>2. Names(res, c) /\ ActorOK(t, act[t])
      BY <1>1, ActorTyped DEF NInv, Doing
    <3>3. Unmapped(i)
      BY <2>5, <3>1, <3>2 DEF Unmapped, Maps, Names
    <3>4. MappedFirst(i) /\ ~res'[i].event
      BY <1>1, <3>1, <3>3 DEF MappedFirst
    <3>5. ASSUME Maps(c, i) PROVE \E k \in 1..Len(Queue') : Maps(Queue'[k], i)
      <4>1. act[t].pc = "push"
        BY <1>6, <3>2, <3>5 DEF Pushes, Maps, ActorOK
      <4>2. Room > 0
        BY <1>1, <4>1, RoomToPush
      <4>3. ring' = Append(ring, c)
        BY <1>6, <4>1, <4>2 DEF Pushes
      <4>4. \E k \in 1..Len(Queue') : Queue'[k] = c
        BY <1>1, <2>1, <4>3, QueuePush
      <4> QED BY <3>5, <4>4
    <3>6. res'[i].st = "known" => res[i].st = "known" \/ \E k \in 1..Len(Queue') : Maps(Queue'[k], i)
      BY <3>1, <3>5
    <3>7. i \in c.ids /\ c.type # "mapblob" => res[i].st = "known"
      <4>1. c.type \in {"submit", "xfer", "mapblob", "other"} /\ (c.type = "other" => c.ids = {})
        BY <2>1, <3>2 DEF ActorOK, CommandOK, Command, Other
      <4> QED BY <3>2, <4>1 DEF Names
    <3> QED BY <1>1, <2>1, <2>4, <3>4, <3>6, <3>7, FirstKept
  <2> QED BY <2>2, <2>5 DEF MInv
<1>7. ASSUME NEW r, Creates(t, r) PROVE MInv'
  <2>1. /\ ActStep(t, r) /\ act'[t] = r /\ nextRes \in Ids /\ r.pc # "mapshare"
        /\ \A u \in Actors \ {t} : act'[u] = act[u]
        /\ \A i \in Ids \ {nextRes} : res'[i] = res[i]
    BY <1>7 DEF Creates
  <2>2. res[nextRes].st = "none"
    <3>1. nextRes \in Nat
      BY <1>1 DEF TypeOK
    <3> QED BY <1>1, <2>1, <3>1 DEF Numbered
  <2>3. Grown({Other}) /\ Other.ids = {}
    BY <1>1, <1>7, QueueCreate DEF Creates, Other
  <2>4. MapAfterBlobMapped'
    <3>1. ASSUME NEW u \in Threads, act'[u].pc = "mapshare"
          PROVE  act'[u] = act[u] /\ act[u].cur \in Ids \ {nextRes}
      <4>1. u \in Actors /\ ActorOK(u, act[u]) /\ Doing(res, act[u]) /\ act'[u] = act[u]
        BY <2>1, <3>1, ThreadIsActor, ActorTyped DEF NInv
      <4> QED BY <2>2, <3>1, <4>1 DEF ActorOK, Doing, Mapping
    <3> QED BY <1>1, <2>1, <3>1 DEF MapAfterBlobMapped
  <2>5. ASSUME NEW i \in Ids, Unmapped(i)' PROVE MappedFirst(i)'
    <3>1. CASE i # nextRes
      <4>1. res'[i] = res[i]
        BY <2>1, <3>1
      <4>2. MappedFirst(i) /\ ~res'[i].event
        BY <1>1, <2>5, <4>1 DEF Unmapped, MappedFirst
      <4> QED BY <1>1, <2>1, <2>3, <4>1, <4>2, FirstKept
    <3>2. CASE i = nextRes
      <4>1. res'[i].st = "listed" /\ ~res'[i].event
        BY <1>7, <2>2, <2>5, <3>2 DEF Creates, Unmapped
      <4>2. \A k \in 1..Len(Queue) : i \notin Queue[k].ids
        BY <1>1, <2>2, <3>2, QueueNow DEF NInv, Names
      <4>3. \A k \in 1..Len(Queue') : i \notin Queue'[k].ids
        BY <2>3, <4>2 DEF Grown
      <4>4. \A d \in Dpcs : i \notin act'[d].cmd.ids
        BY <1>1, <2>1, <2>2, <3>2, DpcIsActor DEF NInv, Doing, Names
      <4> QED BY <4>1, <4>3, <4>4 DEF MappedFirst
    <3> QED BY <3>1, <3>2
  <2> QED BY <2>4, <2>5 DEF MInv
<1> QED BY <1>3, <1>4, <1>5, <1>6, <1>7 DEF Handles

\* The queue and the callback as they were: so is the order.
LEMMA FirstStays ==
    ASSUME NEW i \in Ids, UNCHANGED <<ring, used>>, MappedFirst(i), ~res'[i].event,
           res'[i].st = res[i].st, Calling(i) => Calling(i)',
           \A d \in Dpcs : act'[d].pc \in Updating => i \notin act'[d].cmd.ids
    PROVE  MappedFirst(i)'
<1>1. Queue' = Queue
  BY DEF Queue
<1> QED BY <1>1 DEF MappedFirst, Updating

\* UpdateResourceState sets the event of no unmapped blob.
LEMMA MappedUpdates ==
    ASSUME IInv, NInv, MInv, NEW a \in Actors, NEW i \in Ids, NEW r, Updates(a, r, i)
    PROVE  MInv'
<1>1. /\ MapAfterBlobMapped /\ (a \in Threads \/ a \in Dpcs) /\ ~(a \in Threads /\ a \in Dpcs)
      /\ \A j \in Ids : Unmapped(j) => MappedFirst(j)
  BY ConstAssumption DEF MInv, Actors
<1>2. /\ act[a].pc \in Updating /\ r.pc \in Updating /\ r.cmd = act[a].cmd /\ i \in act[a].cmd.ids
      /\ ActStep(a, r) /\ Wakes(a, i) /\ UNCHANGED <<ring, used>>
      /\ \A j \in Ids : /\ res'[j].st = res[j].st /\ res'[j].kind = res[j].kind /\ res'[j].va = res[j].va
                        /\ j # i => res'[j].event = res[j].event
  BY DEF Updates
<1>3. act'[a] = r
  BY <1>2 DEF ActStep, Woken, Updating
<1>4. a \notin Threads => ~Unmapped(i)
  BY <1>1, <1>2 DEF MappedFirst, Updating
<1>5. MapAfterBlobMapped'
  <2>1. a \notin Threads /\ res[i].st = "known" /\ res[i].kind # "fence" => res'[i].va
    BY <1>2, <1>4, HasAddress
  <2>2. act'[a].pc # "mapshare"
    BY <1>2, <1>3 DEF Updating
  <2> QED BY <1>1, <1>2, <2>1, <2>2, ShareKept
<1>6. ASSUME NEW j \in Ids, Unmapped(j)' PROVE MappedFirst(j)'
  <2>1. Unmapped(j) /\ MappedFirst(j)
    BY <1>1, <1>2, <1>6 DEF Unmapped
  <2>2. ~res'[j].event
    <3>1. CASE j # i
      BY <1>2, <2>1, <3>1 DEF MappedFirst
    <3>2. CASE j = i
      <4>1. a \in Threads /\ ~res[i].event
        BY <1>1, <1>4, <2>1, <3>2 DEF MappedFirst
      <4> QED BY <3>2, <4>1 DEF Updates
    <3> QED BY <3>1, <3>2
  <2>3. \A d \in Dpcs \ {a} : act'[d] = act[d]
    BY <1>2, DpcsStay
  <2>4. Calling(j) => Calling(j)'
    BY <1>2, <2>3 DEF Calling, Updating
  <2>5. \A d \in Dpcs : act'[d].pc \in Updating => j \notin act'[d].cmd.ids
    BY <1>2, <1>3, <2>1, <2>3 DEF MappedFirst, Updating
  <2> QED BY <1>2, <2>1, <2>2, <2>4, <2>5, FirstStays
<1> QED BY <1>5, <1>6 DEF MInv

\* The only DPC fetches the mapping of a blob before the commands behind it, and its
\* callback gives the blob its address and wakes those who wait for it.
LEMMA MappedCompletes ==
    ASSUME "mapio" \notin Faults, \A d, e \in Dpcs : d = e,
           IInv, IInv', NInv, MInv, NEW d \in Dpcs, Completes(d)
    PROVE  MInv'
<1>1. /\ TypeOK /\ TypeOK' /\ d \in Actors /\ d \notin Threads /\ MapAfterBlobMapped
      /\ \A j \in Ids : Unmapped(j) => MappedFirst(j)
  BY DpcIsActor, ConstAssumption DEF IInv, MInv
<1>2. ASSUME FinishCommand(d) PROVE MInv'
  <2>1. /\ act'[d] = Idle /\ (\A b \in Actors \ {d} : act'[b] = act[b]) /\ act[d].pc = "update"
        /\ UNCHANGED <<res, ring, used>>
    BY <1>1, <1>2, WakesNobody DEF FinishCommand
  <2>2. MapAfterBlobMapped'
    BY <1>1, <2>1, ThreadIsActor DEF MapAfterBlobMapped
  <2>3. ASSUME NEW i \in Ids, Unmapped(i)' PROVE MappedFirst(i)'
    <3>1. MappedFirst(i) /\ ~res'[i].event
      BY <1>1, <2>1, <2>3 DEF Unmapped, MappedFirst
    <3>2. ~Calling(i)
      BY <2>1 DEF Calling
    <3>3. \A e \in Dpcs : act'[e].pc \notin Updating
      BY <2>1 DEF Updating, Idle
    <3> QED BY <2>1, <3>1, <3>2, <3>3, FirstStays
  <2> QED BY <2>2, <2>3 DEF MInv
<1>3. ASSUME NEW i \in Ids, Calls(d, i) PROVE MInv'
  <2>1. /\ act[d].pc = "callback" /\ i \in act[d].cmd.ids /\ ActStep(d, Idle) /\ Wakes(d, i)
        /\ UNCHANGED <<ring, used>> /\ res'[i].event /\ res'[i].va
        /\ \A j \in Ids : /\ res'[j].st = res[j].st /\ res'[j].kind = res[j].kind
                          /\ j # i => res'[j].event = res[j].event /\ res'[j].va = res[j].va
    BY <1>3 DEF Calls
  <2>2. act'[d] = Idle
    BY <1>1, <2>1 DEF ActStep, Woken, Idle
  <2>3. MapAfterBlobMapped'
    BY <1>1, <2>1, ShareKept
  <2>4. act[d].cmd.ids = {i}
    <3>1. ActorOK(d, act[d]) /\ Names(res, act[d].cmd)
      BY <1>1, ActorTyped DEF NInv, Doing
    <3> QED BY <2>1, <3>1 DEF ActorOK, Names
  <2>5. ASSUME NEW j \in Ids, Unmapped(j)' PROVE MappedFirst(j)'
    <3>1. j # i
      BY <2>1, <2>5 DEF Unmapped
    <3>2. MappedFirst(j) /\ ~res'[j].event /\ res'[j].st = res[j].st
      BY <1>1, <2>1, <2>5, <3>1 DEF Unmapped, MappedFirst
    <3>3. ~Calling(j)
      BY <2>4, <3>1 DEF Calling
    <3>4. \A e \in Dpcs : act'[e].pc \notin Updating
      BY <2>2 DEF Updating, Idle
    <3> QED BY <2>1, <3>2, <3>3, <3>4, FirstStays
  <2> QED BY <2>3, <2>5 DEF MInv
<1>4. ASSUME NEW r, Reads(d, r) PROVE MInv'
  <2>1. /\ act'[d] = r /\ (\A b \in Actors \ {d} : act'[b] = act[b]) /\ act[d].pc = "idle"
        /\ UNCHANGED <<res, ring>> /\ used # <<>> /\ used' = Tail(used)
    BY <1>1, <1>4, WakesNobody DEF Reads
  <2>2. MapAfterBlobMapped'
    BY <1>1, <2>1, ThreadIsActor DEF MapAfterBlobMapped
  <2>3. /\ 1 \in 1..Len(Queue) /\ Queue[1] = Head(used) /\ Len(Queue) \in Nat
        /\ Len(Queue') = Len(Queue) - 1
        /\ \A k \in 1..Len(Queue') : Queue'[k] = Queue[k + 1]
    BY <1>1, <2>1, QueueRead
  <2>4. ASSUME NEW i \in Ids, Unmapped(i)' PROVE MappedFirst(i)'
    <3>1. MappedFirst(i) /\ ~res'[i].event
      BY <1>1, <2>1, <2>4 DEF Unmapped, MappedFirst
    <3>2. ~Calling(i)
      BY <2>1 DEF Calling
    <3>3. Maps(Queue[1], i) => Calling(i)'
      BY <1>4, <2>1, <2>3 DEF Reads, Maps, Calling, Other
    <3>4. ASSUME NEW k \in 1..Len(Queue), Maps(Queue[k], i), ~Calling(i)'
          PROVE  k - 1 \in 1..Len(Queue') /\ Maps(Queue'[k - 1], i)
      <4>1. k # 1
        BY <3>3, <3>4
      <4>2. k - 1 \in 1..Len(Queue') /\ (k - 1) + 1 = k
        BY <2>3, <4>1
      <4> QED BY <2>3, <3>4, <4>2
    <3>5. res'[i].st = "known" => Calling(i)' \/ \E k \in 1..Len(Queue') : Maps(Queue'[k], i)
      BY <2>1, <3>1, <3>2, <3>4 DEF MappedFirst
    <3>6. ASSUME NEW j \in 1..Len(Queue'), i \in Queue'[j].ids, Queue'[j].type # "mapblob", ~Calling(i)'
          PROVE  \E k \in 1..(j - 1) : Maps(Queue'[k], i)
      <4>1. j + 1 \in 1..Len(Queue) /\ Queue'[j] = Queue[j + 1] /\ (j + 1) - 1 = j
        BY <2>3
      <4>2. PICK k \in 1..j : Maps(Queue[k], i)
        BY <3>1, <3>2, <3>6, <4>1 DEF MappedFirst
      <4>3. k \in 1..Len(Queue)
        BY <2>3
      <4>4. k - 1 \in 1..Len(Queue') /\ Maps(Queue'[k - 1], i)
        BY <3>4, <3>6, <4>2, <4>3
      <4>5. k - 1 \in 1..(j - 1)
        BY <2>3, <4>4
      <4> QED BY <4>4, <4>5
    <3>7. ASSUME NEW e \in Dpcs, act'[e].pc \in Updating, i \in act'[e].cmd.ids PROVE FALSE
      <4>1. e = d
        OBVIOUS
      <4>2. r.cmd = Queue[1] /\ r.cmd.type # "mapblob"
        BY <1>4, <2>1, <2>3, <3>7, <4>1 DEF Reads, Updating, Idle
      <4>3. \E k \in 1..(1 - 1) : Maps(Queue[k], i)
        BY <2>1, <2>3, <3>1, <3>2, <3>7, <4>1, <4>2 DEF MappedFirst
      <4> QED BY <4>3
    <3> QED BY <3>1, <3>5, <3>6, <3>7 DEF MappedFirst, Updating
  <2> QED BY <2>2, <2>4 DEF MInv
<1> QED BY <1>2, <1>3, <1>4 DEF Completes

\* So a blob stays first mapped, then used.
LEMMA MappedInductive ==
    ASSUME "mapio" \notin Faults, RingSize > MaxInFlight, HostInOrder, \A d, e \in Dpcs : d = e
    PROVE  MInv /\ (IInv /\ NInv) /\ [Next]_vars => MInv'
<1> SUFFICES ASSUME IInv, NInv, MInv, [Next]_vars PROVE MInv'
  OBVIOUS
<1>1. IInv'
  BY Inductive
<1>2. CASE Next
  <2>1. Effect
    BY <1>2, Effects
  <2>2. ASSUME HostComplete PROVE MInv'
    <3>1. UNCHANGED <<res, act>>
      BY <2>2 DEF HostComplete
    <3>2. Len(Queue') = Len(Queue) /\ (\A k \in 1..Len(Queue) : Queue'[k] = Queue[k]) /\ Len(Queue) \in Nat
      BY <1>1, <2>2, QueueHost, QueueNow DEF IInv
    <3>3. MapAfterBlobMapped'
      BY <3>1 DEF MInv, MapAfterBlobMapped
    <3>4. ASSUME NEW i \in Ids, Unmapped(i)' PROVE MappedFirst(i)'
      <4>1. MappedFirst(i) /\ (Calling(i)' <=> Calling(i))
        BY <3>1, <3>4 DEF MInv, Unmapped, Calling
      <4>2. ASSUME NEW j \in 1..Len(Queue), i \in Queue[j].ids, Queue[j].type # "mapblob", ~Calling(i)
            PROVE  \E k \in 1..(j - 1) : Maps(Queue'[k], i)
        <5>1. PICK k \in 1..(j - 1) : Maps(Queue[k], i)
          BY <4>1, <4>2 DEF MappedFirst
        <5>2. k \in 1..Len(Queue)
          BY <3>2
        <5> QED BY <3>2, <5>1, <5>2
      <4> QED BY <3>1, <3>2, <4>1, <4>2 DEF MappedFirst
    <3> QED BY <3>3, <3>4 DEF MInv
  <2> QED BY <1>1, <2>1, <2>2, MappedHandles, MappedUpdates, MappedCompletes DEF Effect
<1>3. CASE UNCHANGED vars
  <2>1. Queue' = Queue /\ UNCHANGED <<res, act>>
    BY <1>3 DEF vars, Queue
  <2> QED BY <2>1 DEF MInv, MappedFirst, Unmapped, Calling, MapAfterBlobMapped
<1> QED BY <1>2, <1>3

\* It holds throughout.
LEMMA MappedAlways ==
    ASSUME "mapio" \notin Faults, RingSize > MaxInFlight, HostInOrder, \A d, e \in Dpcs : d = e
    PROVE  Spec => []MInv
<1>1. Init => MInv
  <2>1. Init => \A i \in Ids : res[i].st = "none"
    BY DEF Init, NoResource
  <2>2. Init => \A t \in Threads : act[t].pc = "idle"
    BY ThreadIsActor DEF Init, Idle
  <2> QED BY <2>1, <2>2 DEF MInv, Unmapped, MapAfterBlobMapped
<1>2. MInv /\ (IInv /\ NInv) /\ [Next]_vars => MInv'
  BY MappedInductive
<1> QED BY <1>1, <1>2, Naming, PTL DEF Spec

\* With a host that completes in order, one DPC, a ring with a slot for every command in
\* flight and mappings that succeed, "initialize blob resource as busy until map blob callback
\* was completed" (control.c:548) is kept, also against transfers and submissions that name
\* the blob meanwhile.
THEOREM BlobBusyUntilMappedHolds ==
    ASSUME "mapio" \notin Faults, RingSize > MaxInFlight, HostInOrder, \A d, e \in Dpcs : d = e
    PROVE  Spec => []BlobBusyUntilMapped
<1>1. MInv => BlobBusyUntilMapped
  BY DEF MInv, BlobBusyUntilMapped, Unmapped, MappedFirst
<1> QED BY <1>1, MappedAlways, PTL

\* Then CtlMap (control.c:762-785) shares the memory of a resource only once its kernel
\* address is there, whoever has woken it.
THEOREM MapAfterBlobMappedHolds ==
    ASSUME "mapio" \notin Faults, RingSize > MaxInFlight, HostInOrder, \A d, e \in Dpcs : d = e
    PROVE  Spec => []MapAfterBlobMapped
<1>1. MInv => MapAfterBlobMapped
  BY DEF MInv
<1> QED BY <1>1, MappedAlways, PTL

-----------------------------------------------------------------------------
(* The life of a fence.  IInv gives every fence one place, and so a stage; each  *)
(* shape of a step moves at most one fence, and to the next place.              *)

\* Fence f is with a handler, in the ring, or completed and not finished.
Prepared(f) == \E t \in Threads : act[t].cmd.fence = f
Ringed(f) == \E c \in InRing : c.fence = f
Finishing(f) == (\E c \in InUsed : c.fence = f) \/ \E d \in Dpcs : act[d].cmd.fence = f
Nowhere(f) == ~Prepared(f) /\ ~Ringed(f) /\ ~Finishing(f)

\* A fence that is somewhere is nowhere else, has been handed out and is not set.
Single(f) ==
    /\ ~Nowhere(f) => f < nextFence /\ f \notin signalled
    /\ Prepared(f) => ~Ringed(f) /\ ~Finishing(f)
    /\ Ringed(f) => ~Finishing(f)
    /\ \A a, b \in Actors : act[a].cmd.fence = f /\ act[b].cmd.fence = f => a = b
    /\ f \in signalled => f < nextFence
Singles == \A f \in 1..MaxFence : Single(f)

\* The stage FenceLife sees, by where the fence is.
Staged(f) ==
    /\ FenceStage(f) = "unissued" <=> f >= nextFence
    /\ f \in signalled => FenceStage(f) = "signalled"
    /\ Prepared(f) => FenceStage(f) = "preparing"
    /\ Ringed(f) => FenceStage(f) = "queued"
    /\ Finishing(f) => FenceStage(f) = "completed"
    /\ f < nextFence /\ f \notin signalled /\ Nowhere(f) => FenceStage(f) = "lost"
Stages == \A f \in 1..MaxFence : Staged(f)

\* Every fence has one place.
LEMMA SinglesNow == IInv => Singles
<1> SUFFICES ASSUME IInv, NEW f \in 1..MaxFence PROVE Single(f)
  BY DEF Singles
<1>1. FencesFresh /\ f # 0 /\ TypeOK
  BY DEF IInv, Commands
<1>2. ASSUME NEW p \in Places, At(p).fence = f
      PROVE  f < nextFence /\ f \notin signalled /\ \A q \in Places : p # q => At(q).fence # f
  BY <1>1, <1>2 DEF FencesFresh
<1>3. ASSUME NEW a \in Actors PROVE <<"act", a>> \in Places /\ At(<<"act", a>>) = act[a].cmd
  BY AtPlaces
<1>4. ASSUME NEW c \in InRing PROVE \E p \in Places : p[1] = "ring" /\ At(p) = c
  BY <1>4, AtPlaces DEF InRing
<1>5. ASSUME NEW c \in InUsed PROVE \E p \in Places : p[1] = "used" /\ At(p) = c
  BY <1>5, AtPlaces DEF InUsed
<1>6. \A a, b \in Actors : act[a].cmd.fence = f /\ act[b].cmd.fence = f => a = b
  <2>1. SUFFICES ASSUME NEW a \in Actors, NEW b \in Actors, a # b,
                        act[a].cmd.fence = f, act[b].cmd.fence = f
                 PROVE  FALSE
    OBVIOUS
  <2>2. <<"act", a>> # <<"act", b>>
    BY <2>1
  <2> QED BY <1>2, <1>3, <2>1, <2>2
<1>7. ASSUME NEW a \in Actors, act[a].cmd.fence = f
      PROVE  f < nextFence /\ f \notin signalled /\ \A c \in InRing \cup InUsed : c.fence # f
  <2>1. \A p \in Places : p[1] # "act" => p # <<"act", a>>
    OBVIOUS
  <2>2. \A c \in InRing \cup InUsed : \E p \in Places : p[1] # "act" /\ At(p) = c
    BY <1>4, <1>5
  <2>3. /\ f < nextFence /\ f \notin signalled
        /\ \A q \in Places : <<"act", a>> # q => At(q).fence # f
    BY <1>2, <1>3, <1>7
  <2> QED BY <2>1, <2>2, <2>3
<1>8. ASSUME NEW c \in InRing, c.fence = f
      PROVE  f < nextFence /\ f \notin signalled /\ \A e \in InUsed : e.fence # f
  <2>1. PICK p \in Places : p[1] = "ring" /\ At(p) = c
    BY <1>4
  <2>2. /\ f < nextFence /\ f \notin signalled /\ \A q \in Places : p # q => At(q).fence # f
    BY <1>2, <1>8, <2>1
  <2>3. \A q \in Places : q[1] = "used" => p # q
    BY <2>1
  <2> QED BY <1>5, <2>2, <2>3
<1>9. ASSUME NEW c \in InUsed, c.fence = f PROVE f < nextFence /\ f \notin signalled
  BY <1>2, <1>5, <1>9
<1>10. f \in signalled => f < nextFence
  BY <1>1 DEF FencesFresh
<1>11. Prepared(f) => f < nextFence /\ f \notin signalled /\ ~Ringed(f) /\ ~Finishing(f)
  BY <1>6, <1>7, ThreadIsActor, DpcIsActor DEF Prepared, Ringed, Finishing
<1>12. Ringed(f) => f < nextFence /\ f \notin signalled /\ ~Finishing(f)
  BY <1>7, <1>8, DpcIsActor DEF Ringed, Finishing
<1>13. Finishing(f) => f < nextFence /\ f \notin signalled
  BY <1>7, <1>9, DpcIsActor DEF Finishing
<1> QED BY <1>6, <1>10, <1>11, <1>12, <1>13 DEF Single, Nowhere

\* ... and so its stage is known from its place.
LEMMA StagesNow == IInv => Stages
<1> SUFFICES ASSUME IInv, NEW f \in 1..MaxFence PROVE Staged(f)
  BY DEF Stages
<1>1. Single(f)
  BY SinglesNow DEF Singles
<1>2. nextFence \in Nat
  BY DEF IInv, TypeOK
<1>3. FenceStage(f) = IF f >= nextFence THEN "unissued" ELSE IF f \in signalled THEN "signalled"
                      ELSE IF Prepared(f) THEN "preparing" ELSE IF Ringed(f) THEN "queued"
                      ELSE IF Finishing(f) THEN "completed" ELSE "lost"
  BY DEF FenceStage, Prepared, Ringed, Finishing, InRing, InUsed
<1> QED BY <1>1, <1>2, <1>3 DEF Staged, Single, Nowhere

\* The same after a step.
LEMMA StagesThen == IInv' => Singles' /\ Stages'
  BY SinglesNow, StagesNow, PTL

\* A step that does not move fence f.
Same(f) ==
    /\ Prepared(f)' <=> Prepared(f)
    /\ Ringed(f)' <=> Ringed(f)
    /\ Finishing(f)' <=> Finishing(f)
    /\ f \in signalled' <=> f \in signalled
    /\ f >= nextFence' <=> f >= nextFence

\* Its stage stays.
LEMMA SameStage ==
    ASSUME NEW f, Same(f)
    PROVE  FenceStage(f)' = FenceStage(f)
<1>1. FenceStage(f) = IF f >= nextFence THEN "unissued" ELSE IF f \in signalled THEN "signalled"
                      ELSE IF Prepared(f) THEN "preparing" ELSE IF Ringed(f) THEN "queued"
                      ELSE IF Finishing(f) THEN "completed" ELSE "lost"
  BY DEF FenceStage, Prepared, Ringed, Finishing, InRing, InUsed
<1>2. FenceStage(f)' = IF f >= nextFence' THEN "unissued" ELSE IF f \in signalled' THEN "signalled"
                      ELSE IF Prepared(f)' THEN "preparing" ELSE IF Ringed(f)' THEN "queued"
                      ELSE IF Finishing(f)' THEN "completed" ELSE "lost"
  BY DEF FenceStage, Prepared, Ringed, Finishing, InRing, InUsed
<1> QED BY <1>1, <1>2 DEF Same

\* A step that moves no fence changes nothing in FenceLife; one that moves fence f ...
LEMMA LifeStutters ==
    ASSUME \A f \in 1..MaxFence : Same(f)
    PROVE  UNCHANGED [f \in 1..MaxFence |-> FenceStage(f)]
<1>1. \A f \in 1..MaxFence : FenceStage(f)' = FenceStage(f)
  BY SameStage
<1> QED BY <1>1

\* ... moves it in FenceLife.
LEMMA LifeAdvances ==
    ASSUME NEW f \in 1..MaxFence, \A g \in 1..MaxFence : g # f => Same(g), NEW from, NEW to,
           FenceStage(f) = from, FenceStage(f)' = to
    PROVE  Life!Advance(f, from, to)
<1>1. \A g \in 1..MaxFence : g # f => FenceStage(g)' = FenceStage(g)
  BY SameStage
<1> QED BY <1>1 DEF Life!Advance

\* A step of FenceLife, or none.
LifeStep == Life!Next \/ UNCHANGED [f \in 1..MaxFence |-> FenceStage(f)]

\* A fence that is queued, dropped, completed or set, while the others stay.
LEMMA LifeAdvance ==
    ASSUME NEW f \in 1..MaxFence, \A g \in 1..MaxFence : g # f => Same(g),
           \/ FenceStage(f) = "preparing" /\ FenceStage(f)' = "queued"
           \/ FenceStage(f) = "preparing" /\ FenceStage(f)' = "lost" /\ SubmissionsCanFail
           \/ FenceStage(f) = "queued" /\ FenceStage(f)' = "completed"
           \/ FenceStage(f) = "completed" /\ FenceStage(f)' = "signalled"
    PROVE  LifeStep
<1>1. \/ Life!Advance(f, "preparing", "queued")
      \/ Life!Advance(f, "preparing", "lost") /\ SubmissionsCanFail
      \/ Life!Advance(f, "queued", "completed")
      \/ Life!Advance(f, "completed", "signalled")
  BY LifeAdvances
<1>2. Life!Queue(f) \/ Life!Complete(f) \/ Life!Signal(f)
  BY <1>1 DEF Life!Queue, Life!Complete, Life!Signal
<1> QED BY <1>2 DEF LifeStep, Life!Next

\* Actor a goes on with fence k, and the others with theirs.
Carries(a, k) ==
    /\ act'[a].cmd.fence = k
    /\ \A b \in Actors \ {a} : act'[b].cmd.fence = act[b].cmd.fence

\* The others keep their fences: those that are woken have none.
LEMMA CarriesOn ==
    ASSUME IInv, NEW a \in Actors, NEW r, r \in Activity, ActorOK(a, r), ActStep(a, r)
    PROVE  Carries(a, r.cmd.fence)
<1>1. ASSUME NEW b, NEW x, x \in Activity, NEW y, ActorOK(b, x), Woken(x, y)
      PROVE  y.cmd.fence = x.cmd.fence
  <2>1. CASE x.pc = "wait" /\ y = Idle
    BY <1>1, <2>1 DEF ActorOK, Idle, Mapping
  <2>2. CASE x.pc = "mapwait" /\ y = [x EXCEPT !.pc = "mapshare"]
    BY <1>1, <2>2 DEF Activity
  <2> QED BY <1>1, <2>1, <2>2 DEF Woken
<1>2. \A b \in Actors : act[b] \in Activity /\ ActorOK(b, act[b])
  BY ActorTyped
<1> QED BY <1>1, <1>2 DEF ActStep, Carries

\* What an actor's step leaves of the fences it does not carry.
LEMMA SameElsewhere ==
    ASSUME NEW a \in Actors, NEW k, Carries(a, k), NEW g \in 1..MaxFence,
           (g # k /\ g # act[a].cmd.fence) \/ k = act[a].cmd.fence,
           Ringed(g)' <=> Ringed(g), (\E c \in InUsed' : c.fence = g) <=> (\E c \in InUsed : c.fence = g),
           g \in signalled' <=> g \in signalled, g >= nextFence' <=> g >= nextFence
    PROVE  Same(g)
<1>1. \A b \in Actors : act'[b].cmd.fence = g <=> act[b].cmd.fence = g
  BY DEF Carries
<1>2. Prepared(g)' <=> Prepared(g)
  BY <1>1, ThreadIsActor DEF Prepared
<1>3. Finishing(g)' <=> Finishing(g)
  BY <1>1, DpcIsActor DEF Finishing
<1> QED BY <1>2, <1>3 DEF Same

\* A step that leaves the queue as it is, but for commands without a fence, moves no fence.
LEMMA LifeQuiet ==
    ASSUME NEW a \in Actors, Carries(a, act[a].cmd.fence), UNCHANGED <<used, signalled, nextFence>>,
           InRing \subseteq InRing', InRing' \subseteq InRing \cup {Other}
    PROVE  LifeStep
<1>1. ASSUME NEW g \in 1..MaxFence PROVE Same(g)
  <2>1. Other.fence = 0 /\ g # 0
    BY DEF Other
  <2>2. Ringed(g)' <=> Ringed(g)
    BY <2>1 DEF Ringed
  <2>3. InUsed' = InUsed
    BY DEF InUsed
  <2> QED BY <2>2, <2>3, SameElsewhere
<1> QED BY <1>1, LifeStutters DEF LifeStep

\* The DPC sets the fence object of a completed command.
LEMMA LifeFinish ==
    ASSUME IInv, IInv', NEW d \in Dpcs, FinishCommand(d)
    PROVE  LifeStep
<1>0. PICK f : f = act[d].cmd.fence
  OBVIOUS
<1>1. /\ d \in Actors /\ To(d, Idle) /\ UNCHANGED <<ring, used, nextFence>>
      /\ signalled' = signalled \cup ({f} \ {0})
  BY <1>0, DpcIsActor DEF FinishCommand
<1>2. f \in Fences
  BY <1>0, <1>1, ActorTyped DEF Activity, Command
<1>3. Carries(d, 0)
  <2>1. ActStep(d, Idle) /\ Idle.cmd.fence = 0
    BY <1>1, IdleOK, StepTo DEF IInv, Idle, Other
  <2> QED BY <1>1, <2>1, IdleOK, CarriesOn
<1>4. InRing' = InRing /\ InUsed' = InUsed
  BY <1>1 DEF InRing, InUsed
<1>5. Finishing(f)
  BY <1>0 DEF Finishing
<1>6. ASSUME NEW g \in 1..MaxFence, g # f PROVE Same(g)
  <2>1. Ringed(g)' <=> Ringed(g)
    BY <1>4 DEF Ringed
  <2> QED BY <1>0, <1>1, <1>3, <1>4, <1>6, <2>1, SameElsewhere
<1>7. CASE f = 0
  BY <1>6, <1>7, LifeStutters DEF LifeStep
<1>8. CASE f # 0
  <2>1. f \in 1..MaxFence
    BY <1>2, <1>8, ConstAssumption DEF Fences
  <2>2. FenceStage(f) = "completed"
    BY <1>5, <2>1, StagesNow DEF Stages, Staged
  <2>3. f \in signalled'
    BY <1>1, <1>8
  <2>4. FenceStage(f)' = "signalled"
    BY <2>1, <2>3, StagesThen DEF Stages, Staged
  <2> QED BY <1>6, <2>1, <2>2, <2>4, LifeAdvance
<1> QED BY <1>7, <1>8

\* The host completes a command.
LEMMA LifeHost ==
    ASSUME IInv, IInv', HostComplete
    PROVE  LifeStep
<1>1. TypeOK /\ UNCHANGED <<act, signalled, nextFence>>
  BY DEF IInv, HostComplete
<1>2. PICK c \in InRing : InRing = InRing' \cup {c} /\ InUsed' = InUsed \cup {c}
  BY <1>1, QueuedHost
<1>3. c.fence \in Fences
  <2>1. PICK j \in 1..Len(ring) : c = ring[j]
    BY DEF InRing
  <2>2. ring[j] \in Command
    BY <1>1 DEF TypeOK
  <2> QED BY <2>1, <2>2 DEF Command
<1>4. ASSUME NEW g \in 1..MaxFence, g # c.fence PROVE Same(g)
  <2>1. Ringed(g)' <=> Ringed(g)
    BY <1>2, <1>4 DEF Ringed
  <2>2. Prepared(g)' <=> Prepared(g)
    BY <1>1 DEF Prepared
  <2>3. Finishing(g)' <=> Finishing(g)
    BY <1>1, <1>2, <1>4 DEF Finishing
  <2> QED BY <1>1, <2>1, <2>2, <2>3 DEF Same
<1>5. CASE c.fence = 0
  BY <1>4, <1>5, LifeStutters DEF LifeStep
<1>6. CASE c.fence # 0
  <2> DEFINE f == c.fence
  <2>1. f \in 1..MaxFence
    BY <1>3, <1>6, ConstAssumption DEF Fences
  <2>2. Ringed(f) /\ Finishing(f)'
    BY <1>2 DEF Ringed, Finishing
  <2>3. FenceStage(f) = "queued"
    BY <2>1, <2>2, StagesNow DEF Stages, Staged
  <2>4. FenceStage(f)' = "completed"
    BY <2>1, <2>2, StagesThen DEF Stages, Staged
  <2> QED BY <1>4, <2>1, <2>3, <2>4, LifeAdvance
<1> QED BY <1>5, <1>6

\* A DPC fetches a completed command: its fence stays completed.
LEMMA LifeReads ==
    ASSUME IInv, NEW d \in Dpcs, NEW r, Reads(d, r), UNCHANGED signalled
    PROVE  LifeStep
<1>1. /\ TypeOK /\ d \in Actors /\ act[d].pc = "idle" /\ used # <<>> /\ used' = Tail(used)
      /\ r \in Activity /\ ActorOK(d, r) /\ To(d, r) /\ UNCHANGED <<ring, nextFence>>
      /\ r.cmd = Head(used) \/ (r.cmd = Other /\ Head(used) = Other)
  BY DpcIsActor DEF Reads, IInv, Idle
<1>2. Carries(d, r.cmd.fence)
  BY <1>1, StepTo, CarriesOn
<1>3. act[d].cmd.fence = 0 /\ Other.fence = 0 /\ r.cmd.fence = Head(used).fence
  BY <1>1, Unburdened DEF Other
<1>4. InRing' = InRing /\ InUsed = InUsed' \cup {Head(used)}
  BY <1>1, QueuedRead
<1>5. PICK c : c = Head(used)
  OBVIOUS
<1>6. ASSUME NEW g \in 1..MaxFence PROVE Same(g)
  <2>1. Ringed(g)' <=> Ringed(g)
    BY <1>4 DEF Ringed
  <2>2. \A b \in Actors : act'[b].cmd.fence = IF b = d THEN c.fence ELSE act[b].cmd.fence
    BY <1>2, <1>3, <1>5 DEF Carries
  <2>3. Prepared(g)' <=> Prepared(g)
    BY <2>2, ThreadIsActor, DpcIsActor DEF Prepared
  <2>4. Finishing(g)' <=> Finishing(g)
    <3>1. InUsed = InUsed' \cup {c} /\ act[d].cmd.fence # g
      BY <1>3, <1>4, <1>5
    <3> QED BY <2>2, <3>1, DpcIsActor DEF Finishing
  <2> QED BY <1>1, <2>1, <2>3, <2>4 DEF Same
<1> QED BY <1>6, LifeStutters DEF LifeStep

\* A handler takes a fence id, and may fail at once.
LEMMA LifeTakes ==
    ASSUME IInv, IInv', NEW t \in Threads, NEW r, NEW b, Takes(t, r, b), UNCHANGED signalled
    PROVE  LifeStep
<1>1. /\ t \in Actors /\ r \in Activity /\ ActorOK(t, r) /\ To(t, r) /\ act[t].pc = "alloc" /\ TypeOK
      /\ UNCHANGED <<ring, used>>
  BY ThreadIsActor DEF Takes, IInv
<1>2. Carries(t, r.cmd.fence) /\ act[t].cmd.fence = 0
  BY <1>1, StepTo, CarriesOn, Unburdened
<1>3. InRing' = InRing /\ InUsed' = InUsed
  BY <1>1 DEF InRing, InUsed
<1>4. PICK f : f = nextFence
  OBVIOUS
<1>5. f \in Nat /\ Idle.cmd.fence = 0 /\ f # 0
  BY <1>1, <1>4 DEF TypeOK, Idle, Other
<1>6. CASE nextFence' = f
  <2>1. r.cmd.fence = 0
    BY <1>4, <1>5, <1>6 DEF Takes
  <2> QED BY <1>1, <1>2, <1>3, <1>4, <1>6, <2>1, LifeQuiet
<1>7. CASE nextFence' = f + 1
  <2>1. f \in 1..MaxFence
    BY <1>5, <1>7, ConstAssumption DEF IInv, TypeOK
  <2>2. r.cmd.fence = f \/ (r.cmd.fence = 0 /\ "probe" \in Faults)
    BY <1>4, <1>5, <1>7 DEF Takes
  <2>3. Staged(f) /\ Single(f) /\ Staged(f)'
    BY <2>1, SinglesNow, StagesNow, StagesThen DEF Singles, Stages
  <2>4. FenceStage(f) = "unissued" /\ f \notin signalled /\ Nowhere(f)
    BY <1>4, <1>5, <2>3 DEF Staged, Single
  <2>5. ASSUME NEW g \in 1..MaxFence, g # f PROVE Same(g)
    <3>1. Ringed(g)' <=> Ringed(g)
      BY <1>3 DEF Ringed
    <3>2. g >= nextFence' <=> g >= nextFence
      BY <1>4, <1>5, <1>7, <2>5
    <3>3. g # r.cmd.fence /\ g # act[t].cmd.fence
      BY <1>2, <2>2, <2>5
    <3> QED BY <1>1, <1>2, <1>3, <3>1, <3>2, <3>3, SameElsewhere
  <2>6. \A g \in 1..MaxFence : g < f => FenceStage(g) # "unissued"
    <3>1. SUFFICES ASSUME NEW g \in 1..MaxFence, g < f PROVE ~(g >= nextFence)
      BY StagesNow DEF Stages, Staged
    <3> QED BY <1>4, <1>5, <3>1
  <2>7. CASE r.cmd.fence = f
    <3>1. Prepared(f)'
      BY <1>2, <2>7 DEF Prepared, Carries
    <3>2. FenceStage(f)' = "preparing"
      BY <2>3, <3>1 DEF Staged
    <3>3. Life!Advance(f, "unissued", "preparing")
      BY <2>1, <2>4, <2>5, <3>2, LifeAdvances
    <3>4. Life!Issue(f)
      BY <2>6, <3>3 DEF Life!Issue
    <3> QED BY <2>1, <3>4 DEF LifeStep, Life!Next
  <2>8. CASE r.cmd.fence = 0 /\ "probe" \in Faults
    <3>1. \A a \in Actors : act'[a].cmd.fence = act[a].cmd.fence
      BY <1>2, <2>8 DEF Carries
    <3>2. Nowhere(f)'
      BY <1>3, <2>4, <3>1, ThreadIsActor, DpcIsActor DEF Nowhere, Prepared, Ringed, Finishing
    <3>3. FenceStage(f)' = "lost"
      BY <1>5, <1>7, <2>3, <2>4, <3>2 DEF Staged
    <3>4. Life!Advance(f, "unissued", "lost")
      BY <2>1, <2>4, <2>5, <3>3, LifeAdvances
    <3>5. SubmissionsCanFail
      BY <2>8 DEF SubmissionsCanFail
    <3>6. Life!Issue(f)
      BY <2>6, <3>4, <3>5 DEF Life!Issue
    <3> QED BY <2>1, <3>6 DEF LifeStep, Life!Next
  <2> QED BY <2>2, <2>7, <2>8
<1> QED BY <1>4, <1>6, <1>7 DEF Takes

\* A handler pushes its command, or finds no room or no memory for the copy of the handles.
LEMMA LifePushes ==
    ASSUME IInv, IInv', NInv, NEW t \in Threads, Pushes(t), UNCHANGED signalled
    PROVE  LifeStep
<1>1. /\ t \in Actors /\ TypeOK /\ To(t, Idle) /\ act[t].pc \in {"push", "update"}
      /\ UNCHANGED <<used, nextFence>>
  BY ThreadIsActor DEF Pushes, IInv
<1>2. Carries(t, 0)
  <2>1. Idle.cmd.fence = 0
    BY DEF Idle, Other
  <2> QED BY <1>1, <2>1, IdleOK, StepTo, CarriesOn
<1>3. PICK c : c = act[t].cmd
  OBVIOUS
<1>4. c \in Command /\ c.fence \in Fences
  BY <1>1, <1>3, ActorTyped DEF Activity, Command
<1>5. InUsed' = InUsed
  BY <1>1 DEF InUsed
<1>6. \/ InRing' = InRing \cup {c}
      \/ InRing' = InRing /\ SubmissionsCanFail
  <2>1. CASE ring' = Append(ring, c)
    BY <1>1, <1>4, <2>1, QueuedPush
  <2>2. CASE ring' = ring /\ (Room > 0 => "pool" \in Faults)
    <3>1. InRing' = InRing
      BY <2>2 DEF InRing
    <3>2. ASSUME ~(RingSize <= MaxInFlight) PROVE "pool" \in Faults
      <4>1. RingSize > MaxInFlight
        BY <3>2, ConstAssumption
      <4> QED BY <1>1, <2>2, <4>1, RoomToPush DEF NInv
    <3> QED BY <3>1, <3>2 DEF SubmissionsCanFail
  <2> QED BY <1>3, <2>1, <2>2 DEF Pushes
<1>7. ASSUME NEW g \in 1..MaxFence, g # c.fence PROVE Same(g)
  <2>1. Ringed(g)' <=> Ringed(g)
    BY <1>6, <1>7 DEF Ringed
  <2> QED BY <1>1, <1>2, <1>3, <1>5, <1>7, <2>1, SameElsewhere
<1>8. CASE c.fence = 0
  BY <1>7, <1>8, LifeStutters DEF LifeStep
<1>9. CASE c.fence # 0
  <2> DEFINE f == c.fence
  <2>1. f \in 1..MaxFence
    BY <1>4, <1>9, ConstAssumption DEF Fences
  <2> HIDE DEF f
  <2>2. Staged(f) /\ Single(f) /\ Staged(f)'
    BY <2>1, SinglesNow, StagesNow, StagesThen DEF Singles, Stages
  <2>3. Prepared(f)
    BY <1>3 DEF Prepared, f
  <2>4. FenceStage(f) = "preparing"
    BY <2>2, <2>3 DEF Staged
  <2>5. CASE InRing' = InRing \cup {c}
    <3>1. Ringed(f)'
      BY <2>5 DEF Ringed, f
    <3>2. FenceStage(f)' = "queued"
      BY <2>2, <3>1 DEF Staged
    <3> QED BY <1>7, <2>1, <2>4, <3>2, LifeAdvance DEF f
  <2>6. CASE InRing' = InRing /\ SubmissionsCanFail
    <3>1. f \notin signalled /\ f < nextFence /\ ~Ringed(f) /\ ~Finishing(f)
      BY <2>2, <2>3 DEF Single, Nowhere
    <3>2. \A a \in Actors : act'[a].cmd.fence # f
      <4>1. act[t].cmd.fence = f /\ f # 0
        BY <1>3, <1>9 DEF f
      <4>2. \A a \in Actors \ {t} : act[a].cmd.fence # f
        BY <1>1, <2>2, <4>1 DEF Single
      <4> QED BY <1>2, <4>1, <4>2 DEF Carries
    <3>3. Nowhere(f)'
      BY <1>5, <2>6, <3>1, <3>2, ThreadIsActor, DpcIsActor DEF Nowhere, Prepared, Ringed, Finishing
    <3>4. FenceStage(f)' = "lost"
      BY <1>1, <2>2, <3>1, <3>3 DEF Staged
    <3> QED BY <1>7, <2>1, <2>4, <2>6, <3>4, LifeAdvance DEF f
  <2> QED BY <1>6, <2>5, <2>6
<1> QED BY <1>8, <1>9

\* Everything else leaves the fences where they are.
LEMMA LifeHandles ==
    ASSUME IInv, IInv', NInv, NEW t \in Threads, Handles(t), UNCHANGED signalled
    PROVE  LifeStep
<1>1. t \in Actors /\ TypeOK
  BY ThreadIsActor DEF IInv
<1>2. ASSUME NEW r, Aside(t, r) PROVE LifeStep
  <2>1. r \in Activity /\ ActorOK(t, r) /\ To(t, r) /\ UNCHANGED <<ring, used, nextFence>> /\ r.cmd.fence = 0
    BY <1>2 DEF Aside
  <2>2. act[t].cmd.fence = 0
    BY <1>1, <1>2, Unburdened DEF Aside, Working
  <2>3. Carries(t, act[t].cmd.fence)
    BY <1>1, <2>1, <2>2, StepTo, CarriesOn
  <2>4. InRing' = InRing
    BY <2>1 DEF InRing
  <2> QED BY <1>1, <2>1, <2>3, <2>4, LifeQuiet
<1>3. ASSUME NEW r, Creates(t, r) PROVE LifeStep
  <2>1. /\ r \in Activity /\ ActorOK(t, r) /\ ActStep(t, r) /\ UNCHANGED <<used, nextFence>>
        /\ ring' \in {ring, Append(ring, Other), ring \o <<Other, Other>>}
        /\ r.cmd.fence = 0 \/ r = act[t]
    BY <1>3 DEF Creates
  <2>2. act[t].cmd.fence = 0
    BY <1>1, <1>3, Unburdened DEF Creates
  <2>3. Carries(t, act[t].cmd.fence)
    BY <1>1, <2>1, <2>2, CarriesOn
  <2>4. InRing \subseteq InRing' /\ InRing' \subseteq InRing \cup {Other}
    BY <1>1, <2>1, QueuedCreate
  <2> QED BY <1>1, <2>1, <2>3, <2>4, LifeQuiet
<1>4. ASSUME NEW r, NEW i \in Ids, Transfers(t, r, i) PROVE LifeStep
  <2>1. /\ r \in Activity /\ ActorOK(t, r) /\ ActStep(t, r) /\ UNCHANGED <<ring, used, nextFence>>
        /\ r.cmd.fence = 0
    BY <1>4 DEF Transfers
  <2>2. act[t].cmd.fence = 0
    BY <1>1, <1>4, Unburdened DEF Transfers
  <2>3. Carries(t, act[t].cmd.fence)
    BY <1>1, <2>1, <2>2, CarriesOn
  <2>4. InRing' = InRing
    BY <2>1 DEF InRing
  <2> QED BY <1>1, <2>1, <2>3, <2>4, LifeQuiet
<1> QED BY <1>2, <1>3, <1>4, LifeTakes, LifePushes DEF Handles

\* So does UpdateResourceState, ...
LEMMA LifeUpdates ==
    ASSUME IInv, NEW a \in Actors, NEW i \in Ids, NEW r, Updates(a, r, i), UNCHANGED signalled
    PROVE  LifeStep
<1>1. /\ r \in Activity /\ ActorOK(a, r) /\ ActStep(a, r) /\ UNCHANGED <<ring, used, nextFence>>
      /\ r.cmd = act[a].cmd
  BY DEF Updates
<1>2. Carries(a, act[a].cmd.fence)
  BY <1>1, CarriesOn
<1>3. InRing' = InRing
  BY <1>1 DEF InRing
<1> QED BY <1>1, <1>2, <1>3, LifeQuiet

\* ... and the callback of a blob.
LEMMA LifeCalls ==
    ASSUME IInv, NEW d \in Dpcs, NEW i \in Ids, Calls(d, i), UNCHANGED signalled
    PROVE  LifeStep
<1>1. d \in Actors /\ act[d].pc = "callback" /\ ActStep(d, Idle) /\ UNCHANGED <<ring, used, nextFence>>
  BY DpcIsActor DEF Calls
<1>2. act[d].cmd.fence = 0 /\ Idle.cmd.fence = 0
  BY <1>1, Unburdened DEF Idle, Other
<1>3. Carries(d, act[d].cmd.fence)
  BY <1>1, <1>2, IdleOK, CarriesOn
<1>4. InRing' = InRing
  BY <1>1 DEF InRing
<1> QED BY <1>1, <1>3, <1>4, LifeQuiet

\* Only the end of the DPC sets a fence object.
LEMMA OnlyFinishSignals ==
    ASSUME Next
    PROVE  UNCHANGED signalled \/ \E d \in Dpcs : FinishCommand(d)
<1>1. ASSUME NEW a, UpdateResourceState(a) PROVE UNCHANGED signalled
  BY <1>1 DEF UpdateResourceState, UpdateCompare, UpdateWrite, UpdateEvent
<1>2. ASSUME NEW t, Start(t) PROVE UNCHANGED signalled
  BY <1>2 DEF Start, CtlCreateResource, CtlCreateBlobResource, CtlTransferHost, CtlWait, CtlMap,
              CtlSubmitCommand
<1>3. ASSUME NEW t, Continue(t) PROVE UNCHANGED signalled
  BY <1>1, <1>3 DEF Continue, MapBlobResource, TransferHost3D, WaitInFence, TakeCommandBuffer,
                    SubmitCommand, MapShare, MapUser
<1>4. ASSUME NEW d, Dpc(d) PROVE UNCHANGED signalled \/ FinishCommand(d)
  BY <1>1, <1>4 DEF Dpc, ReadFromQueue, MapBlobResourceCallback
<1> QED BY <1>2, <1>3, <1>4 DEF Next, HostComplete

\* Every step of the driver and of the host is a step of FenceLife, or none.
LEMMA LifeSteps ==
    ASSUME IInv, NInv, [Next]_vars
    PROVE  [Life!Next]_([f \in 1..MaxFence |-> FenceStage(f)])
<1>1. IInv'
  BY Inductive
<1>2. CASE Next
  <2>1. CASE \E d \in Dpcs : FinishCommand(d)
    BY <1>1, <2>1, LifeFinish DEF LifeStep
  <2>2. CASE UNCHANGED signalled
    <3>1. ASSUME NEW d \in Dpcs, Completes(d) PROVE LifeStep
      BY <1>1, <2>2, <3>1, LifeFinish, LifeReads, LifeCalls DEF Completes
    <3>2. ASSUME NEW t \in Threads, Handles(t) PROVE LifeStep
      BY <1>1, <2>2, <3>2, LifeHandles
    <3>3. Effect
      BY <1>2, Effects
    <3>4. LifeStep
      BY <1>1, <2>2, <3>1, <3>2, <3>3, LifeUpdates, LifeHost DEF Effect
    <3> QED BY <3>4 DEF LifeStep
  <2> QED BY <1>2, <2>1, <2>2, OnlyFinishSignals
<1>3. CASE UNCHANGED vars
  BY <1>3 DEF vars, FenceStage
<1> QED BY <1>2, <1>3

\* The driver implements FenceLife, with any number of handlers and DPCs and any order of
\* completions: CtlSubmitCommand (control.c:846-975) hands fence ids out in order, each to one
\* command, which is queued, completed and then has its object set (vgpu.c:89) once; a
\* submission is dropped only where a call can fail or the ring is too small for the load.
THEOREM ImplementsFenceLife == Spec => FenceLifeSpec
<1>1. Init => Life!Init
  <2> SUFFICES ASSUME Init PROVE Life!Init
    OBVIOUS
  <2>1. \A f \in 1..MaxFence : FenceStage(f) = "unissued"
    BY DEF Init, FenceStage
  <2> QED BY <2>1 DEF Life!Init
<1>2. (IInv /\ NInv) /\ [Next]_vars => [Life!Next]_([f \in 1..MaxFence |-> FenceStage(f)])
  BY LifeSteps
<1> QED BY <1>1, <1>2, Naming, PTL DEF Spec, FenceLifeSpec, Life!Spec
=============================================================================
