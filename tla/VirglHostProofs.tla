--------------------------- MODULE VirglHostProofs ---------------------------
(***************************************************************************)
(* What VirglLifetime promises about the host, for every number of processes, *)
(* threads, blocks, resources and slots, as long as no full queue has refused  *)
(* a command.                                                                *)
(*                                                                           *)
(* The argument.  A resource goes through the stages create, attach or map,    *)
(* detach or unmap, unref.  Its state and the position of its holder tell how  *)
(* many of them the driver has pushed (Pushed); the queue holds the last of     *)
(* these in order, and the host has made the others (QueueOK, HostOK).  So the  *)
(* first command always finds its resource in the stage before.  A block that   *)
(* is attached anew was free, hence its former resource has pushed its detach,  *)
(* which is in the queue before the attach (DetachedBefore, DetachedBetween).   *)
(* A context command is pushed while its process is alone, so the last one      *)
(* about a process tells whether it has a context (HostContext).               *)
(***************************************************************************)
EXTENDS VirglLifetimeProofs

-----------------------------------------------------------------------------
(* The invariant of the host, as long as no push is lost.                    *)

\* The commands about a resource, in the order DeleteResource and its makers push them.
Stage(op) ==
    CASE op = "create" -> 1
      [] op \in {"attach", "map"} -> 2
      [] op \in {"detach", "unmap"} -> 3
      [] op = "unref" -> 4
Steps(i) == IF res[i].kind = "plain" THEN {1, 4} ELSE 1..4

\* How far the driver is with resource i.
At(i, pcs) == \E t \in Threads : act[t].res = i /\ act[t].pc \in pcs
Pushed(i) ==
    CASE res[i].st = "none" -> 0
      [] res[i].st = "new" -> IF res[i].kind = "buffer" /\ At(i, {"insert"}) THEN 2 ELSE 1
      [] res[i].st \in {"known", "closing"} -> IF At(i, {"free", "unref"}) THEN 3 ELSE 2
      [] res[i].st = "dead" -> 4

\* Stage k of resource i is in the queue, or behind the host.
Is(p, i, k) == p \in DOMAIN command /\ command[p].id = i /\ Stage(command[p].op) = k
Waits(i, k) == \E p \in DOMAIN command : Is(p, i, k)
Done(i, k) == k <= Pushed(i) /\ ~Waits(i, k)

\* The queue holds the last stages the driver pushed, and the host has made the others.
QueueOK(i) ==
    \A k \in 1..4 : Waits(i, k) =>
        /\ k \in Steps(i) /\ k <= Pushed(i)
        /\ \A l \in Steps(i) : k <= l /\ l <= Pushed(i) => Waits(i, l)
HostOK(i) ==
    /\ hres[i].there <=> Done(i, 1) /\ ~Done(i, 4)
    /\ hres[i].back # NoBlock <=> res[i].kind = "buffer" /\ Done(i, 2) /\ ~Done(i, 3)
    /\ hres[i].mapped <=> res[i].kind = "blob" /\ Done(i, 2) /\ ~Done(i, 3)

\* The commands about one resource are in the order of their stages, and fit its kind.
InOrder ==
    \A p, q \in DOMAIN command :
        p < q /\ command[p].id = command[q].id => Stage(command[p].op) < Stage(command[q].op)
Fitting ==
    \A p \in DOMAIN command :
        /\ command[p].op \in {"attach", "detach"} => res[command[p].id].kind = "buffer"
        /\ command[p].op \in {"map", "unmap"} => res[command[p].id].kind = "blob"

Stages == InOrder /\ Fitting /\ \A i \in Ids : QueueOK(i) /\ HostOK(i)

\* The block the host has, or will have, of a resource is the one the driver gave it.
SameBlock(i) ==
    /\ hres[i].back # NoBlock => res[i].blk \in {NoBlock, hres[i].back}
    /\ \A p \in DOMAIN command : command[p].id = i /\ command[p].op = "attach" =>
          command[p].blk # NoBlock /\ res[i].blk \in {NoBlock, command[p].blk}

\* Before a block is attached to a resource, it is detached from the one that had it.
DetachedBefore ==
    \A i, j \in Ids, p \in DOMAIN command :
        i # j /\ command[p].id = i /\ command[p].op = "attach" /\ hres[j].back = command[p].blk
           => \E q \in DOMAIN command : q < p /\ Is(q, j, 3)
DetachedBetween ==
    \A i, j \in Ids, p, q \in DOMAIN command :
        i # j /\ p < q /\ command[p].id = i /\ command[p].op = "attach" /\ command[q].id = j
        /\ command[q].op = "attach" /\ command[p].blk = command[q].blk
           => \E r \in DOMAIN command : p < r /\ r < q /\ Is(r, i, 3)

Backings ==
    /\ \A i, j \in Ids : i # j /\ hres[i].back # NoBlock => hres[i].back # hres[j].back
    /\ DetachedBefore /\ DetachedBetween
    /\ \A i \in Ids : SameBlock(i)

\* The last context command about a process tells whether it has a context.
Expected(p) == HasContext(p) /\ \A t \in Threads : Proc[t] = p => act[t].pc # "ctxcreate"
HostContext(p) ==
    /\ (\A k \in DOMAIN control : control[k].proc # p) => (p \in hctx <=> Expected(p))
    /\ \A k \in DOMAIN control :
          control[k].proc = p /\ (\A l \in DOMAIN control : k < l => control[l].proc # p)
             => (control[k].op = "create" <=> Expected(p))

HostContexts == \A p \in Procs : HostContext(p)

HInv == ~lost => Stages /\ Backings /\ HostContexts
-----------------------------------------------------------------------------
(* How far the driver and the host are with a resource.                      *)

Ops == {"create", "attach", "map", "detach", "unmap", "unref"}

\* The stages are one to four.
LEMMA StageOf ==
    /\ Stage("create") = 1 /\ Stage("attach") = 2 /\ Stage("map") = 2 /\ Stage("detach") = 3
    /\ Stage("unmap") = 3 /\ Stage("unref") = 4
    /\ \A op \in Ops : /\ Stage(op) \in 1..4
                       /\ Stage(op) = 1 <=> op = "create"
                       /\ Stage(op) = 2 <=> op \in {"attach", "map"}
                       /\ Stage(op) = 3 <=> op \in {"detach", "unmap"}
                       /\ Stage(op) = 4 <=> op = "unref"
<1>1. /\ Stage("create") = 1 /\ Stage("attach") = 2 /\ Stage("map") = 2 /\ Stage("detach") = 3
      /\ Stage("unmap") = 3 /\ Stage("unref") = 4
  BY DEF Stage
<1> QED BY <1>1 DEF Ops

\* The commands in the queue are about resources, and have a stage.
LEMMA CommandsTyped ==
    Types => /\ DOMAIN command = 1..Len(command) /\ Len(command) \in Nat
              /\ \A p \in DOMAIN command :
                    /\ command[p].id \in Ids /\ command[p].op \in Ops /\ Stage(command[p].op) \in 1..4
                    /\ command[p].blk \in Blocks \cup {NoBlock}
<1>1. SUFFICES ASSUME Types
               PROVE  /\ DOMAIN command = 1..Len(command) /\ Len(command) \in Nat
                      /\ \A p \in DOMAIN command :
                            /\ command[p].id \in Ids /\ command[p].op \in Ops
                            /\ Stage(command[p].op) \in 1..4 /\ command[p].blk \in Blocks \cup {NoBlock}
  OBVIOUS
<1>2. command \in Seq(ResourceCommand)
  BY <1>1 DEF Types, ResourceCommand
<1>3. \A p \in DOMAIN command : command[p] \in ResourceCommand
  BY <1>2
<1>4. \A x \in ResourceCommand : x.id \in Ids /\ x.op \in Ops /\ x.blk \in Blocks \cup {NoBlock}
  BY DEF ResourceCommand, Ops
<1> QED BY <1>2, <1>3, <1>4, StageOf

\* What is pushed of resource i, by its state and by where its holder is.
PushedAs(i) ==
    /\ Pushed(i) \in 0..4
    /\ res[i].st = "none" => Pushed(i) = 0
    /\ res[i].st = "dead" => Pushed(i) = 4
    /\ res[i].st \in {"known", "closing"} => Pushed(i) \in {2, 3}
    /\ res[i].st = "new" => Pushed(i) \in {1, 2}
    /\ \A t \in Threads : act[t].res = i =>
          /\ act[t].pc \in {"alloc", "attach", "mapblob"} => Pushed(i) = 1
          /\ act[t].pc = "insert" /\ res[i].kind = "buffer" => Pushed(i) = 2
          /\ act[t].pc = "insert" /\ res[i].kind # "buffer" => Pushed(i) = 1
          /\ act[t].pc \in {"remove", "detach"} => Pushed(i) = 2
          /\ act[t].pc \in {"free", "unref"} => Pushed(i) = 3
    /\ (\A t \in Threads : act[t].res # i) =>
          /\ res[i].st = "new" => Pushed(i) = 1
          /\ res[i].st \in {"known", "closing"} => Pushed(i) = 2

\* Where its holder is tells how far the driver is with a resource.
LEMMA PushedValues == DInv => \A i \in Ids : PushedAs(i)
<1>1. SUFFICES ASSUME DInv, NEW i \in Ids PROVE PushedAs(i)
  OBVIOUS
<1>2. res[i].st \in {"none", "new", "known", "closing", "dead"} /\ i # 0
  BY <1>1, Values DEF DInv, Types, Resource
<1>3. /\ res[i].st = "none" => Pushed(i) = 0
      /\ res[i].st = "dead" => Pushed(i) = 4
      /\ res[i].st = "new" => Pushed(i) = IF res[i].kind = "buffer" /\ At(i, {"insert"}) THEN 2 ELSE 1
      /\ res[i].st \in {"known", "closing"} => Pushed(i) = IF At(i, {"free", "unref"}) THEN 3 ELSE 2
  BY DEF Pushed
<1>4. Pushed(i) \in 0..4
  BY <1>2, <1>3
<1>5. ASSUME NEW t \in Threads, act[t].res = i
      PROVE  /\ act[t].pc \in {"alloc", "attach", "mapblob"} => Pushed(i) = 1
             /\ act[t].pc = "insert" /\ res[i].kind = "buffer" => Pushed(i) = 2
             /\ act[t].pc = "insert" /\ res[i].kind # "buffer" => Pushed(i) = 1
             /\ act[t].pc \in {"remove", "detach"} => Pushed(i) = 2
             /\ act[t].pc \in {"free", "unref"} => Pushed(i) = 3
  <2>1. \A u \in Threads : act[u].res = i => u = t
    BY <1>1, <1>2, <1>5 DEF DInv, Resources, OneHolder
  <2>2. \A pcs : At(i, pcs) <=> act[t].pc \in pcs
    BY <1>5, <2>1 DEF At
  <2>3. HeldOK(t) /\ act[t].drain \in BOOLEAN
    BY <1>1 DEF DInv, Resources, Types, Activity
  <2>4. /\ act[t].pc \in {"alloc", "attach", "insert", "mapblob"} => res[i].st = "new"
        /\ act[t].pc \in {"remove", "detach", "free", "unref"} => res[i].st \in {"known", "closing"}
    BY <1>5, <2>3 DEF HeldOK, Creating, Deleting
  <2>5. CASE act[t].pc \in {"alloc", "attach", "insert", "mapblob"}
    <3>1. At(i, {"insert"}) <=> act[t].pc = "insert"
      BY <2>2
    <3> QED BY <1>3, <2>4, <2>5, <3>1
  <2>6. CASE act[t].pc \in {"remove", "detach", "free", "unref"}
    <3>1. At(i, {"free", "unref"}) <=> act[t].pc \in {"free", "unref"}
      BY <2>2
    <3> QED BY <1>3, <2>4, <2>6, <3>1
  <2> QED BY <2>5, <2>6
<1>6. ASSUME \A t \in Threads : act[t].res # i
      PROVE  /\ res[i].st = "new" => Pushed(i) = 1
             /\ res[i].st \in {"known", "closing"} => Pushed(i) = 2
  <2>1. ~At(i, {"insert"}) /\ ~At(i, {"free", "unref"})
    BY <1>6 DEF At
  <2> QED BY <1>3, <2>1
<1> QED BY <1>3, <1>4, <1>5, <1>6 DEF PushedAs

\* A step of handler t is about one resource at most.
LEMMA PushedOther ==
    ASSUME NEW t \in Threads, NEW i, act[t].res \in {0, i}, act'[t].res \in {0, i},
           \A u \in Threads \ {t} : act'[u] = act[u],
           NEW j \in Ids, j # i, res'[j] = res[j]
    PROVE  Pushed(j)' = Pushed(j)
<1>1. j # 0
  BY Values
<1>2. At(j, {"insert"})' <=> At(j, {"insert"})
  BY <1>1 DEF At
<1>3. At(j, {"free", "unref"})' <=> At(j, {"free", "unref"})
  BY <1>1 DEF At
<1> QED BY <1>2, <1>3 DEF Pushed

\* A push adds one waiting stage.
LEMMA Pushes ==
    ASSUME Types, NEW i \in Ids, NEW op \in Ops, NEW b,
           command' = Append(command, [op |-> op, id |-> i, blk |-> b])
    PROVE  /\ DOMAIN command = 1..Len(command) /\ DOMAIN command' = 1..(Len(command) + 1)
           /\ Len(command) \in Nat
           /\ \A p \in DOMAIN command : command'[p] = command[p]
           /\ LET n == Len(command) + 1
              IN  command'[n].op = op /\ command'[n].id = i /\ command'[n].blk = b
           /\ \A j, k : Waits(j, k)' <=> Waits(j, k) \/ (j = i /\ k = Stage(op))
<1> DEFINE cmd == [op |-> op, id |-> i, blk |-> b]
           n == Len(command) + 1
<1>1. cmd.op = op /\ cmd.id = i /\ cmd.blk = b
  OBVIOUS
<1> HIDE DEF cmd
<1>2. PICK S : command \in Seq(S) /\ cmd \in S
  <2>1. command \in Seq(ResourceCommand \cup {cmd})
    <3>1. command \in Seq(ResourceCommand)
      BY DEF Types, ResourceCommand
    <3> QED BY <3>1
  <2> QED BY <2>1
<1>3. /\ command' \in Seq(S) /\ Len(command') = Len(command) + 1
      /\ \A p \in 1..Len(command) : command'[p] = command[p]
      /\ command'[Len(command) + 1] = cmd
  BY <1>2, AppendProperties DEF cmd
<1>4. /\ DOMAIN command = 1..Len(command) /\ DOMAIN command' = 1..n
      /\ Len(command) \in Nat
  BY <1>2, <1>3
<1>5. n \in DOMAIN command' /\ \A p \in DOMAIN command' : p = n \/ p \in DOMAIN command
  BY <1>4
<1>6. DOMAIN command \subseteq DOMAIN command'
  BY <1>4
<1>7. \A j, k : Waits(j, k) => Waits(j, k)'
  BY <1>3, <1>4, <1>6 DEF Waits, Is
<1>8. Waits(i, Stage(op))'
  BY <1>1, <1>3, <1>5 DEF Waits, Is
<1>9. \A j, k : Waits(j, k)' => Waits(j, k) \/ (j = i /\ k = Stage(op))
  BY <1>1, <1>3, <1>4, <1>5 DEF Waits, Is
<1> QED BY <1>1, <1>3, <1>4, <1>7, <1>8, <1>9
\* What waits of a resource has been pushed, and is one of its steps.
LEMMA WaitsPushed ==
    ASSUME DInv, Stages, NEW i \in Ids, NEW k, Waits(i, k)
    PROVE  /\ k \in 1..4 /\ k \in Steps(i) /\ k <= Pushed(i) /\ Pushed(i) # 0
           /\ \A l \in Steps(i) : k <= l /\ l <= Pushed(i) => Waits(i, l)
<1>1. k \in 1..4
  BY CommandsTyped DEF DInv, Waits, Is
<1>2. QueueOK(i)
  BY DEF Stages
<1>3. Pushed(i) \in 0..4
  BY PushedValues DEF PushedAs
<1>4. /\ k \in Steps(i) /\ k <= Pushed(i)
      /\ \A l \in Steps(i) : k <= l /\ l <= Pushed(i) => Waits(i, l)
  BY <1>1, <1>2 DEF QueueOK
<1> QED BY <1>1, <1>3, <1>4

\* Create and unref are steps of every resource, the others of those with memory.
LEMMA StepsOf ==
    ASSUME NEW i
    PROVE  /\ Steps(i) \subseteq 1..4 /\ 1 \in Steps(i) /\ 4 \in Steps(i)
           /\ res[i].kind \in {"buffer", "blob"} => 2 \in Steps(i) /\ 3 \in Steps(i)
           /\ res[i].kind = "plain" => Steps(i) = {1, 4}
  BY DEF Steps

\* The same after a step.
LEMMA StepsNext ==
    ASSUME NEW i
    PROVE  /\ Steps(i)' \subseteq 1..4 /\ 1 \in Steps(i)' /\ 4 \in Steps(i)'
           /\ res'[i].kind \in {"buffer", "blob"} => 2 \in Steps(i)' /\ 3 \in Steps(i)'
           /\ res'[i].kind = "plain" => Steps(i)' = {1, 4}
           /\ res'[i].kind = res[i].kind => Steps(i)' = Steps(i)
  BY DEF Steps

\* The host's side of a resource is a matter of which of its steps are done.
LEMMA HostKept ==
    ASSUME NEW i \in Ids, HostOK(i), hres' = hres, res'[i].kind = res[i].kind,
           \A k \in Steps(i) : Done(i, k)' <=> Done(i, k)
    PROVE  HostOK(i)'
<1>1. (Done(i, 1)' <=> Done(i, 1)) /\ (Done(i, 4)' <=> Done(i, 4))
  BY StepsOf
<1>2. res[i].kind \in {"buffer", "blob"} => (Done(i, 2)' <=> Done(i, 2)) /\ (Done(i, 3)' <=> Done(i, 3))
  BY StepsOf
<1> QED BY <1>1, <1>2 DEF HostOK

\* A handler pushes the next step of resource i.
LEMMA StagePushed ==
    ASSUME DInv, DInv', Stages, NEW i \in Ids, NEW op \in Ops, NEW b,
           command' = Append(command, [op |-> op, id |-> i, blk |-> b]), hres' = hres,
           \A j \in Ids \ {i} : Pushed(j)' = Pushed(j) /\ res'[j].kind = res[j].kind,
           res'[i].kind = res[i].kind \/ Pushed(i) = 0,
           Pushed(i)' = Stage(op), Pushed(i) < Stage(op), Stage(op) \in Steps(i)',
           \A l \in Steps(i)' : l <= Pushed(i) \/ Stage(op) <= l,
           op \in {"attach", "detach"} => res'[i].kind = "buffer",
           op \in {"map", "unmap"} => res'[i].kind = "blob"
    PROVE  Stages'
<1>0. PICK m, n : m = Pushed(i) /\ n = Stage(op)
  OBVIOUS
<1>1. /\ DOMAIN command = 1..Len(command) /\ DOMAIN command' = 1..(Len(command) + 1)
      /\ Len(command) \in Nat
      /\ \A p \in DOMAIN command : command'[p] = command[p]
      /\ command'[Len(command) + 1].op = op /\ command'[Len(command) + 1].id = i
      /\ \A j, k : Waits(j, k)' <=> Waits(j, k) \/ (j = i /\ k = n)
  BY <1>0, Pushes DEF DInv
<1>2. m \in 0..4 /\ n \in 1..4 /\ m < n /\ Pushed(i)' = n
  BY <1>0, PushedValues, StageOf DEF PushedAs
<1>3. \A k : Waits(i, k) => /\ k \in 1..4 /\ k \in Steps(i) /\ k <= m /\ m # 0
                            /\ \A l \in Steps(i) : k <= l /\ l <= m => Waits(i, l)
  BY <1>0, WaitsPushed
<1>4. m # 0 => Steps(i)' = Steps(i) /\ res'[i].kind = res[i].kind
  BY <1>0, StepsNext
<1>5. \A l \in Steps(i)' : l \in 1..4 /\ (l <= m \/ n <= l)
  BY <1>0, StepsNext
<1>6. \A l \in Steps(i)' : Done(i, l)' <=> Done(i, l)
  <2>1. SUFFICES ASSUME NEW l \in Steps(i)' PROVE Done(i, l)' <=> Done(i, l)
    OBVIOUS
  <2>2. CASE l <= m
    <3>1. l # n /\ l <= n
      BY <1>2, <1>5, <2>1, <2>2
    <3>2. Waits(i, l)' <=> Waits(i, l)
      BY <1>1, <3>1
    <3> QED BY <1>0, <1>2, <2>2, <3>1, <3>2 DEF Done
  <2>3. CASE n <= l
    <3>1. ~(l <= m)
      BY <1>2, <1>5, <2>1, <2>3
    <3>2. l <= n => l = n
      BY <1>2, <1>5, <2>1, <2>3
    <3>3. Waits(i, n)'
      BY <1>1
    <3> QED BY <1>0, <1>2, <3>1, <3>2, <3>3 DEF Done
  <2> QED BY <1>5, <2>1, <2>2, <2>3
<1>7. QueueOK(i)'
  <2>1. SUFFICES ASSUME NEW k \in 1..4, Waits(i, k)'
                 PROVE  /\ k \in Steps(i)' /\ k <= n
                        /\ \A l \in Steps(i)' : k <= l /\ l <= n => Waits(i, l)'
    BY <1>2 DEF QueueOK
  <2>2. CASE k = n
    <3>1. \A l \in Steps(i)' : k <= l /\ l <= n => l = n
      BY <1>2, <1>5, <2>2
    <3> QED BY <1>0, <1>1, <1>2, <2>2, <3>1
  <2>3. CASE k # n
    <3>1. Waits(i, k)
      BY <1>1, <2>1, <2>3
    <3>2. k \in Steps(i) /\ k <= m /\ m # 0 /\ \A l \in Steps(i) : k <= l /\ l <= m => Waits(i, l)
      BY <1>3, <3>1
    <3>3. Steps(i)' = Steps(i)
      BY <1>4, <3>2
    <3>4. \A l \in Steps(i)' : k <= l /\ l <= n => Waits(i, l)'
      <4>1. SUFFICES ASSUME NEW l \in Steps(i)', k <= l, l <= n PROVE Waits(i, l)'
        OBVIOUS
      <4>2. CASE l <= m
        BY <1>1, <3>2, <3>3, <4>1, <4>2
      <4>3. CASE n <= l
        <5>1. l = n
          BY <1>2, <1>5, <4>1, <4>3
        <5> QED BY <1>1, <5>1
      <4> QED BY <1>5, <4>1, <4>2, <4>3
    <3> QED BY <1>2, <3>2, <3>3, <3>4
  <2> QED BY <2>2, <2>3
<1>8. HostOK(i)'
  <2>1. HostOK(i)
    BY DEF Stages
  <2>2. CASE m # 0
    BY <1>4, <1>6, <2>1, <2>2, HostKept
  <2>3. CASE m = 0
    <3>1. \A l \in 1..4 : ~Done(i, l)
      BY <1>0, <2>3 DEF Done
    <3>2. ~hres[i].there /\ hres[i].back = NoBlock /\ ~hres[i].mapped
      BY <2>1, <3>1 DEF HostOK
    <3>3. ~Done(i, 1)' /\ (res'[i].kind \in {"buffer", "blob"} => ~Done(i, 2)')
      BY <1>6, <3>1, StepsNext
    <3> QED BY <3>2, <3>3 DEF HostOK
  <2> QED BY <2>2, <2>3
<1>9. ASSUME NEW j \in Ids, j # i PROVE QueueOK(j)' /\ HostOK(j)'
  <2>1. QueueOK(j) /\ HostOK(j) /\ res'[j].kind = res[j].kind /\ Pushed(j)' = Pushed(j)
    BY <1>9 DEF Stages
  <2>2. \A k : Waits(j, k)' <=> Waits(j, k)
    BY <1>1, <1>9
  <2>3. Steps(j)' = Steps(j)
    BY <2>1, StepsNext
  <2>4. \A k : Done(j, k)' <=> Done(j, k)
    BY <2>1, <2>2 DEF Done
  <2>5. QueueOK(j)'
    BY <2>1, <2>2, <2>3 DEF QueueOK
  <2> QED BY <2>1, <2>4, <2>5, HostKept
<1>10. InOrder'
  <2>1. SUFFICES ASSUME NEW p \in DOMAIN command', NEW q \in DOMAIN command', p < q,
                        command'[p].id = command'[q].id
                 PROVE  Stage(command'[p].op) < Stage(command'[q].op)
    BY DEF InOrder
  <2>2. p \in DOMAIN command
    BY <1>1, <2>1
  <2>3. CASE q \in DOMAIN command
    BY <1>1, <2>1, <2>2, <2>3 DEF Stages, InOrder
  <2>4. CASE q \notin DOMAIN command
    <3>1. q = Len(command) + 1
      BY <1>1, <2>4
    <3>2. command[p].id = i /\ command'[p].op = command[p].op /\ command'[q].op = op
      BY <1>1, <2>1, <2>2, <3>1
    <3>3. Waits(i, Stage(command[p].op))
      BY <2>2, <3>2 DEF Waits, Is
    <3>4. Stage(command[p].op) <= m /\ Stage(command[p].op) \in 1..4
      BY <1>3, <3>3
    <3> QED BY <1>0, <1>2, <3>2, <3>4
  <2> QED BY <2>3, <2>4
<1>11. Fitting'
  <2>1. SUFFICES ASSUME NEW p \in DOMAIN command'
                 PROVE  /\ command'[p].op \in {"attach", "detach"} => res'[command'[p].id].kind = "buffer"
                        /\ command'[p].op \in {"map", "unmap"} => res'[command'[p].id].kind = "blob"
    BY DEF Fitting
  <2>2. CASE p \notin DOMAIN command
    <3>1. p = Len(command) + 1
      BY <1>1, <2>2
    <3> QED BY <1>1, <3>1
  <2>3. CASE p \in DOMAIN command
    <3>1. command'[p] = command[p] /\ command[p].id \in Ids
      BY <1>1, <2>3, CommandsTyped DEF DInv
    <3>2. res'[command[p].id].kind = res[command[p].id].kind
      <4>1. CASE command[p].id = i
        <5>1. Waits(i, Stage(command[p].op))
          BY <2>3, <4>1 DEF Waits, Is
        <5> QED BY <1>3, <1>4, <4>1, <5>1
      <4>2. CASE command[p].id # i
        BY <3>1, <4>2
      <4> QED BY <4>1, <4>2
    <3> QED BY <2>3, <3>1, <3>2 DEF Stages, Fitting
  <2> QED BY <2>2, <2>3
<1> QED BY <1>7, <1>8, <1>9, <1>10, <1>11 DEF Stages

\* A step that pushes nothing, and passes no step of a resource.
LEMMA StagesKept ==
    ASSUME DInv, Stages, UNCHANGED <<command, hres>>,
           \A j \in Ids : /\ res'[j].kind = res[j].kind
                          /\ \A l \in Steps(j) : l <= Pushed(j)' <=> l <= Pushed(j)
    PROVE  Stages'
<1>1. \A j, k : Waits(j, k)' <=> Waits(j, k)
  BY DEF Waits, Is
<1>2. ASSUME NEW j \in Ids PROVE QueueOK(j)' /\ HostOK(j)'
  <2>1. QueueOK(j) /\ HostOK(j) /\ res'[j].kind = res[j].kind
    BY DEF Stages
  <2>2. Steps(j)' = Steps(j)
    BY <2>1, StepsNext
  <2>3. \A k \in Steps(j) : Done(j, k)' <=> Done(j, k)
    BY <1>1 DEF Done
  <2>4. QueueOK(j)'
    BY <1>1, <2>1, <2>2 DEF QueueOK
  <2> QED BY <2>1, <2>3, <2>4, HostKept
<1>3. InOrder'
  BY DEF Stages, InOrder
<1>4. Fitting'
  <2>1. \A p \in DOMAIN command : res'[command[p].id].kind = res[command[p].id].kind
    BY CommandsTyped DEF DInv
  <2> QED BY <2>1 DEF Stages, Fitting
<1> QED BY <1>2, <1>3, <1>4 DEF Stages
\* What the host makes of a command, field by field.
LEMMA ExecuteFields ==
    ASSUME NEW cmd \in ResourceCommand, NEW r \in HostResource
    PROVE  LET x == Execute(cmd, r)
           IN  /\ cmd.op = "create" => x.there /\ x.back = r.back /\ x.mapped = r.mapped
               /\ cmd.op = "unref" => ~x.there /\ x.back = NoBlock /\ ~x.mapped
               /\ cmd.op = "attach" /\ r.there => x.there /\ x.back = cmd.blk /\ x.mapped = r.mapped
               /\ cmd.op = "detach" => x.there = r.there /\ x.back = NoBlock /\ x.mapped = r.mapped
               /\ cmd.op = "map" /\ r.there => x.there /\ x.back = r.back /\ x.mapped
               /\ cmd.op = "unmap" => x.there = r.there /\ x.back = r.back /\ ~x.mapped
<1>1. CASE cmd.op = "create"
  BY <1>1 DEF Execute, HostResource
<1>2. CASE cmd.op = "unref"
  BY <1>2 DEF Execute, Absent
<1>3. CASE cmd.op = "attach"
  BY <1>3 DEF Execute, HostResource
<1>4. CASE cmd.op = "detach"
  BY <1>4 DEF Execute, HostResource
<1>5. CASE cmd.op = "map"
  BY <1>5 DEF Execute, HostResource
<1>6. CASE cmd.op = "unmap"
  BY <1>6 DEF Execute, HostResource
<1> QED BY <1>1, <1>2, <1>3, <1>4, <1>5, <1>6 DEF ResourceCommand

\* The first command is the next step of its resource: what comes before it is done, and what
\* comes after it waits.
LEMMA HeadIsNext ==
    ASSUME DInv, Stages, command # <<>>
    PROVE  LET i == command[1].id
               k == Stage(command[1].op)
           IN  /\ 1 \in DOMAIN command /\ i \in Ids /\ command[1].op \in Ops /\ k \in 1..4
               /\ k \in Steps(i) /\ k <= Pushed(i)
               /\ \A l \in Steps(i) : (l < k => Done(i, l)) /\ (k <= l => ~Done(i, l))
               /\ command[1].op \in {"attach", "detach"} => res[i].kind = "buffer"
               /\ command[1].op \in {"map", "unmap"} => res[i].kind = "blob"
<1>0. PICK i, k : i = command[1].id /\ k = Stage(command[1].op)
  OBVIOUS
<1>1. Types /\ command \in Seq(ResourceCommand)
  BY DEF DInv, Types, ResourceCommand
<1>2. 1 \in DOMAIN command
  BY <1>1, Dequeued
<1>3. i \in Ids /\ command[1].op \in Ops /\ k \in 1..4
  BY <1>0, <1>1, <1>2, CommandsTyped
<1>4. Waits(i, k)
  BY <1>0, <1>2 DEF Waits, Is
<1>5. /\ k \in Steps(i) /\ k <= Pushed(i)
      /\ \A l \in Steps(i) : k <= l /\ l <= Pushed(i) => Waits(i, l)
  BY <1>3, <1>4, WaitsPushed
<1>6. \A l : Waits(i, l) => l = k \/ k < l
  <2>1. SUFFICES ASSUME NEW l, NEW p \in DOMAIN command, Is(p, i, l) PROVE l = k \/ k < l
    BY DEF Waits
  <2>2. p = 1 \/ 1 < p
    BY <1>1, <2>1, CommandsTyped
  <2>3. CASE p = 1
    BY <1>0, <2>1, <2>3 DEF Is
  <2>4. CASE 1 < p
    BY <1>0, <1>2, <2>1, <2>4 DEF Is, Stages, InOrder
  <2> QED BY <2>2, <2>3, <2>4
<1>7. ASSUME NEW l \in Steps(i), l < k PROVE Done(i, l)
  <2>1. l \in 1..4 /\ k \in 1..4 /\ Pushed(i) \in 0..4
    BY <1>3, <1>7, StepsOf, PushedValues DEF PushedAs
  <2>2. l <= Pushed(i)
    BY <1>5, <1>7, <2>1
  <2>3. ~(l = k \/ k < l)
    BY <1>7, <2>1
  <2> QED BY <1>6, <2>2, <2>3 DEF Done
<1>8. ASSUME NEW l \in Steps(i), k <= l PROVE ~Done(i, l)
  BY <1>5, <1>8 DEF Done
<1>9. /\ command[1].op \in {"attach", "detach"} => res[i].kind = "buffer"
      /\ command[1].op \in {"map", "unmap"} => res[i].kind = "blob"
  BY <1>0, <1>2 DEF Stages, Fitting
<1> QED BY <1>0, <1>2, <1>3, <1>5, <1>7, <1>8, <1>9

\* What the host does with its next command, and what it leaves in the queue.
LEMMA HostTakes ==
    ASSUME DInv, Stages, HostCommand
    PROVE  LET i == command[1].id
               x == Execute(command[1], hres[i])
           IN  /\ command # <<>> /\ command[1] \in ResourceCommand /\ hres[i] \in HostResource
               /\ hres'[i] = x /\ \A j \in Ids \ {i} : hres'[j] = hres[j]
               /\ Len(command) \in Nat /\ DOMAIN command = 1..Len(command)
               /\ DOMAIN command' = 1..(Len(command) - 1)
               /\ \A p \in DOMAIN command' : p + 1 \in DOMAIN command /\ command'[p] = command[p + 1]
               /\ \A p \in DOMAIN command : p # 1 => p - 1 \in DOMAIN command' /\ command'[p - 1] = command[p]
               /\ UNCHANGED <<ctxList, ctx, res, act, free, control, lost, hctx, nextCtx, nextRes>>
               /\ \A j \in Ids : Pushed(j)' = Pushed(j) /\ Steps(j)' = Steps(j)
               /\ \A j, l : Waits(j, l)' <=> Waits(j, l) /\ ~(j = i /\ l = Stage(command[1].op))
<1>0. PICK cmd : cmd = command[1]
  OBVIOUS
<1>1. /\ command # <<>> /\ command' = Tail(command)
      /\ hres' = [hres EXCEPT ![Head(command).id] = Execute(Head(command), hres[Head(command).id])]
      /\ UNCHANGED <<ctxList, ctx, res, act, free, control, lost, hctx, nextCtx, nextRes>>
  BY DEF HostCommand, driver
<1>2. Types /\ command \in Seq(ResourceCommand) /\ hres \in [Ids -> HostResource]
  BY DEF DInv, Types, ResourceCommand
<1>3. /\ Head(command) = cmd /\ cmd \in ResourceCommand /\ Len(command') = Len(command) - 1
      /\ command' \in Seq(ResourceCommand)
      /\ \A k \in 1..(Len(command) - 1) : command'[k] = command[k + 1]
      /\ Len(command) \in Nat /\ Len(command) # 0
  BY <1>0, <1>1, <1>2, Dequeued
<1>4. DOMAIN command = 1..Len(command) /\ DOMAIN command' = 1..(Len(command) - 1)
  BY <1>2, <1>3
<1>5. cmd.id \in Ids
  BY <1>3 DEF ResourceCommand
<1>6. /\ hres[cmd.id] \in HostResource /\ hres'[cmd.id] = Execute(cmd, hres[cmd.id])
      /\ \A j \in Ids \ {cmd.id} : hres'[j] = hres[j]
  BY <1>1, <1>2, <1>3, <1>5
<1>7. \A p \in DOMAIN command' : p + 1 \in DOMAIN command /\ command'[p] = command[p + 1]
  BY <1>3, <1>4
<1>8. \A p \in DOMAIN command : p # 1 => p - 1 \in DOMAIN command' /\ command'[p - 1] = command[p]
  <2>1. SUFFICES ASSUME NEW p \in DOMAIN command, p # 1
                 PROVE  p - 1 \in DOMAIN command' /\ command'[p - 1] = command[p]
    OBVIOUS
  <2>2. p - 1 \in 1..(Len(command) - 1) /\ (p - 1) + 1 = p
    BY <1>3, <1>4, <2>1
  <2>3. command'[p - 1] = command[(p - 1) + 1]
    BY <1>3, <2>2
  <2> QED BY <1>4, <2>2, <2>3
<1>9. \A j \in Ids : Pushed(j)' = Pushed(j) /\ Steps(j)' = Steps(j)
  BY <1>1 DEF Pushed, At, Steps
<1>10. ASSUME NEW j, NEW l
       PROVE  Waits(j, l)' <=> Waits(j, l) /\ ~(j = cmd.id /\ l = Stage(cmd.op))
  <2>1. ASSUME Waits(j, l)' PROVE Waits(j, l) /\ ~(j = cmd.id /\ l = Stage(cmd.op))
    <3>1. PICK p \in DOMAIN command' : command'[p].id = j /\ Stage(command'[p].op) = l
      BY <2>1 DEF Waits, Is
    <3>2. p + 1 \in DOMAIN command /\ command[p + 1].id = j /\ Stage(command[p + 1].op) = l
      BY <1>7, <3>1
    <3>3. 1 \in DOMAIN command /\ 1 < p + 1
      BY <1>3, <1>4, <3>1
    <3>4. j = cmd.id => Stage(cmd.op) < l
      BY <1>0, <3>2, <3>3 DEF Stages, InOrder
    <3>5. l \in 1..4
      BY <1>2, <3>2, CommandsTyped
    <3>6. j = cmd.id => Stage(cmd.op) # l
      BY <3>4, <3>5
    <3> QED BY <3>2, <3>6 DEF Waits, Is
  <2>2. ASSUME Waits(j, l), ~(j = cmd.id /\ l = Stage(cmd.op)) PROVE Waits(j, l)'
    <3>1. PICK p \in DOMAIN command : command[p].id = j /\ Stage(command[p].op) = l
      BY <2>2 DEF Waits, Is
    <3>2. p # 1
      BY <1>0, <2>2, <3>1
    <3>3. p - 1 \in DOMAIN command' /\ command'[p - 1] = command[p]
      BY <1>8, <3>2
    <3> QED BY <3>1, <3>3 DEF Waits, Is
  <2> QED BY <2>1, <2>2
<1> QED BY <1>0, <1>1, <1>3, <1>4, <1>6, <1>7, <1>8, <1>9, <1>10

\* The host makes the next step of a resource.
LEMMA StageExecuted ==
    ASSUME DInv, Stages, Backings, HostCommand
    PROVE  Stages'
<1>0. PICK cmd, i, k : cmd = command[1] /\ i = cmd.id /\ k = Stage(cmd.op)
  OBVIOUS
<1>1. /\ command # <<>> /\ cmd \in ResourceCommand /\ hres[i] \in HostResource
      /\ hres'[i] = Execute(cmd, hres[i]) /\ \A j \in Ids \ {i} : hres'[j] = hres[j]
      /\ DOMAIN command = 1..Len(command)
      /\ \A p \in DOMAIN command' : p + 1 \in DOMAIN command /\ command'[p] = command[p + 1]
      /\ res' = res
      /\ \A j \in Ids : Pushed(j)' = Pushed(j) /\ Steps(j)' = Steps(j)
      /\ \A j, l : Waits(j, l)' <=> Waits(j, l) /\ ~(j = i /\ l = k)
  BY <1>0, HostTakes
<1>2. /\ i \in Ids /\ cmd.op \in Ops /\ k \in 1..4 /\ k \in Steps(i) /\ k <= Pushed(i)
      /\ \A l \in Steps(i) : (l < k => Done(i, l)) /\ (k <= l => ~Done(i, l))
      /\ cmd.op \in {"attach", "detach"} => res[i].kind = "buffer"
      /\ cmd.op \in {"map", "unmap"} => res[i].kind = "blob"
  BY <1>0, <1>1, HeadIsNext
<1>3. \A l \in 1..4 : Done(i, l)' <=> Done(i, l) \/ l = k
  BY <1>1, <1>2 DEF Done
<1>4. ASSUME NEW j \in Ids, j # i PROVE QueueOK(j)' /\ HostOK(j)'
  <2>1. QueueOK(j) /\ HostOK(j)
    BY DEF Stages
  <2>2. \A l : Waits(j, l)' <=> Waits(j, l)
    BY <1>1, <1>4
  <2>3. \A l : Done(j, l)' <=> Done(j, l)
    BY <1>1, <2>2 DEF Done
  <2>4. QueueOK(j)'
    BY <1>1, <2>1, <2>2 DEF QueueOK
  <2>5. HostOK(j)'
    BY <1>1, <1>4, <2>1, <2>3 DEF HostOK
  <2> QED BY <2>4, <2>5
<1>5. QueueOK(i)'
  <2>1. SUFFICES ASSUME NEW m \in 1..4, Waits(i, m), m # k, NEW l \in Steps(i), m <= l, l <= Pushed(i)
                 PROVE  m \in Steps(i) /\ m <= Pushed(i) /\ Waits(i, l) /\ l # k
    <3>1. \A m \in 1..4 : Waits(i, m) => m \in Steps(i) /\ m <= Pushed(i)
      BY <1>2, WaitsPushed
    <3> QED BY <1>1, <1>2, <2>1, <3>1 DEF QueueOK
  <2>2. m \in Steps(i) /\ m <= Pushed(i) /\ Waits(i, l)
    BY <1>2, <2>1, WaitsPushed
  <2>3. ~Done(i, m)
    BY <2>1 DEF Done
  <2>4. ~(m < k)
    BY <1>2, <2>2, <2>3
  <2>5. l \in 1..4
    BY <2>1, StepsOf
  <2> QED BY <1>2, <2>1, <2>2, <2>4, <2>5
<1>6. HostOK(i)'
  <2>1. HostOK(i) /\ res[i].kind \in {"plain", "buffer", "blob"}
    BY <1>2 DEF Stages, DInv, Types, Resource
  <2>2. /\ (1 < k => Done(i, 1)) /\ (k <= 1 => ~Done(i, 1))
        /\ (4 < k => Done(i, 4)) /\ (k <= 4 => ~Done(i, 4))
    BY <1>2, StepsOf
  <2>3. res[i].kind # "plain" => /\ (2 < k => Done(i, 2)) /\ (k <= 2 => ~Done(i, 2))
                                 /\ (3 < k => Done(i, 3)) /\ (k <= 3 => ~Done(i, 3))
    BY <1>2, <2>1, StepsOf
  <2>4. /\ Done(i, 1)' <=> Done(i, 1) \/ 1 = k
        /\ Done(i, 2)' <=> Done(i, 2) \/ 2 = k
        /\ Done(i, 3)' <=> Done(i, 3) \/ 3 = k
        /\ Done(i, 4)' <=> Done(i, 4) \/ 4 = k
    BY <1>3
  <2>5. /\ k = 1 <=> cmd.op = "create"
        /\ k = 2 <=> cmd.op \in {"attach", "map"}
        /\ k = 3 <=> cmd.op \in {"detach", "unmap"}
        /\ k = 4 <=> cmd.op = "unref"
    BY <1>0, <1>2, StageOf
  <2>6. hres[i].there \in BOOLEAN /\ hres[i].mapped \in BOOLEAN
    BY <1>1 DEF HostResource
  <2>7. cmd.op = "attach" => cmd.blk # NoBlock
    <3>1. 1 \in DOMAIN command /\ SameBlock(i)
      BY <1>1, <1>2, HeadIsNext DEF Backings
    <3> QED BY <1>0, <3>1 DEF SameBlock
  <2>8. CASE k = 1
    BY <1>1, <2>1, <2>2, <2>3, <2>4, <2>5, <2>6, <2>8, ExecuteFields DEF HostOK
  <2>9. CASE k = 2
    BY <1>1, <1>2, <2>1, <2>2, <2>3, <2>4, <2>5, <2>6, <2>7, <2>9, ExecuteFields DEF HostOK
  <2>10. CASE k = 3
    BY <1>1, <1>2, <2>1, <2>2, <2>3, <2>4, <2>5, <2>6, <2>10, ExecuteFields DEF HostOK
  <2>11. CASE k = 4
    BY <1>1, <1>2, <2>1, <2>2, <2>3, <2>4, <2>5, <2>6, <2>11, ExecuteFields DEF HostOK
  <2> QED BY <1>2, <2>8, <2>9, <2>10, <2>11
<1>7. InOrder'
  <2>1. SUFFICES ASSUME NEW p \in DOMAIN command', NEW q \in DOMAIN command', p < q,
                        command'[p].id = command'[q].id
                 PROVE  Stage(command'[p].op) < Stage(command'[q].op)
    BY DEF InOrder
  <2>2. /\ p + 1 \in DOMAIN command /\ q + 1 \in DOMAIN command
        /\ command'[p] = command[p + 1] /\ command'[q] = command[q + 1]
    BY <1>1, <2>1
  <2>3. p + 1 < q + 1
    BY <1>1, <2>1, HostTakes
  <2> QED BY <2>1, <2>2, <2>3 DEF Stages, InOrder
<1>8. Fitting'
  BY <1>1 DEF Stages, Fitting
<1> QED BY <1>4, <1>5, <1>6, <1>7, <1>8 DEF Stages
-----------------------------------------------------------------------------
(* The memory the host has of the resources.                                 *)

\* Before the attach is pushed the host has no memory of a resource, and will get none.
LEMMA NotAttached ==
    ASSUME DInv, Stages, NEW i \in Ids, Pushed(i) < 2
    PROVE  /\ hres[i].back = NoBlock
           /\ \A p \in DOMAIN command : command[p].id = i => command[p].op # "attach"
<1>1. ~Done(i, 2)
  <2>1. Pushed(i) \in 0..4
    BY PushedValues DEF PushedAs
  <2> QED BY <2>1 DEF Done
<1>2. hres[i].back = NoBlock
  BY <1>1 DEF Stages, HostOK
<1>3. ASSUME NEW p \in DOMAIN command, command[p].id = i, command[p].op = "attach" PROVE FALSE
  <2>1. Waits(i, 2)
    BY <1>3, StageOf DEF Waits, Is
  <2>2. 2 <= Pushed(i) /\ Pushed(i) \in 0..4
    BY <2>1, WaitsPushed, PushedValues DEF PushedAs
  <2> QED BY <2>2
<1> QED BY <1>2, <1>3

\* A step of the driver that gives the host no new memory.
LEMMA BackingsKept ==
    ASSUME DInv, Stages, Backings, hres' = hres,
           DOMAIN command \subseteq DOMAIN command',
           \A p \in DOMAIN command : command'[p] = command[p],
           \A p \in DOMAIN command' \ DOMAIN command : command'[p].op # "attach",
           \A j \in Ids : res'[j].blk \in {res[j].blk, NoBlock} \/ Pushed(j) < 2
    PROVE  Backings'
<1>1. \A p \in DOMAIN command : \A j, k : Is(p, j, k)' <=> Is(p, j, k)
  BY DEF Is
<1>2. \A p \in DOMAIN command' : command'[p].op = "attach" => p \in DOMAIN command /\ command'[p] = command[p]
  OBVIOUS
<1>3. DetachedBefore'
  <2>1. SUFFICES ASSUME NEW i \in Ids, NEW j \in Ids, NEW p \in DOMAIN command', i # j, command'[p].id = i,
                        command'[p].op = "attach", hres[j].back = command'[p].blk
                 PROVE  \E q \in DOMAIN command' : q < p /\ Is(q, j, 3)'
    BY DEF DetachedBefore
  <2>2. p \in DOMAIN command /\ command'[p] = command[p]
    BY <1>2, <2>1
  <2>3. PICK q \in DOMAIN command : q < p /\ Is(q, j, 3)
    BY <2>1, <2>2 DEF Backings, DetachedBefore
  <2> QED BY <1>1, <2>3
<1>4. DetachedBetween'
  <2>1. SUFFICES ASSUME NEW i \in Ids, NEW j \in Ids, NEW p \in DOMAIN command', NEW q \in DOMAIN command',
                        i # j, p < q, command'[p].id = i, command'[p].op = "attach", command'[q].id = j,
                        command'[q].op = "attach", command'[p].blk = command'[q].blk
                 PROVE  \E r \in DOMAIN command' : p < r /\ r < q /\ Is(r, i, 3)'
    BY DEF DetachedBetween
  <2>2. p \in DOMAIN command /\ command'[p] = command[p] /\ q \in DOMAIN command /\ command'[q] = command[q]
    BY <1>2, <2>1
  <2>3. PICK r \in DOMAIN command : p < r /\ r < q /\ Is(r, i, 3)
    BY <2>1, <2>2 DEF Backings, DetachedBetween
  <2> QED BY <1>1, <2>3
<1>5. ASSUME NEW i \in Ids PROVE SameBlock(i)'
  <2>1. SameBlock(i)
    BY DEF Backings
  <2>2. CASE res'[i].blk \in {res[i].blk, NoBlock}
    BY <1>2, <2>1, <2>2 DEF SameBlock
  <2>3. CASE Pushed(i) < 2
    <3>1. /\ hres[i].back = NoBlock
          /\ \A p \in DOMAIN command : command[p].id = i => command[p].op # "attach"
      BY <2>3, NotAttached
    <3> QED BY <1>2, <3>1 DEF SameBlock
  <2> QED BY <2>2, <2>3
<1>6. (\A i, j \in Ids : i # j /\ hres[i].back # NoBlock => hres[i].back # hres[j].back)'
  BY DEF Backings
<1> QED BY <1>3, <1>4, <1>5, <1>6 DEF Backings

\* A buffer without its memory, attached once, has been detached by the driver.
LEMMA DetachPushed ==
    ASSUME DInv, Stages, NEW j \in Ids, res[j].kind = "buffer", res[j].blk = NoBlock, 2 <= Pushed(j)
    PROVE  3 <= Pushed(j)
<1>1. Pushed(j) \in 0..4 /\ ResourceOK(j) /\ j # 0
  BY PushedValues, Values DEF DInv, Resources, PushedAs
<1>2. res[j].st \in {"none", "new", "known", "closing", "dead"}
  BY DEF DInv, Types, Resource
<1>3. \A t \in Threads : act[t].res = j => Held(t) /\ BackingOf(t) /\ act[t].pc # "attach"
  BY <1>1 DEF DInv, Resources, HeldOK, BackingOf
<1>4. ASSUME NEW t \in Threads, act[t].res = j PROVE 3 <= Pushed(j)
  <2>1. act[t].pc \in {"alloc", "unref"}
    BY <1>3, <1>4 DEF Held, BackingOf, Creating, Deleting
  <2> QED BY <1>1, <1>4, <2>1, PushedValues DEF PushedAs
<1>5. ASSUME \A t \in Threads : act[t].res # j PROVE 3 <= Pushed(j)
  <2>1. res[j].st # "closing"
    BY <1>1, <1>5 DEF ResourceOK
  <2>2. res[j].st # "known"
    BY <1>1, <1>5 DEF ResourceOK
  <2>3. res[j].st \notin {"none", "new"}
    BY <1>5, PushedValues DEF PushedAs
  <2>4. res[j].st = "dead"
    BY <1>2, <2>1, <2>2, <2>3
  <2> QED BY <2>4, PushedValues DEF PushedAs
<1> QED BY <1>4, <1>5

\* The attach of a block comes after the detach of whoever had it.
LEMMA BackingsAttached ==
    ASSUME DInv, Stages, Backings, hres' = hres, res' = res, NEW i \in Ids, NEW b \in Blocks,
           res[i].blk = b, command' = Append(command, [op |-> "attach", id |-> i, blk |-> b])
    PROVE  Backings'
<1>0. PICK n : n = Len(command) + 1
  OBVIOUS
<1>1. /\ DOMAIN command = 1..Len(command) /\ DOMAIN command' = 1..n /\ Len(command) \in Nat
      /\ \A p \in DOMAIN command : command'[p] = command[p]
      /\ command'[n].op = "attach" /\ command'[n].id = i /\ command'[n].blk = b
  BY <1>0, Pushes DEF DInv, Ops
<1>2. /\ n \in DOMAIN command' /\ DOMAIN command \subseteq DOMAIN command'
      /\ \A p \in DOMAIN command : p < n
      /\ \A p \in DOMAIN command' : p \in DOMAIN command \/ p = n
      /\ \A p, q \in DOMAIN command' : p < q => p \in DOMAIN command
  BY <1>0, <1>1
<1>3. \A p \in DOMAIN command : \A j, k : Is(p, j, k)' <=> Is(p, j, k)
  BY <1>1, <1>2 DEF Is
<1>4. b # NoBlock /\ \A j \in Ids \ {i} : res[j].blk # b
  BY Values DEF DInv, Resources, BlocksAccounted
<1>5. ASSUME NEW j \in Ids, j # i, res[j].blk = NoBlock, res[j].kind = "buffer", 2 <= Pushed(j)
      PROVE  3 \in Steps(j) /\ 3 <= Pushed(j)
  BY <1>5, DetachPushed, StepsOf
<1>6. DetachedBefore'
  <2>1. SUFFICES ASSUME NEW k \in Ids, NEW j \in Ids, NEW p \in DOMAIN command', k # j, command'[p].id = k,
                        command'[p].op = "attach", hres[j].back = command'[p].blk
                 PROVE  \E q \in DOMAIN command' : q < p /\ Is(q, j, 3)'
    BY DEF DetachedBefore
  <2>2. CASE p \in DOMAIN command
    <3>1. PICK q \in DOMAIN command : q < p /\ Is(q, j, 3)
      BY <1>1, <2>1, <2>2 DEF Backings, DetachedBefore
    <3> QED BY <1>2, <1>3, <3>1
  <2>3. CASE p = n
    <3>1. k = i /\ j # i /\ hres[j].back = b
      BY <1>1, <2>1, <2>3
    <3>2. res[j].blk = NoBlock
      BY <1>4, <3>1 DEF Backings, SameBlock
    <3>3. res[j].kind = "buffer" /\ Done(j, 2) /\ ~Done(j, 3)
      BY <1>4, <3>1 DEF Stages, HostOK
    <3>4. 3 \in Steps(j) /\ 3 <= Pushed(j)
      BY <1>5, <3>1, <3>2, <3>3 DEF Done
    <3>5. Waits(j, 3)
      BY <3>3, <3>4 DEF Done
    <3>6. PICK q \in DOMAIN command : Is(q, j, 3)
      BY <3>5 DEF Waits
    <3> QED BY <1>2, <1>3, <2>3, <3>6
  <2> QED BY <1>2, <2>2, <2>3
<1>7. DetachedBetween'
  <2>1. SUFFICES ASSUME NEW k \in Ids, NEW j \in Ids, NEW p \in DOMAIN command', NEW q \in DOMAIN command',
                        k # j, p < q, command'[p].id = k, command'[p].op = "attach", command'[q].id = j,
                        command'[q].op = "attach", command'[p].blk = command'[q].blk
                 PROVE  \E r \in DOMAIN command' : p < r /\ r < q /\ Is(r, k, 3)'
    BY DEF DetachedBetween
  <2>2. p \in DOMAIN command /\ command'[p] = command[p]
    BY <1>1, <1>2, <2>1
  <2>3. CASE q \in DOMAIN command
    <3>1. PICK r \in DOMAIN command : p < r /\ r < q /\ Is(r, k, 3)
      BY <1>1, <2>1, <2>2, <2>3 DEF Backings, DetachedBetween
    <3> QED BY <1>2, <1>3, <3>1
  <2>4. CASE q = n
    <3>1. j = i /\ k # i /\ command[p].blk = b /\ command[p].id = k /\ command[p].op = "attach"
      BY <1>1, <2>1, <2>2, <2>4
    <3>2. res[k].blk = NoBlock
      BY <1>4, <2>2, <3>1 DEF Backings, SameBlock
    <3>3. res[k].kind = "buffer"
      BY <2>2, <3>1 DEF Stages, Fitting
    <3>4. Waits(k, 2)
      BY <2>2, <3>1, StageOf DEF Waits, Is
    <3>5. 2 <= Pushed(k) /\ \A l \in Steps(k) : 2 <= l /\ l <= Pushed(k) => Waits(k, l)
      BY <2>1, <3>4, WaitsPushed
    <3>6. 3 \in Steps(k) /\ 3 <= Pushed(k)
      BY <1>5, <3>1, <3>2, <3>3, <3>5
    <3>7. Waits(k, 3)
      BY <3>5, <3>6
    <3>8. PICK r \in DOMAIN command : Is(r, k, 3)
      BY <3>7 DEF Waits
    <3>9. Stage(command[p].op) = 2 /\ Stage(command[r].op) = 3 /\ command[r].id = command[p].id
      BY <3>1, <3>8, StageOf DEF Is
    <3>10. p # r /\ ~(r < p)
      <4>1. p # r
        BY <3>9
      <4>2. ~(r < p)
        <5>1. SUFFICES ASSUME r < p PROVE FALSE
          OBVIOUS
        <5>2. Stage(command[r].op) < Stage(command[p].op)
          BY <2>2, <3>8, <3>9, <5>1 DEF Stages, InOrder
        <5> QED BY <3>9, <5>2
      <4> QED BY <4>1, <4>2
    <3>11. p < r /\ r < n
      BY <1>1, <1>2, <2>2, <3>8, <3>10
    <3> QED BY <1>2, <1>3, <2>4, <3>8, <3>11
  <2> QED BY <1>2, <2>3, <2>4
<1>8. ASSUME NEW j \in Ids PROVE SameBlock(j)'
  <2>1. SameBlock(j)
    BY DEF Backings
  <2>2. \A p \in DOMAIN command' : command'[p].id = j /\ command'[p].op = "attach" =>
           command'[p].blk # NoBlock /\ res[j].blk \in {NoBlock, command'[p].blk}
    <3>1. SUFFICES ASSUME NEW p \in DOMAIN command', command'[p].id = j, command'[p].op = "attach"
                   PROVE  command'[p].blk # NoBlock /\ res[j].blk \in {NoBlock, command'[p].blk}
      OBVIOUS
    <3>2. CASE p = n
      BY <1>1, <1>4, <3>1, <3>2
    <3>3. CASE p \in DOMAIN command
      BY <1>1, <2>1, <3>1, <3>3 DEF SameBlock
    <3> QED BY <1>2, <3>2, <3>3
  <2> QED BY <2>1, <2>2 DEF SameBlock
<1>9. (\A k, j \in Ids : k # j /\ hres[k].back # NoBlock => hres[k].back # hres[j].back)'
  BY DEF Backings
<1> QED BY <1>6, <1>7, <1>8, <1>9 DEF Backings

\* The host attaches a block that it has of no other resource.
LEMMA BackingsExecuted ==
    ASSUME DInv, Stages, Backings, HostCommand
    PROVE  Backings'
<1>0. PICK cmd, i : cmd = command[1] /\ i = cmd.id
  OBVIOUS
<1>1. /\ command # <<>> /\ cmd \in ResourceCommand /\ hres[i] \in HostResource
      /\ hres'[i] = Execute(cmd, hres[i]) /\ \A j \in Ids \ {i} : hres'[j] = hres[j]
      /\ Len(command) \in Nat /\ DOMAIN command = 1..Len(command)
      /\ DOMAIN command' = 1..(Len(command) - 1)
      /\ \A p \in DOMAIN command' : p + 1 \in DOMAIN command /\ command'[p] = command[p + 1]
      /\ \A p \in DOMAIN command : p # 1 => p - 1 \in DOMAIN command' /\ command'[p - 1] = command[p]
      /\ res' = res
  BY <1>0, HostTakes
<1>2. i \in Ids /\ cmd.op \in Ops /\ 1 \in DOMAIN command
  BY <1>0, <1>1, HeadIsNext
<1>3. cmd.op = "attach" => hres[i].there /\ cmd.blk # NoBlock
  <2>1. SUFFICES ASSUME cmd.op = "attach" PROVE hres[i].there /\ cmd.blk # NoBlock
    OBVIOUS
  <2>2. Stage(cmd.op) = 2
    BY <2>1, StageOf
  <2>3. \A l \in Steps(i) : (l < 2 => Done(i, l)) /\ (2 <= l => ~Done(i, l))
    BY <1>0, <1>1, <2>2, HeadIsNext
  <2>4. Done(i, 1) /\ ~Done(i, 4)
    BY <2>3, StepsOf
  <2>5. hres[i].there
    BY <1>2, <2>4 DEF Stages, HostOK
  <2> QED BY <1>0, <1>2, <2>1, <2>5 DEF Backings, SameBlock
<1>4. /\ cmd.op = "attach" => hres'[i].back = cmd.blk
      /\ cmd.op \in {"detach", "unref"} => hres'[i].back = NoBlock
      /\ cmd.op \in {"create", "unmap"} => hres'[i].back = hres[i].back
      /\ cmd.op = "map" => hres'[i].back = hres[i].back
  <2>1. cmd.op = "map" => Execute(cmd, hres[i]).back = hres[i].back
    BY <1>1 DEF Execute, HostResource
  <2> QED BY <1>1, <1>3, <2>1, ExecuteFields
<1>5. \/ cmd.op = "attach" /\ hres'[i].back = cmd.blk
      \/ hres'[i].back = NoBlock
      \/ cmd.op \notin {"attach", "detach"} /\ hres'[i].back = hres[i].back
  BY <1>2, <1>4 DEF Ops
<1>6. \A j \in Ids \ {i} : cmd.op = "attach" => hres[j].back # cmd.blk
  <2>1. SUFFICES ASSUME NEW j \in Ids, j # i, cmd.op = "attach", hres[j].back = cmd.blk PROVE FALSE
    OBVIOUS
  <2>2. PICK q \in DOMAIN command : q < 1
    BY <1>0, <1>2, <2>1 DEF Backings, DetachedBefore
  <2> QED BY <1>1, <2>2
<1>7. \A k, j \in Ids : k # j /\ hres'[k].back # NoBlock => hres'[k].back # hres'[j].back
  <2>1. SUFFICES ASSUME NEW k \in Ids, NEW j \in Ids, k # j, hres'[k].back # NoBlock, hres'[k].back = hres'[j].back
                 PROVE  FALSE
    OBVIOUS
  <2>2. \A l \in Ids \ {i} : hres[l].back # NoBlock /\ hres[i].back # NoBlock => hres[l].back # hres[i].back
    BY <1>2 DEF Backings
  <2>3. CASE k = i
    BY <1>1, <1>5, <1>6, <2>1, <2>2, <2>3
  <2>4. CASE j = i
    BY <1>1, <1>5, <1>6, <2>1, <2>2, <2>4
  <2>5. CASE k # i /\ j # i
    BY <1>1, <2>1, <2>5 DEF Backings
  <2> QED BY <2>3, <2>4, <2>5
<1>8. \A p \in DOMAIN command : \A j : p # 1 /\ Is(p, j, 3) => Is(p - 1, j, 3)'
  BY <1>1 DEF Is
<1>9. Is(1, i, 3) => cmd.op # "attach" /\ (cmd.op \in {"detach", "unmap"})
  BY <1>0, <1>2, StageOf DEF Is
<1>10. DetachedBefore'
  <2>1. SUFFICES ASSUME NEW k \in Ids, NEW j \in Ids, NEW p \in DOMAIN command', k # j, command'[p].id = k,
                        command'[p].op = "attach", hres'[j].back = command'[p].blk
                 PROVE  \E q \in DOMAIN command' : q < p /\ Is(q, j, 3)'
    BY DEF DetachedBefore
  <2>2. p + 1 \in DOMAIN command /\ command'[p] = command[p + 1] /\ command[p + 1].blk # NoBlock
    BY <1>1, <2>1 DEF Backings, SameBlock
  <2>3. SUFFICES \E q \in DOMAIN command : q # 1 /\ q < p + 1 /\ Is(q, j, 3)
    <3>1. PICK q \in DOMAIN command : q # 1 /\ q < p + 1 /\ Is(q, j, 3)
      BY <2>3
    <3>2. q - 1 \in DOMAIN command' /\ Is(q - 1, j, 3)' /\ q - 1 < p
      BY <1>1, <1>8, <2>1, <3>1
    <3> QED BY <3>2
  <2>4. CASE hres[j].back = command[p + 1].blk /\ ~(j = i /\ cmd.op \in {"attach", "detach"})
    <3>1. PICK q \in DOMAIN command : q < p + 1 /\ Is(q, j, 3)
      BY <2>1, <2>2, <2>4 DEF Backings, DetachedBefore
    <3>2. q # 1
      <4>1. SUFFICES ASSUME q = 1 PROVE FALSE
        OBVIOUS
      <4>2. j = i /\ cmd.op = "unmap"
        BY <1>0, <1>9, <2>4, <3>1, <4>1 DEF Is
      <4>3. res[i].kind = "blob"
        BY <1>0, <1>2, <4>2 DEF Stages, Fitting
      <4>4. hres[i].back = NoBlock
        BY <1>2, <4>3 DEF Stages, HostOK
      <4> QED BY <2>2, <2>4, <4>2, <4>4
    <3> QED BY <3>1, <3>2
  <2>5. CASE j = i /\ cmd.op = "attach" /\ hres'[i].back = cmd.blk
    <3>1. 1 < p + 1 /\ command[1].blk = command[p + 1].blk /\ command[1].id = i /\ command[1].op = "attach"
      BY <1>0, <1>1, <2>1, <2>2, <2>5
    <3>2. PICK r \in DOMAIN command : 1 < r /\ r < p + 1 /\ Is(r, i, 3)
      BY <1>2, <2>1, <2>2, <2>5, <3>1 DEF Backings, DetachedBetween
    <3>3. r # 1
      BY <1>1, <3>2
    <3> QED BY <2>5, <3>2, <3>3
  <2>6. j # i => hres[j].back = command[p + 1].blk
    BY <1>1, <2>1, <2>2
  <2> QED BY <1>5, <2>1, <2>2, <2>4, <2>5, <2>6
<1>11. DetachedBetween'
  <2>1. SUFFICES ASSUME NEW k \in Ids, NEW j \in Ids, NEW p \in DOMAIN command', NEW q \in DOMAIN command',
                        k # j, p < q, command'[p].id = k, command'[p].op = "attach", command'[q].id = j,
                        command'[q].op = "attach", command'[p].blk = command'[q].blk
                 PROVE  \E r \in DOMAIN command' : p < r /\ r < q /\ Is(r, k, 3)'
    BY DEF DetachedBetween
  <2>2. /\ p + 1 \in DOMAIN command /\ command'[p] = command[p + 1]
        /\ q + 1 \in DOMAIN command /\ command'[q] = command[q + 1] /\ p + 1 < q + 1
    BY <1>1, <2>1
  <2>3. PICK r \in DOMAIN command : p + 1 < r /\ r < q + 1 /\ Is(r, k, 3)
    BY <2>1, <2>2 DEF Backings, DetachedBetween
  <2>4. r # 1 /\ p < r - 1 /\ r - 1 < q
    BY <1>1, <2>1, <2>3
  <2> QED BY <1>1, <1>8, <2>3, <2>4
<1>12. ASSUME NEW j \in Ids PROVE SameBlock(j)'
  <2>1. SameBlock(j)
    BY DEF Backings
  <2>2. hres'[j].back # NoBlock => res[j].blk \in {NoBlock, hres'[j].back}
    <3>1. CASE j = i
      BY <1>0, <1>2, <1>5, <2>1, <3>1 DEF SameBlock
    <3>2. CASE j # i
      BY <1>1, <2>1, <3>2 DEF SameBlock
    <3> QED BY <3>1, <3>2
  <2> QED BY <1>1, <2>1, <2>2 DEF SameBlock
<1> QED BY <1>7, <1>10, <1>11, <1>12 DEF Backings
-----------------------------------------------------------------------------
(* The contexts the host has.                                                *)

\* A step that makes no context and ends none.
LEMMA ContextsKept ==
    ASSUME HostContexts, UNCHANGED <<control, hctx>>,
           DOMAIN ctx' = DOMAIN ctx,
           \A c \in DOMAIN ctx : ctx'[c].proc = ctx[c].proc /\ ctx'[c].freed = ctx[c].freed,
           \A t \in Threads : act'[t].pc = "ctxcreate" <=> act[t].pc = "ctxcreate"
    PROVE  HostContexts'
<1>1. \A p : HasContext(p)' <=> HasContext(p)
  BY DEF HasContext, Live
<1>2. \A p : Expected(p)' <=> Expected(p)
  BY <1>1 DEF Expected
<1> QED BY <1>2 DEF HostContexts, HostContext

\* A context command is pushed: it is the last one about its process.
LEMMA ContextsPushed ==
    ASSUME DInv, HostContexts, hctx' = hctx, NEW q \in Procs, NEW op \in {"create", "destroy"},
           control' = Append(control, [op |-> op, proc |-> q]),
           op = "create" <=> Expected(q)',
           \A p \in Procs \ {q} : Expected(p)' <=> Expected(p)
    PROVE  HostContexts'
<1> DEFINE cmd == [op |-> op, proc |-> q]
<1>1. cmd.op = op /\ cmd.proc = q /\ cmd \in ControlCommand
  BY DEF ControlCommand
<1>2. control \in Seq(ControlCommand)
  BY DEF DInv, Types, ControlCommand
<1> HIDE DEF cmd
<1>3. /\ control' \in Seq(ControlCommand) /\ Len(control') = Len(control) + 1
      /\ \A k \in 1..Len(control) : control'[k] = control[k]
      /\ control'[Len(control) + 1] = cmd
  BY <1>1, <1>2, AppendProperties DEF cmd
<1>4. PICK n : n = Len(control) + 1
  OBVIOUS
<1>5. DOMAIN control = 1..Len(control) /\ DOMAIN control' = 1..n /\ Len(control) \in Nat
  BY <1>2, <1>3, <1>4
<1>6. /\ n \in DOMAIN control' /\ control'[n].proc = q /\ control'[n].op = op
      /\ \A k \in DOMAIN control' : k = n \/ (k < n /\ k \in DOMAIN control)
      /\ \A k \in DOMAIN control : k \in DOMAIN control' /\ k < n /\ control'[k] = control[k]
  BY <1>1, <1>3, <1>4, <1>5
<1>7. HostContext(q)'
  <2>1. ~(\A k \in DOMAIN control' : control'[k].proc # q)
    BY <1>6
  <2>2. ASSUME NEW k \in DOMAIN control', control'[k].proc = q,
               \A l \in DOMAIN control' : k < l => control'[l].proc # q
        PROVE  control'[k].op = "create" <=> Expected(q)'
    <3>1. k = n
      BY <1>6, <2>2
    <3> QED BY <1>6, <3>1
  <2> QED BY <2>1, <2>2 DEF HostContext
<1>8. ASSUME NEW p \in Procs, p # q PROVE HostContext(p)'
  <2>1. HostContext(p) /\ (Expected(p)' <=> Expected(p))
    BY <1>8 DEF HostContexts
  <2>2. \A k \in DOMAIN control' : control'[k].proc = p => k \in DOMAIN control /\ control'[k] = control[k]
    BY <1>6, <1>8
  <2>3. (\A k \in DOMAIN control' : control'[k].proc # p) <=> (\A k \in DOMAIN control : control[k].proc # p)
    BY <1>6, <2>2
  <2>4. ASSUME NEW k \in DOMAIN control', control'[k].proc = p,
               \A l \in DOMAIN control' : k < l => control'[l].proc # p
        PROVE  control'[k].op = "create" <=> Expected(p)'
    <3>1. k \in DOMAIN control /\ control'[k] = control[k]
      BY <2>2, <2>4
    <3>2. \A l \in DOMAIN control : k < l => control[l].proc # p
      BY <1>6, <2>4
    <3> QED BY <2>1, <2>4, <3>1, <3>2 DEF HostContext
  <2> QED BY <2>1, <2>3, <2>4 DEF HostContext
<1> QED BY <1>7, <1>8 DEF HostContexts

\* The host takes a context command.
LEMMA ContextsTaken ==
    ASSUME DInv, HostContexts, HostControl
    PROVE  HostContexts'
<1>0. PICK cmd : cmd = control[1]
  OBVIOUS
<1>1. /\ control # <<>> /\ control' = Tail(control)
      /\ hctx' = (IF Head(control).op = "create" THEN hctx \cup {Head(control).proc}
                  ELSE hctx \ {Head(control).proc})
      /\ UNCHANGED <<ctx, act>>
  BY DEF HostControl, driver
<1>2. control \in Seq(ControlCommand)
  BY DEF DInv, Types, ControlCommand
<1>3. /\ Head(control) = cmd /\ Len(control') = Len(control) - 1 /\ control' \in Seq(ControlCommand)
      /\ \A k \in 1..(Len(control) - 1) : control'[k] = control[k + 1]
      /\ Len(control) \in Nat /\ Len(control) # 0
  BY <1>0, <1>1, <1>2, Dequeued
<1>4. /\ DOMAIN control = 1..Len(control) /\ DOMAIN control' = 1..(Len(control) - 1)
      /\ 1 \in DOMAIN control
  BY <1>2, <1>3
<1>5. /\ \A k \in DOMAIN control' : k + 1 \in DOMAIN control /\ control'[k] = control[k + 1]
      /\ \A k \in DOMAIN control : k = 1 \/ (k - 1 \in DOMAIN control' /\ k = (k - 1) + 1)
      /\ \A k, l \in DOMAIN control' : k < l <=> k + 1 < l + 1
      /\ \A k \in DOMAIN control : ~(k < 1) /\ (k # 1 => 1 < k)
  BY <1>3, <1>4
<1>6. \A p : Expected(p)' <=> Expected(p)
  BY <1>1 DEF Expected, HasContext, Live
<1>7. ASSUME NEW p \in Procs PROVE HostContext(p)'
  <2>1. HostContext(p)
    BY DEF HostContexts
  <2>2. ASSUME NEW k \in DOMAIN control', control'[k].proc = p,
               \A l \in DOMAIN control' : k < l => control'[l].proc # p
        PROVE  control'[k].op = "create" <=> Expected(p)'
    <3>1. k + 1 \in DOMAIN control /\ control'[k] = control[k + 1]
      BY <1>5, <2>2
    <3>2. \A l \in DOMAIN control : k + 1 < l => control[l].proc # p
      <4>1. SUFFICES ASSUME NEW l \in DOMAIN control, k + 1 < l PROVE control[l].proc # p
        OBVIOUS
      <4>2. l # 1 /\ k < l - 1
        BY <1>3, <1>4, <2>2, <4>1
      <4>3. l - 1 \in DOMAIN control' /\ control'[l - 1] = control[(l - 1) + 1] /\ l = (l - 1) + 1
        BY <1>5, <4>1, <4>2
      <4>4. control'[l - 1].proc # p
        BY <2>2, <4>2, <4>3
      <4> QED BY <4>3, <4>4
    <3> QED BY <1>6, <2>1, <2>2, <3>1, <3>2 DEF HostContext
  <2>3. ASSUME \A k \in DOMAIN control' : control'[k].proc # p
        PROVE  p \in hctx' <=> Expected(p)'
    <3>1. \A l \in DOMAIN control : l # 1 => control[l].proc # p
      <4>1. SUFFICES ASSUME NEW l \in DOMAIN control, l # 1 PROVE control[l].proc # p
        OBVIOUS
      <4>2. l - 1 \in DOMAIN control' /\ control'[l - 1] = control[(l - 1) + 1] /\ l = (l - 1) + 1
        BY <1>5, <4>1
      <4> QED BY <2>3, <4>2
    <3>2. CASE cmd.proc = p
      <4>1. \A l \in DOMAIN control : 1 < l => control[l].proc # p
        <5>1. \A l \in DOMAIN control : 1 < l => l # 1
          BY <1>4
        <5> QED BY <3>1, <5>1
      <4>2. cmd.op = "create" <=> Expected(p)
        BY <1>0, <1>4, <2>1, <3>2, <4>1 DEF HostContext
      <4> QED BY <1>1, <1>3, <1>6, <3>2, <4>2
    <3>3. CASE cmd.proc # p
      <4>1. p \in hctx <=> Expected(p)
        BY <1>0, <2>1, <3>1, <3>3 DEF HostContext
      <4> QED BY <1>1, <1>3, <1>6, <3>3, <4>1
    <3> QED BY <3>2, <3>3
  <2> QED BY <2>2, <2>3 DEF HostContext
<1> QED BY <1>7 DEF HostContexts

-----------------------------------------------------------------------------
(* The steps preserve the invariant of the host.                             *)

\* A step of handler t about resource i.
About(t, i) ==
    /\ act[t].res \in {0, i} /\ act'[t].res \in {0, i}
    /\ act[t].pc # "ctxcreate" /\ act'[t].pc # "ctxcreate"
    /\ \A u \in Threads \ {t} : act'[u] = act[u]
    /\ \A j \in Ids \ {i} : res'[j] = res[j]
    /\ DOMAIN ctx' = DOMAIN ctx
    /\ \A c \in DOMAIN ctx : ctx'[c].proc = ctx[c].proc /\ ctx'[c].freed = ctx[c].freed
    /\ UNCHANGED <<control, hctx, hres>>

\* It is about no other resource and about no context.
LEMMA AboutOne ==
    ASSUME HostContexts, NEW t \in Threads, NEW i, About(t, i)
    PROVE  /\ HostContexts'
           /\ \A j \in Ids \ {i} : Pushed(j)' = Pushed(j) /\ res'[j].kind = res[j].kind /\ res'[j].blk = res[j].blk
<1>1. HostContexts'
  BY ContextsKept DEF About
<1>2. \A j \in Ids \ {i} : Pushed(j)' = Pushed(j)
  <2>1. /\ \A u \in Threads \ {t} : act'[u] = act[u]
        /\ act[t].res \in {0, i} /\ act'[t].res \in {0, i}
        /\ \A j \in Ids \ {i} : res'[j] = res[j]
    BY DEF About
  <2> QED BY <2>1, PushedOther, SMTT(20)
<1> QED BY <1>1, <1>2 DEF About

\* The next step of resource i, other than its attach, is pushed.
LEMMA HostPushed ==
    ASSUME DInv, DInv', HInv, ~lost', NEW t \in Threads, NEW i \in Ids, About(t, i),
           NEW op \in Ops, op # "attach", PushCommand([op |-> op, id |-> i, blk |-> NoBlock]),
           res'[i].kind = res[i].kind \/ Pushed(i) = 0,
           res'[i].blk \in {res[i].blk, NoBlock},
           Pushed(i)' = Stage(op), Pushed(i) < Stage(op), Stage(op) \in Steps(i)',
           \A l \in Steps(i)' : l <= Pushed(i) \/ Stage(op) <= l,
           op = "detach" => res'[i].kind = "buffer",
           op \in {"map", "unmap"} => res'[i].kind = "blob"
    PROVE  HInv'
<1>1. /\ command' = Append(command, [op |-> op, id |-> i, blk |-> NoBlock]) /\ ~lost
  BY CommandQueued DEF DInv, Ops
<1>2. Stages /\ Backings /\ HostContexts
  BY <1>1 DEF HInv
<1>3. /\ HostContexts'
      /\ \A j \in Ids \ {i} : Pushed(j)' = Pushed(j) /\ res'[j].kind = res[j].kind /\ res'[j].blk = res[j].blk
  BY <1>2, AboutOne
<1>4. hres' = hres
  BY DEF About
<1>5. Stages'
  BY <1>1, <1>2, <1>3, <1>4, StagePushed
<1>6. Backings'
  <2>1. /\ DOMAIN command = 1..Len(command) /\ DOMAIN command' = 1..(Len(command) + 1)
        /\ Len(command) \in Nat
        /\ \A p \in DOMAIN command : command'[p] = command[p]
        /\ command'[Len(command) + 1].op = op
    BY <1>1, Pushes DEF DInv
  <2>2. DOMAIN command \subseteq DOMAIN command'
    BY <2>1
  <2>3. \A p \in DOMAIN command' \ DOMAIN command : command'[p].op # "attach"
    <3>1. \A p \in DOMAIN command' \ DOMAIN command : p = Len(command) + 1
      BY <2>1
    <3> QED BY <2>1, <3>1
  <2>4. \A j \in Ids : res'[j].blk \in {res[j].blk, NoBlock}
    BY <1>3
  <2> QED BY <1>2, <1>4, <2>1, <2>2, <2>3, <2>4, BackingsKept
<1> QED BY <1>3, <1>5, <1>6 DEF HInv

\* Nothing is pushed, and the driver passes no step of resource i.
LEMMA HostQuiet ==
    ASSUME DInv, HInv, NEW t \in Threads, NEW i \in Ids \cup {0}, About(t, i), UNCHANGED <<command, lost>>,
           i # 0 => /\ res'[i].kind = res[i].kind
                    /\ res'[i].blk \in {res[i].blk, NoBlock} \/ Pushed(i) < 2
                    /\ \A l \in Steps(i) : l <= Pushed(i)' <=> l <= Pushed(i)
    PROVE  HInv'
<1>1. SUFFICES ASSUME ~lost PROVE Stages' /\ Backings' /\ HostContexts'
  BY DEF HInv
<1>2. Stages /\ Backings /\ HostContexts
  BY <1>1 DEF HInv
<1>3. /\ HostContexts'
      /\ \A j \in Ids \ {i} : Pushed(j)' = Pushed(j) /\ res'[j].kind = res[j].kind /\ res'[j].blk = res[j].blk
  BY <1>2, AboutOne
<1>4. hres' = hres /\ 0 \notin Ids
  BY Values DEF About
<1>5. Stages'
  <2>1. \A j \in Ids : /\ res'[j].kind = res[j].kind
                       /\ \A l \in Steps(j) : l <= Pushed(j)' <=> l <= Pushed(j)
    BY <1>3, <1>4
  <2> QED BY <1>2, <1>4, <2>1, StagesKept
<1>6. Backings'
  BY <1>2, <1>3, <1>4, BackingsKept
<1> QED BY <1>3, <1>5, <1>6
\* The values of Pushed, after a step.
LEMMA PushedNext ==
    ASSUME DInv' PROVE \A i \in Ids : PushedAs(i)'
<1>1. DInv' => (\A i \in Ids : PushedAs(i))'
  BY PushedValues, PTL
<1> QED BY <1>1

\* Nobody else holds the resource of handler t, and when it lets go nobody does.
LEMMA LetGo ==
    ASSUME DInv, NEW t \in Threads, act[t].res # 0, \A u \in Threads \ {t} : act'[u] = act[u],
           act'[t].res = 0
    PROVE  \A u \in Threads : act'[u].res # act[t].res
  BY DEF DInv, Resources, OneHolder

\* A resource is created.
LEMMA HostCreateResource ==
    ASSUME DInv, WInv, DInv', HInv, NEW t \in Threads, NEW kind \in Kinds, CreateResource(t, kind)
    PROVE  HInv'
<1>0. PICK i : i = nextRes
  OBVIOUS
<1> DEFINE x == [NoResource EXCEPT !.kind = kind, !.st = "new"]
           r == [Idle EXCEPT !.ctx = Reaches(t), !.res = i, !.pc = IF kind = "buffer" THEN "alloc" ELSE "insert"]
<1>1. /\ act[t].pc = "idle" /\ i <= MaxRes
      /\ res' = [res EXCEPT ![i] = x]
      /\ PushCommand([op |-> "create", id |-> i, blk |-> NoBlock])
      /\ act' = [act EXCEPT ![t] = r]
      /\ UNCHANGED <<ctx, control, hctx, hres>>
  BY <1>0, LookupContext DEF CreateResource, host
<1>2. SUFFICES ASSUME ~lost' PROVE HInv'
  BY DEF HInv
<1>3. Types /\ act[t].res = 0
  BY <1>1, IdleHandler DEF DInv
<1>4. i \in Ids
  BY <1>0, <1>1, <1>3 DEF Types, Ids
<1>5. x.kind = kind /\ x.st = "new" /\ x.blk = NoBlock
  BY DEF NoResource
<1>6. r.res = i /\ r.pc \in {"alloc", "insert"} /\ (r.pc = "alloc" <=> kind = "buffer")
  BY DEF Idle
<1> HIDE DEF x, r
<1>7. /\ act'[t] = r /\ \A u \in Threads \ {t} : act'[u] = act[u]
      /\ res'[i] = x /\ \A j \in Ids \ {i} : res'[j] = res[j]
  BY <1>1, <1>3, <1>4 DEF Types
<1>8. About(t, i)
  BY <1>1, <1>3, <1>6, <1>7 DEF About
<1>9. Pushed(i) = 0
  <2>1. ResourceOK(i)
    BY <1>4 DEF DInv, Resources
  <2>2. nextRes <= i
    BY <1>0, <1>3 DEF Types
  <2>3. res[i].st = "none"
    BY <2>1, <2>2 DEF ResourceOK
  <2> QED BY <1>4, <2>3, PushedValues DEF PushedAs
<1>10. Pushed(i)' = 1
  <2>1. PushedAs(i)'
    BY <1>4, PushedNext
  <2> QED BY <1>5, <1>6, <1>7, <2>1 DEF PushedAs
<1>11. 1 \in Steps(i)' /\ \A l \in Steps(i)' : l <= 0 \/ 1 <= l
  <2>1. 1 \in Steps(i)' /\ \A l \in Steps(i)' : l \in 1..4
    BY StepsNext
  <2> QED BY <2>1
<1>12. "create" \in Ops /\ Stage("create") = 1 /\ res'[i].blk \in {res[i].blk, NoBlock}
  BY <1>5, <1>7, StageOf DEF Ops
<1> QED BY <1>1, <1>2, <1>4, <1>8, <1>9, <1>10, <1>11, <1>12, HostPushed

\* The resource gets its block, of which the host knows nothing yet, or is given up.
LEMMA HostAllocateBacking ==
    ASSUME DInv, DInv', HInv, NEW t \in Threads, AllocateBacking(t)
    PROVE  HInv'
<1>0. PICK i : i = act[t].res
  OBVIOUS
<1>1. /\ act[t].pc = "alloc" /\ UNCHANGED <<ctx, control, command, lost, hctx, hres>>
  BY DEF AllocateBacking, queues, host
<1>2. Held(t) /\ Types
  BY <1>1 DEF Held, Creating, DInv
<1>3. i \in Ids /\ i # 0 /\ res[i] \in Resource /\ HeldOK(t)
  BY <1>0, <1>2, HolderKnows
<1>4. Pushed(i) = 1 /\ res[i].st = "new"
  BY <1>0, <1>1, <1>3, PushedValues DEF PushedAs, HeldOK, Creating
<1>5. PushedAs(i)'
  BY <1>3, PushedNext
<1>6. CASE Return(t) /\ res' = res
  <2>1. act'[t] = Idle /\ \A u \in Threads \ {t} : act'[u] = act[u]
    BY <1>2, <1>6, Returned DEF Went
  <2>2. Pushed(i)' = 1
    <3>1. \A u \in Threads : act'[u].res # i
      BY <1>0, <1>3, <2>1, LetGo, Values
    <3> QED BY <1>4, <1>5, <1>6, <3>1 DEF PushedAs
  <2>3. About(t, i)
    BY <1>0, <1>1, <1>6, <2>1, Values DEF About
  <2> QED BY <1>1, <1>3, <1>4, <1>6, <2>2, <2>3, HostQuiet
<1>7. ASSUME NEW b, res' = [res EXCEPT ![act[t].res].blk = b], To(t, "attach")
      PROVE  HInv'
  <2>1. /\ act'[t].pc = "attach" /\ act'[t].res = i /\ \A u \in Threads \ {t} : act'[u] = act[u]
    BY <1>0, <1>2, <1>7, WentTo DEF Went
  <2>2. res'[i].kind = res[i].kind /\ \A j \in Ids \ {i} : res'[j] = res[j]
    BY <1>0, <1>2, <1>3, <1>7 DEF Types, Resource
  <2>3. Pushed(i)' = 1
    BY <1>5, <2>1 DEF PushedAs
  <2>4. About(t, i)
    BY <1>0, <1>1, <2>1, <2>2 DEF About
  <2> QED BY <1>1, <1>3, <1>4, <2>2, <2>3, <2>4, HostQuiet
<1> QED BY <1>6, <1>7 DEF AllocateBacking

\* The attach of the block is pushed.
LEMMA HostAttachResourceBacking ==
    ASSUME DInv, DInv', HInv, NEW t \in Threads, AttachResourceBacking(t)
    PROVE  HInv'
<1>0. PICK i, b : i = act[t].res /\ b = res[i].blk
  OBVIOUS
<1>1. /\ act[t].pc = "attach" /\ To(t, "insert")
      /\ PushCommand([op |-> "attach", id |-> i, blk |-> b])
      /\ UNCHANGED <<ctx, res, control, hctx, hres>>
  BY <1>0 DEF AttachResourceBacking, driver, host
<1>2. SUFFICES ASSUME ~lost' PROVE HInv'
  BY DEF HInv
<1>3. Held(t) /\ Types
  BY <1>1 DEF Held, Creating, DInv
<1>4. i \in Ids /\ i # 0 /\ res[i] \in Resource /\ BackingOf(t)
  BY <1>0, <1>3, HolderKnows
<1>5. res[i].kind = "buffer" /\ b \in Blocks /\ b # NoBlock
  BY <1>0, <1>1, <1>4 DEF BackingOf, Resource
<1>6. /\ act'[t].pc = "insert" /\ act'[t].res = i /\ \A u \in Threads \ {t} : act'[u] = act[u]
  BY <1>0, <1>1, <1>3, WentTo DEF Went
<1>7. Pushed(i) = 1
  BY <1>0, <1>1, <1>4, PushedValues DEF PushedAs
<1>8. Pushed(i)' = 2
  <2>1. PushedAs(i)'
    BY <1>4, PushedNext
  <2> QED BY <1>1, <1>5, <1>6, <2>1 DEF PushedAs
<1>9. About(t, i)
  BY <1>0, <1>1, <1>6 DEF About
<1>10. command' = Append(command, [op |-> "attach", id |-> i, blk |-> b]) /\ ~lost
  BY <1>1, <1>2, <1>3, <1>4, <1>5, CommandQueued
<1>11. Stages /\ Backings /\ HostContexts
  BY <1>10 DEF HInv
<1>12. HostContexts' /\ \A j \in Ids \ {i} : Pushed(j)' = Pushed(j) /\ res'[j].kind = res[j].kind
  BY <1>9, <1>11, AboutOne
<1>13. Stages'
  <2>1. 2 \in Steps(i)' /\ \A l \in Steps(i)' : l \in 1..4
    BY <1>1, <1>5, StepsNext
  <2>2. \A l \in Steps(i)' : l <= 1 \/ 2 <= l
    BY <2>1
  <2>3. "attach" \in Ops /\ Stage("attach") = 2
    BY StageOf DEF Ops
  <2> QED BY <1>1, <1>4, <1>5, <1>7, <1>8, <1>10, <1>11, <1>12, <2>1, <2>2, <2>3, StagePushed
<1>14. Backings'
  BY <1>0, <1>1, <1>4, <1>5, <1>10, <1>11, BackingsAttached
<1> QED BY <1>12, <1>13, <1>14 DEF HInv

\* A change of a list is no change of a context.
LEMMA ListOnly ==
    ASSUME Types, NEW c \in DOMAIN ctx, NEW l, ctx' = [ctx EXCEPT ![c].list = l]
    PROVE  /\ DOMAIN ctx' = DOMAIN ctx
           /\ \A d \in DOMAIN ctx : ctx'[d].proc = ctx[d].proc /\ ctx'[d].freed = ctx[d].freed
<1>1. ctx[c] \in Context
  BY DEF Types
<1>2. [ctx[c] EXCEPT !.list = l].proc = ctx[c].proc /\ [ctx[c] EXCEPT !.list = l].freed = ctx[c].freed
  BY <1>1 DEF Context
<1>3. ctx'[c] = [ctx[c] EXCEPT !.list = l] /\ \A d \in DOMAIN ctx : d # c => ctx'[d] = ctx[d]
  OBVIOUS
<1> QED BY <1>2, <1>3

\* The resource is listed; nothing is pushed.
LEMMA HostInsertResource ==
    ASSUME DInv, DInv', HInv, NEW t \in Threads, InsertResource(t)
    PROVE  HInv'
<1>0. PICK i, c : i = act[t].res /\ c = act[t].ctx
  OBVIOUS
<1>1. /\ act[t].pc = "insert" /\ ctx' = [ctx EXCEPT ![c].list = <<i>> \o ctx[c].list]
      /\ IF res[i].kind = "blob" THEN To(t, "mapblob") /\ UNCHANGED res
         ELSE Return(t) /\ res' = [res EXCEPT ![i].st = "known"]
      /\ UNCHANGED <<control, command, lost, hctx, hres>>
  BY <1>0 DEF InsertResource, queues, host
<1>2. Held(t) /\ Types
  BY <1>1 DEF Held, Creating, DInv
<1>3. i \in Ids /\ i # 0 /\ res[i] \in Resource /\ c \in DOMAIN ctx
  BY <1>0, <1>2, HolderKnows
<1>4. /\ DOMAIN ctx' = DOMAIN ctx
      /\ \A d \in DOMAIN ctx : ctx'[d].proc = ctx[d].proc /\ ctx'[d].freed = ctx[d].freed
  BY <1>1, <1>2, <1>3, ListOnly
<1>5. PushedAs(i) /\ PushedAs(i)'
  BY <1>3, PushedValues, PushedNext
<1>6. CASE res[i].kind = "blob"
  <2>1. act'[t].pc = "mapblob" /\ act'[t].res = i /\ (\A u \in Threads \ {t} : act'[u] = act[u]) /\ res' = res
    BY <1>0, <1>1, <1>2, <1>6, WentTo DEF Went
  <2>2. Pushed(i) = 1 /\ Pushed(i)' = 1
    BY <1>0, <1>1, <1>5, <1>6, <2>1 DEF PushedAs
  <2>3. About(t, i)
    BY <1>0, <1>1, <1>4, <2>1 DEF About
  <2> QED BY <1>1, <1>3, <2>1, <2>2, <2>3, HostQuiet
<1>7. CASE res[i].kind # "blob"
  <2>1. act'[t] = Idle /\ \A u \in Threads \ {t} : act'[u] = act[u]
    BY <1>1, <1>2, <1>7, Returned DEF Went
  <2>2. /\ res'[i].kind = res[i].kind /\ res'[i].blk = res[i].blk /\ res'[i].st = "known"
        /\ \A j \in Ids \ {i} : res'[j] = res[j]
    BY <1>1, <1>2, <1>3, <1>7 DEF Types, Resource
  <2>3. \A u \in Threads : act'[u].res # i
    BY <1>0, <1>3, <2>1, LetGo, Values
  <2>4. Pushed(i)' = 2
    BY <1>5, <2>2, <2>3 DEF PushedAs
  <2>5. About(t, i)
    BY <1>0, <1>1, <1>4, <2>1, <2>2, Values DEF About
  <2>6. \A l \in Steps(i) : l <= 2 <=> l <= Pushed(i)
    <3>1. CASE res[i].kind = "buffer"
      BY <1>0, <1>1, <1>5, <3>1 DEF PushedAs
    <3>2. CASE res[i].kind # "buffer"
      <4>1. res[i].kind = "plain"
        BY <1>3, <1>7, <3>2 DEF Resource
      <4>2. Steps(i) = {1, 4}
        BY <4>1, StepsOf
      <4>3. Pushed(i) = 1
        BY <1>0, <1>1, <1>5, <3>2 DEF PushedAs
      <4> QED BY <4>2, <4>3
    <3> QED BY <3>1, <3>2
  <2> QED BY <1>1, <1>3, <2>2, <2>4, <2>5, <2>6, HostQuiet
<1> QED BY <1>6, <1>7

\* The mapping of the blob is pushed.
LEMMA HostMapBlobResource ==
    ASSUME DInv, DInv', HInv, NEW t \in Threads, MapBlobResource(t)
    PROVE  HInv'
<1>0. PICK i : i = act[t].res
  OBVIOUS
<1>1. /\ act[t].pc = "mapblob" /\ Return(t) /\ res' = [res EXCEPT ![i].st = "known"]
      /\ PushCommand([op |-> "map", id |-> i, blk |-> NoBlock])
      /\ UNCHANGED <<ctx, control, hctx, hres>>
  BY <1>0 DEF MapBlobResource, host
<1>2. SUFFICES ASSUME ~lost' PROVE HInv'
  BY DEF HInv
<1>3. Held(t) /\ Types
  BY <1>1 DEF Held, Creating, DInv
<1>4. i \in Ids /\ i # 0 /\ res[i] \in Resource /\ BackingOf(t)
  BY <1>0, <1>3, HolderKnows
<1>5. act'[t] = Idle /\ \A u \in Threads \ {t} : act'[u] = act[u]
  BY <1>1, <1>3, Returned DEF Went
<1>6. /\ res'[i].kind = res[i].kind /\ res'[i].blk = res[i].blk /\ res'[i].st = "known"
      /\ res[i].kind = "blob" /\ \A j \in Ids \ {i} : res'[j] = res[j]
  BY <1>0, <1>1, <1>3, <1>4 DEF Types, Resource, BackingOf
<1>7. \A u \in Threads : act'[u].res # i
  BY <1>0, <1>4, <1>5, LetGo, Values
<1>8. Pushed(i) = 1 /\ Pushed(i)' = 2
  <2>1. PushedAs(i) /\ PushedAs(i)'
    BY <1>4, PushedValues, PushedNext
  <2> QED BY <1>0, <1>1, <1>6, <1>7, <2>1 DEF PushedAs
<1>9. About(t, i)
  BY <1>0, <1>1, <1>5, <1>6, Values DEF About
<1>10. 2 \in Steps(i)' /\ \A l \in Steps(i)' : l <= 1 \/ 2 <= l
  <2>1. 2 \in Steps(i)' /\ \A l \in Steps(i)' : l \in 1..4
    BY <1>6, StepsNext
  <2> QED BY <2>1
<1>11. "map" \in Ops /\ Stage("map") = 2
  BY StageOf DEF Ops
<1> QED BY <1>1, <1>2, <1>4, <1>6, <1>8, <1>9, <1>10, <1>11, HostPushed
\* A client closes a handle; nothing is pushed.
LEMMA HostCloseLookup ==
    ASSUME DInv, WInv, DInv', HInv, NEW t \in Threads, NEW i \in Ids, CloseLookup(t, i)
    PROVE  HInv'
<1> DEFINE r == [Idle EXCEPT !.ctx = Reaches(t), !.res = i, !.pc = "remove"]
<1>1. /\ Finds(t) /\ act[t].pc = "idle" /\ res[i].st = "known" /\ InList(Reaches(t), i)
      /\ res' = [res EXCEPT ![i].st = "closing"] /\ act' = [act EXCEPT ![t] = r]
      /\ UNCHANGED <<ctx, control, command, lost, hctx, hres>>
  BY LookupContext DEF CloseLookup, InList, queues, host
<1>2. Types /\ Contexts /\ act[t].res = 0
  BY <1>1, IdleHandler DEF DInv
<1>3. r.pc = "remove" /\ r.res = i
  BY DEF Idle
<1> HIDE DEF r
<1>4. /\ act'[t] = r /\ \A u \in Threads \ {t} : act'[u] = act[u]
  BY <1>1, <1>2 DEF Types
<1>5. /\ res'[i].kind = res[i].kind /\ res'[i].blk = res[i].blk /\ \A j \in Ids \ {i} : res'[j] = res[j]
  BY <1>1, <1>2 DEF Types, Resource
<1>6. PICK c \in DOMAIN ctx : c = Reaches(t)
  BY <1>1, LookupContext DEF Live
<1>7. \A u \in Threads : act[u].res # i
  BY <1>1, <1>6, ListedNotHeld
<1>8. Pushed(i) = 2 /\ Pushed(i)' = 2
  <2>1. PushedAs(i) /\ PushedAs(i)'
    BY PushedValues, PushedNext
  <2> QED BY <1>1, <1>3, <1>4, <1>7, <2>1 DEF PushedAs
<1>9. About(t, i)
  BY <1>1, <1>2, <1>3, <1>4, <1>5 DEF About
<1> QED BY <1>1, <1>5, <1>8, <1>9, HostQuiet

\* DeleteResource begins: it passes the detach of a resource that has no memory.
LEMMA DeleteBegins ==
    ASSUME DInv, DInv', NEW t \in Threads, NEW i \in Ids, Pushed(i) = 2, res' = res,
           act'[t].res = i, act'[t].pc = DeletePc(i)
    PROVE  \A l \in Steps(i) : l <= Pushed(i)' <=> l <= Pushed(i)
<1>1. PushedAs(i)'
  BY PushedNext
<1>2. CASE res[i].kind = "plain"
  <2>1. act'[t].pc = "unref"
    BY <1>2 DEF DeletePc
  <2>2. Pushed(i)' = 3
    BY <1>1, <2>1 DEF PushedAs
  <2>3. Steps(i) = {1, 4}
    BY <1>2, StepsOf
  <2> QED BY <2>2, <2>3
<1>3. CASE res[i].kind # "plain"
  <2>1. act'[t].pc = "detach"
    BY <1>3 DEF DeletePc
  <2>2. Pushed(i)' = 2
    BY <1>1, <2>1 DEF PushedAs
  <2> QED BY <2>2
<1> QED BY <1>2, <1>3

\* The resource leaves the list; nothing is pushed.
LEMMA HostCloseRemove ==
    ASSUME DInv, DInv', HInv, NEW t \in Threads, CloseRemove(t)
    PROVE  HInv'
<1>0. PICK i, c : i = act[t].res /\ c = act[t].ctx
  OBVIOUS
<1>1. /\ act[t].pc = "remove" /\ ctx' = [ctx EXCEPT ![c].list = RemoveFirst(ctx[c].list, i)]
      /\ To(t, DeletePc(i))
      /\ UNCHANGED <<res, control, command, lost, hctx, hres>>
  BY <1>0 DEF CloseRemove, queues, host
<1>2. Held(t) /\ Types
  BY <1>1 DEF Held, DInv
<1>3. i \in Ids /\ i # 0 /\ c \in DOMAIN ctx
  BY <1>0, <1>2, HolderKnows
<1>4. DeletePc(i) \in {"unref", "detach"}
  BY DEF DeletePc
<1>5. act'[t].pc = DeletePc(i) /\ act'[t].res = i /\ \A u \in Threads \ {t} : act'[u] = act[u]
  BY <1>0, <1>1, <1>2, <1>4, WentTo DEF Went
<1>6. Pushed(i) = 2
  BY <1>0, <1>1, <1>3, PushedValues DEF PushedAs
<1>7. \A l \in Steps(i) : l <= Pushed(i)' <=> l <= Pushed(i)
  BY <1>1, <1>3, <1>5, <1>6, DeleteBegins
<1>8. About(t, i)
  <2>1. /\ DOMAIN ctx' = DOMAIN ctx
        /\ \A d \in DOMAIN ctx : ctx'[d].proc = ctx[d].proc /\ ctx'[d].freed = ctx[d].freed
    BY <1>1, <1>2, <1>3, ListOnly
  <2> QED BY <1>0, <1>1, <1>4, <1>5, <2>1 DEF About
<1> QED BY <1>1, <1>3, <1>7, <1>8, HostQuiet

\* The detach or the unmapping is pushed.
LEMMA HostDetachBacking ==
    ASSUME DInv, DInv', HInv, NEW t \in Threads, DetachBacking(t)
    PROVE  HInv'
<1>0. PICK i : i = act[t].res
  OBVIOUS
<1>1. /\ act[t].pc = "detach"
      /\ res[i].kind = "blob" =>
            PushCommand([op |-> "unmap", id |-> i, blk |-> NoBlock]) /\ To(t, "unref")
      /\ res[i].kind # "blob" =>
            PushCommand([op |-> "detach", id |-> i, blk |-> NoBlock]) /\ To(t, "free")
      /\ UNCHANGED <<ctx, res, control, hctx, hres>>
  BY <1>0 DEF DetachBacking, driver, host
<1>2. SUFFICES ASSUME ~lost' PROVE HInv'
  BY DEF HInv
<1>3. act[t].pc \in Deleting /\ Types
  BY <1>1 DEF Deleting, DInv
<1>4. i \in Ids /\ res[i] \in Resource /\ BackingOf(t)
  BY <1>0, <1>3, DeleterKnows
<1>5. PICK op, pc : /\ op = IF res[i].kind = "blob" THEN "unmap" ELSE "detach"
                    /\ pc = IF res[i].kind = "blob" THEN "unref" ELSE "free"
  OBVIOUS
<1>6. /\ PushCommand([op |-> op, id |-> i, blk |-> NoBlock]) /\ To(t, pc) /\ pc \in {"free", "unref"}
      /\ op \in Ops /\ Stage(op) = 3 /\ op # "attach"
      /\ op = "detach" => res[i].kind = "buffer"
      /\ op \in {"map", "unmap"} => res[i].kind = "blob"
      /\ res[i].kind \in {"buffer", "blob"}
  <2>1. res[i].kind \in {"buffer", "blob"}
    BY <1>0, <1>1, <1>4 DEF BackingOf, Resource
  <2>2. CASE res[i].kind = "blob"
    BY <1>1, <1>5, <2>1, <2>2, StageOf DEF Ops
  <2>3. CASE res[i].kind # "blob"
    BY <1>1, <1>5, <2>1, <2>3, StageOf DEF Ops
  <2> QED BY <2>2, <2>3
<1>7. act'[t].pc = pc /\ act'[t].res = i /\ \A u \in Threads \ {t} : act'[u] = act[u]
  BY <1>0, <1>3, <1>6, WentTo DEF Went
<1>8. Pushed(i) = 2 /\ Pushed(i)' = 3
  <2>1. PushedAs(i) /\ PushedAs(i)'
    BY <1>4, PushedValues, PushedNext
  <2> QED BY <1>0, <1>1, <1>6, <1>7, <2>1 DEF PushedAs
<1>9. About(t, i)
  BY <1>0, <1>1, <1>6, <1>7 DEF About
<1>10. 3 \in Steps(i)' /\ \A l \in Steps(i)' : l <= 2 \/ 3 <= l
  <2>1. 3 \in Steps(i)' /\ \A l \in Steps(i)' : l \in 1..4
    BY <1>1, <1>6, StepsNext
  <2> QED BY <2>1
<1>11. res'[i].kind = res[i].kind /\ res'[i].blk \in {res[i].blk, NoBlock}
  BY <1>1
<1> QED BY <1>2, <1>4, <1>6, <1>8, <1>9, <1>10, <1>11, HostPushed

\* The block is freed, after its detach.
LEMMA HostFreeBacking ==
    ASSUME DInv, DInv', HInv, NEW t \in Threads, FreeBacking(t)
    PROVE  HInv'
<1>0. PICK i : i = act[t].res
  OBVIOUS
<1>1. /\ act[t].pc = "free" /\ res' = [res EXCEPT ![i].blk = NoBlock] /\ To(t, "unref")
      /\ UNCHANGED <<ctx, control, command, lost, hctx, hres>>
  BY <1>0 DEF FreeBacking, queues, host
<1>2. act[t].pc \in Deleting /\ Types
  BY <1>1 DEF Deleting, DInv
<1>3. i \in Ids /\ res[i] \in Resource
  BY <1>0, <1>2, DeleterKnows
<1>4. act'[t].pc = "unref" /\ act'[t].res = i /\ \A u \in Threads \ {t} : act'[u] = act[u]
  BY <1>0, <1>1, <1>2, WentTo DEF Went
<1>5. /\ res'[i].kind = res[i].kind /\ res'[i].blk = NoBlock /\ \A j \in Ids \ {i} : res'[j] = res[j]
  BY <1>1, <1>2, <1>3 DEF Types, Resource
<1>6. Pushed(i) = 3 /\ Pushed(i)' = 3
  <2>1. PushedAs(i) /\ PushedAs(i)'
    BY <1>3, PushedValues, PushedNext
  <2> QED BY <1>0, <1>1, <1>4, <2>1 DEF PushedAs
<1>7. About(t, i)
  BY <1>0, <1>1, <1>4, <1>5 DEF About
<1> QED BY <1>1, <1>3, <1>5, <1>6, <1>7, HostQuiet

\* The last command about the resource is pushed.
LEMMA HostUnrefResource ==
    ASSUME DInv, DInv', HInv, NEW t \in Threads, UnrefResource(t)
    PROVE  HInv'
<1>0. PICK i : i = act[t].res
  OBVIOUS
<1>1. /\ act[t].pc = "unref" /\ res' = [res EXCEPT ![i].st = "dead"]
      /\ PushCommand([op |-> "unref", id |-> i, blk |-> NoBlock])
      /\ act[t].drain => act' = [act EXCEPT ![t].pc = "drain", ![t].res = 0]
      /\ ~act[t].drain => Return(t)
      /\ UNCHANGED <<ctx, control, hctx, hres>>
  BY <1>0 DEF UnrefResource, host
<1>2. SUFFICES ASSUME ~lost' PROVE HInv'
  BY DEF HInv
<1>3. act[t].pc \in Deleting /\ Types
  BY <1>1 DEF Deleting, DInv
<1>4. i \in Ids /\ res[i] \in Resource
  BY <1>0, <1>3, DeleterKnows
<1>5. act'[t].res = 0 /\ act'[t].pc \in {"idle", "drain"} /\ \A u \in Threads \ {t} : act'[u] = act[u]
  <2>1. act \in [Threads -> Activity]
    BY <1>3 DEF Types
  <2>2. CASE act[t].drain
    BY <1>1, <2>1, <2>2 DEF Activity
  <2>3. CASE ~act[t].drain
    BY <1>1, <1>3, <2>3, Returned, Values DEF Went
  <2> QED BY <2>2, <2>3
<1>6. /\ res'[i].kind = res[i].kind /\ res'[i].blk = res[i].blk /\ res'[i].st = "dead"
      /\ \A j \in Ids \ {i} : res'[j] = res[j]
  BY <1>1, <1>3, <1>4 DEF Types, Resource
<1>7. Pushed(i) = 3 /\ Pushed(i)' = 4
  <2>1. PushedAs(i) /\ PushedAs(i)'
    BY <1>4, PushedValues, PushedNext
  <2> QED BY <1>0, <1>1, <1>6, <2>1 DEF PushedAs
<1>8. About(t, i)
  BY <1>0, <1>1, <1>5, <1>6 DEF About
<1>9. 4 \in Steps(i)' /\ \A l \in Steps(i)' : l <= 3 \/ 4 <= l
  <2>1. 4 \in Steps(i)' /\ \A l \in Steps(i)' : l \in 1..4
    BY StepsNext
  <2> QED BY <2>1
<1>10. "unref" \in Ops /\ Stage("unref") = 4
  BY StageOf DEF Ops
<1> QED BY <1>1, <1>2, <1>4, <1>6, <1>7, <1>8, <1>9, <1>10, HostPushed
\* A handler that holds no resource, before or after its step, is about none.
LEMMA NoneHeld ==
    ASSUME DInv, DInv', NEW t \in Threads, \A u \in Threads \ {t} : act'[u] = act[u],
           act[t].pc \notin Creating \cup Deleting \cup {"remove"},
           act'[t].pc \notin Creating \cup Deleting \cup {"remove"}
    PROVE  act[t].res = 0 /\ act'[t].res = 0
<1>1. HeldOK(t) /\ HeldOK(t)'
  BY DEF DInv, Resources
<1> QED BY <1>1, HoldsNothing, HoldsNothingNext

\* A step that is about no resource.
LEMMA ResourcesKept ==
    ASSUME DInv, Stages, Backings, NEW t \in Threads, act[t].res = 0, act'[t].res = 0,
           \A u \in Threads \ {t} : act'[u] = act[u], UNCHANGED <<res, command, hres>>
    PROVE  Stages' /\ Backings'
<1>1. \A j \in Ids : Pushed(j)' = Pushed(j)
  BY PushedOther, Values
<1>2. Stages'
  BY <1>1, StagesKept
<1>3. Backings'
  BY BackingsKept
<1> QED BY <1>2, <1>3

\* The checks and the lookups of the context handlers, and the unlinking.
LEMMA HostContextQuiet ==
    ASSUME DInv, DInv', HInv, NEW t \in Threads, InitCheck(t) \/ DestroyLookup(t) \/ DestroyUnlink(t)
    PROVE  HInv'
<1>1. UNCHANGED <<ctx, res, control, command, lost, hctx, hres>>
  BY DEF InitCheck, DestroyLookup, DestroyUnlink, driver, queues, host
<1>2. /\ act[t].pc \in {"idle", "unlink"} /\ act'[t].pc \in {"init", "unlink", "drain"}
      /\ \A u \in Threads \ {t} : act'[u] = act[u]
  <2>1. Types /\ act \in [Threads -> Activity]
    BY DEF DInv, Types
  <2>2. CASE InitCheck(t)
    BY <2>1, <2>2, WentTo DEF InitCheck, Free, Went
  <2>3. CASE DestroyUnlink(t)
    BY <2>1, <2>3, WentTo DEF DestroyUnlink, Went
  <2>4. CASE DestroyLookup(t)
    <3> DEFINE r == [Idle EXCEPT !.ctx = Found(t), !.pc = "unlink"]
    <3>1. r.pc = "unlink"
      BY DEF Idle
    <3>2. act' = [act EXCEPT ![t] = r] /\ act[t].pc = "idle"
      BY <2>4 DEF DestroyLookup, Free
    <3> HIDE DEF r
    <3>3. act'[t] = r /\ \A u \in Threads \ {t} : act'[u] = act[u]
      BY <2>1, <3>2
    <3> QED BY <3>1, <3>2, <3>3
  <2> QED BY <2>2, <2>3, <2>4
<1>3. act[t].res = 0 /\ act'[t].res = 0
  BY <1>2, NoneHeld DEF Creating, Deleting
<1>4. About(t, 0)
  BY <1>1, <1>2, <1>3 DEF About
<1> QED BY <1>1, <1>4, HostQuiet

\* The loop takes the next resource, or ends.
LEMMA HostDestroyDrain ==
    ASSUME DInv, DInv', HInv, NEW t \in Threads, DestroyDrain(t)
    PROVE  HInv'
<1>0. PICK c, list : c = act[t].ctx /\ list = ctx[c].list
  OBVIOUS
<1>1. /\ act[t].pc = "drain"
      /\ list = <<>> => /\ act' = [act EXCEPT ![t].pc = "ctxdestroy", ![t].drain = FALSE]
                        /\ ctx' = ctx
      /\ list # <<>> => /\ ctx' = [ctx EXCEPT ![c].list = Front(list)]
                        /\ act' = [act EXCEPT ![t].pc = DeletePc(Last(list)), ![t].res = Last(list),
                                              ![t].drain = TRUE]
      /\ UNCHANGED <<res, control, command, lost, hctx, hres>>
  BY <1>0 DEF DestroyDrain, queues, host
<1>2. Types /\ Resources /\ act \in [Threads -> Activity]
  BY DEF DInv, Types
<1>3. /\ c \in DOMAIN ctx /\ act[t].res = 0
      /\ \A u \in Threads \ {t} : act[u].pc \notin Outside => act[u].ctx # c
  BY <1>0, <1>1, DestroyerKnows
<1>4. CASE list = <<>>
  <2>1. act'[t].pc = "ctxdestroy" /\ act'[t].res = 0 /\ \A u \in Threads \ {t} : act'[u] = act[u]
    BY <1>1, <1>2, <1>3, <1>4 DEF Activity
  <2>2. About(t, 0)
    BY <1>1, <1>3, <1>4, <2>1 DEF About
  <2> QED BY <1>1, <2>2, HostQuiet
<1>5. CASE list # <<>>
  <2>1. list \in Seq(Ids) /\ IsInjective(list)
    <3>1. ctx[c] \in Context
      BY <1>2, <1>3 DEF Types
    <3> QED BY <1>0, <1>2, <1>3, <3>1 DEF Context, Resources, ListOK
  <2>2. PICK i : i = Last(list)
    OBVIOUS
  <2>3. i \in Range(list) /\ i \in Ids
    BY <1>5, <2>1, <2>2, TailRemoved
  <2>4. InList(c, i) /\ ResourceOK(i)
    BY <1>0, <1>2, <2>3 DEF InList, Resources
  <2>5. act'[t].pc = DeletePc(i) /\ act'[t].res = i /\ \A u \in Threads \ {t} : act'[u] = act[u]
    BY <1>1, <1>2, <1>5, <2>2 DEF Activity
  <2>6. DeletePc(i) \in {"unref", "detach"}
    BY DEF DeletePc
  <2>7. res[i].st = "known"
    <3>1. ASSUME res[i].st # "known" PROVE FALSE
      <4>1. PICK u \in Threads : Linked(u) /\ act[u].res = i /\ act[u].ctx = c
        BY <1>3, <2>4, <3>1 DEF ResourceOK
      <4>2. u # t /\ act[u].pc \notin Outside
        BY <1>1, <4>1 DEF Linked, Outside
      <4> QED BY <1>3, <4>1, <4>2
    <3> QED BY <3>1
  <2>8. \A u \in Threads : act[u].res # i
    BY <1>3, <2>3, <2>4, <2>7, ListedNotHeld
  <2>9. Pushed(i) = 2
    BY <2>3, <2>7, <2>8, PushedValues DEF PushedAs
  <2>10. \A l \in Steps(i) : l <= Pushed(i)' <=> l <= Pushed(i)
    BY <1>1, <2>3, <2>5, <2>9, DeleteBegins
  <2>11. About(t, i)
    <3>1. /\ DOMAIN ctx' = DOMAIN ctx
          /\ \A d \in DOMAIN ctx : ctx'[d].proc = ctx[d].proc /\ ctx'[d].freed = ctx[d].freed
      BY <1>1, <1>2, <1>3, <1>5, ListOnly
    <3> QED BY <1>1, <1>3, <2>5, <2>6, <3>1 DEF About
  <2> QED BY <1>1, <2>3, <2>10, <2>11, HostQuiet
<1> QED BY <1>4, <1>5

\* A context command is the last one of its queue, or it is lost.
LEMMA ControlQueued ==
    ASSUME Types, NEW op \in {"create", "destroy"}, NEW q \in Procs, PushControl([op |-> op, proc |-> q])
    PROVE  /\ lost => lost'
           /\ ~lost' => control' = Append(control, [op |-> op, proc |-> q])
<1>1. [op |-> op, proc |-> q] \in ControlCommand
  BY DEF ControlCommand
<1>2. control \in Seq(ControlCommand) /\ lost \in BOOLEAN
  BY DEF Types, ControlCommand
<1> QED BY <1>1, <1>2, Queued DEF PushControl

\* The new context is listed before the host hears of it.
LEMMA HostInitInsert ==
    ASSUME DInv, DInv', HInv, NEW t \in Threads, InitInsert(t)
    PROVE  HInv'
<1>1. /\ act[t].pc = "init" /\ To(t, "ctxcreate")
      /\ ctx' = Append(ctx, [proc |-> Proc[t], list |-> <<>>, freed |-> FALSE])
      /\ UNCHANGED <<res, control, command, lost, hctx, hres>>
  BY DEF InitInsert, queues, host
<1>2. SUFFICES ASSUME ~lost PROVE Stages' /\ Backings' /\ HostContexts'
  BY <1>1 DEF HInv
<1>3. Stages /\ Backings /\ HostContexts
  BY <1>2 DEF HInv
<1>4. act'[t].pc = "ctxcreate" /\ \A u \in Threads \ {t} : act'[u] = act[u]
  BY <1>1, WentTo DEF Went, DInv
<1>5. act[t].res = 0 /\ act'[t].res = 0
  BY <1>1, <1>4, NoneHeld DEF Creating, Deleting
<1>6. Stages' /\ Backings'
  BY <1>1, <1>3, <1>4, <1>5, ResourcesKept
<1>7. ~HasContext(Proc[t])
  BY <1>1 DEF DInv, Contexts, ContextOf
<1>8. \A p : p # Proc[t] => (HasContext(p)' <=> HasContext(p))
  <2> DEFINE x == [proc |-> Proc[t], list |-> <<>>, freed |-> FALSE]
  <2>1. x.proc = Proc[t] /\ x \in Context
    BY LifetimeAssumption DEF Context
  <2>2. ctx \in Seq(Context)
    BY DEF DInv, Types
  <2> HIDE DEF x
  <2>3. /\ ctx' \in Seq(Context) /\ Len(ctx') = Len(ctx) + 1
        /\ \A c \in 1..Len(ctx) : ctx'[c] = ctx[c]
        /\ ctx'[Len(ctx) + 1] = x
    BY <1>1, <2>1, <2>2, AppendProperties DEF x
  <2>4. DOMAIN ctx = 1..Len(ctx) /\ DOMAIN ctx' = 1..(Len(ctx) + 1) /\ Len(ctx) \in Nat
    BY <2>2, <2>3
  <2>5. \A c \in DOMAIN ctx' : c \in DOMAIN ctx \/ c = Len(ctx) + 1
    BY <2>4
  <2>6. DOMAIN ctx \subseteq DOMAIN ctx' /\ \A c \in DOMAIN ctx : ctx'[c] = ctx[c]
    BY <2>3, <2>4
  <2> QED BY <2>1, <2>3, <2>5, <2>6 DEF HasContext, Live
<1>9. \A p : Expected(p)' <=> Expected(p)
  <2>1. ~Expected(Proc[t]) /\ ~Expected(Proc[t])'
    BY <1>4, <1>7 DEF Expected
  <2>2. \A p : p # Proc[t] => (Expected(p)' <=> Expected(p))
    BY <1>4, <1>8 DEF Expected
  <2> QED BY <2>1, <2>2
<1>10. HostContexts'
  BY <1>1, <1>3, <1>9 DEF HostContexts, HostContext
<1> QED BY <1>6, <1>10

\* The host is told of the context its process has from now on.
LEMMA HostCreateVirglContext ==
    ASSUME DInv, DInv', HInv, NEW t \in Threads, CreateVirglContext(t)
    PROVE  HInv'
<1>1. /\ act[t].pc = "ctxcreate" /\ PushControl([op |-> "create", proc |-> Proc[t]]) /\ Return(t)
      /\ UNCHANGED <<ctx, res, command, hctx, hres>>
  BY DEF CreateVirglContext, driver, host
<1>2. SUFFICES ASSUME ~lost' PROVE HInv'
  BY DEF HInv
<1>3. PICK q \in Procs : q = Proc[t]
  BY LifetimeAssumption
<1>4. control' = Append(control, [op |-> "create", proc |-> q]) /\ ~lost
  BY <1>1, <1>2, <1>3, ControlQueued DEF DInv
<1>5. Stages /\ Backings /\ HostContexts
  BY <1>4 DEF HInv
<1>6. act'[t].pc = "idle" /\ \A u \in Threads \ {t} : act'[u] = act[u]
  BY <1>1, Returned, Values DEF Went, DInv
<1>7. act[t].res = 0 /\ act'[t].res = 0
  BY <1>1, <1>6, NoneHeld DEF Creating, Deleting
<1>8. Stages' /\ Backings'
  BY <1>1, <1>5, <1>6, <1>7, ResourcesKept
<1>9. \A p : HasContext(p)' <=> HasContext(p)
  BY <1>1 DEF HasContext, Live
<1>10. Expected(q)'
  <2>1. HasContext(q)
    BY <1>1, <1>3 DEF DInv, Contexts, ContextOf
  <2>2. \A u \in Threads \ {t} : Proc[u] = q => act[u].pc = "idle"
    BY <1>1, <1>3 DEF DInv, Contexts, Screen, InScreen
  <2> QED BY <1>6, <1>9, <2>1, <2>2 DEF Expected
<1>11. \A p \in Procs \ {q} : Expected(p)' <=> Expected(p)
  BY <1>3, <1>6, <1>9 DEF Expected
<1>12. HostContexts'
  BY <1>1, <1>4, <1>5, <1>10, <1>11, ContextsPushed
<1> QED BY <1>8, <1>12 DEF HInv

\* The host is told that the process has no context any more.
LEMMA HostDestroyVirglContext ==
    ASSUME DInv, DInv', HInv, NEW t \in Threads, DestroyVirglContext(t)
    PROVE  HInv'
<1>0. PICK c : c = act[t].ctx
  OBVIOUS
<1>1. /\ act[t].pc = "ctxdestroy" /\ PushControl([op |-> "destroy", proc |-> Proc[t]]) /\ Return(t)
      /\ ctx' = [ctx EXCEPT ![c].freed = TRUE]
      /\ UNCHANGED <<res, command, hctx, hres>>
  BY <1>0 DEF DestroyVirglContext, host
<1>2. SUFFICES ASSUME ~lost' PROVE HInv'
  BY DEF HInv
<1>3. PICK q \in Procs : q = Proc[t]
  BY LifetimeAssumption
<1>4. control' = Append(control, [op |-> "destroy", proc |-> q]) /\ ~lost
  BY <1>1, <1>2, <1>3, ControlQueued DEF DInv
<1>5. Stages /\ Backings /\ HostContexts
  BY <1>4 DEF HInv
<1>6. act'[t].pc = "idle" /\ \A u \in Threads \ {t} : act'[u] = act[u]
  BY <1>1, Returned, Values DEF Went, DInv
<1>7. act[t].res = 0 /\ act'[t].res = 0
  BY <1>1, <1>6, NoneHeld DEF Creating, Deleting
<1>8. Stages' /\ Backings'
  BY <1>1, <1>5, <1>6, <1>7, ResourcesKept
<1>9. Live(c) /\ c \in DOMAIN ctx /\ ctx[c].proc = q /\ ctx[c] \in Context
  BY <1>0, <1>1, <1>3, DestroyerKnows DEF DInv, Types
<1>10. /\ DOMAIN ctx' = DOMAIN ctx /\ ctx'[c].freed /\ ctx'[c].proc = q
       /\ \A d \in DOMAIN ctx : d # c => ctx'[d] = ctx[d]
  BY <1>1, <1>9 DEF Context
<1>11. ~HasContext(q)'
  <2>1. SUFFICES ASSUME NEW d \in DOMAIN ctx, Live(d)', ctx'[d].proc = q PROVE FALSE
    BY <1>10 DEF HasContext
  <2>2. d # c
    BY <1>10, <2>1 DEF Live
  <2>3. Live(d) /\ ctx[d].proc = q
    BY <1>10, <2>1, <2>2 DEF Live
  <2> QED BY <1>9, <2>2, <2>3 DEF DInv, Contexts, OneContext, Live
<1>12. \A p : p # q => (HasContext(p)' <=> HasContext(p))
  BY <1>9, <1>10 DEF HasContext, Live
<1>13. \A p \in Procs \ {q} : Expected(p)' <=> Expected(p)
  BY <1>3, <1>6, <1>12 DEF Expected
<1>14. ~Expected(q)'
  BY <1>11 DEF Expected
<1>15. HostContexts'
  BY <1>1, <1>4, <1>5, <1>13, <1>14, ContextsPushed
<1> QED BY <1>8, <1>15 DEF HInv

\* The host takes a context command.
LEMMA HostTakesControl ==
    ASSUME DInv, HInv, HostControl
    PROVE  HInv'
<1>1. UNCHANGED <<res, act, command, lost, hres>>
  BY DEF HostControl, driver
<1>2. SUFFICES ASSUME ~lost PROVE Stages' /\ Backings' /\ HostContexts'
  BY <1>1 DEF HInv
<1>3. Stages /\ Backings /\ HostContexts
  BY <1>2 DEF HInv
<1>4. \A j \in Ids : Pushed(j)' = Pushed(j)
  BY <1>1 DEF Pushed, At
<1>5. Stages'
  BY <1>1, <1>3, <1>4, StagesKept
<1>6. Backings'
  BY <1>1, <1>3, BackingsKept
<1>7. HostContexts'
  BY <1>3, ContextsTaken
<1> QED BY <1>5, <1>6, <1>7

\* It makes the next step of a resource.
LEMMA HostTakesCommand ==
    ASSUME DInv, HInv, HostCommand
    PROVE  HInv'
<1>1. UNCHANGED <<ctx, act, control, lost, hctx>>
  BY DEF HostCommand, driver
<1>2. SUFFICES ASSUME ~lost PROVE Stages' /\ Backings' /\ HostContexts'
  BY <1>1 DEF HInv
<1>3. Stages /\ Backings /\ HostContexts
  BY <1>2 DEF HInv
<1>4. Stages' /\ Backings'
  BY <1>3, StageExecuted, BackingsExecuted
<1>5. HostContexts'
  BY <1>1, <1>3, ContextsKept
<1> QED BY <1>4, <1>5
-----------------------------------------------------------------------------
(* The theorems about the host.                                              *)

\* At the start the host has nothing and nothing is queued.
LEMMA HostInitially == Init => HInv
<1>1. SUFFICES ASSUME Init PROVE Stages /\ Backings /\ HostContexts
  BY DEF HInv
<1>2. /\ ctx = <<>> /\ res = [i \in Ids |-> NoResource] /\ control = <<>> /\ command = <<>>
      /\ hctx = {} /\ hres = [i \in Ids |-> Absent]
  BY <1>1 DEF Init
<1>3. DOMAIN command = {} /\ DOMAIN control = {} /\ DOMAIN ctx = {}
  BY <1>2
<1>4. \A i \in Ids : /\ hres[i].there = FALSE /\ hres[i].back = NoBlock /\ hres[i].mapped = FALSE
                     /\ res[i].st = "none"
  BY <1>2 DEF Absent, NoResource
<1>5. \A i \in Ids, k \in 1..4 : ~Waits(i, k) /\ ~Done(i, k)
  <2>1. \A i \in Ids : Pushed(i) = 0
    BY <1>4 DEF Pushed
  <2> QED BY <1>3, <2>1 DEF Waits, Done
<1>6. Stages
  <2>1. InOrder /\ Fitting
    BY <1>3 DEF InOrder, Fitting
  <2>2. \A i \in Ids : QueueOK(i)
    BY <1>5 DEF QueueOK
  <2>3. \A i \in Ids : HostOK(i)
    BY <1>4, <1>5 DEF HostOK
  <2> QED BY <2>1, <2>2, <2>3 DEF Stages
<1>7. Backings
  BY <1>3, <1>4 DEF Backings, DetachedBefore, DetachedBetween, SameBlock
<1>8. HostContexts
  BY <1>2, <1>3 DEF HostContexts, HostContext, Expected, HasContext
<1> QED BY <1>6, <1>7, <1>8

\* Every step keeps the invariant of the host.
LEMMA HostInductive == DInv /\ WInv /\ HInv /\ [Next]_vars /\ DInv' => HInv'
<1>1. SUFFICES ASSUME DInv, WInv, HInv, [Next]_vars, DInv' PROVE HInv'
  OBVIOUS
<1>2. ASSUME (\E t \in Threads : WalkOn(t) \/ WalkAstray(t)) \/ UNCHANGED vars PROVE HInv'
  <2>1. UNCHANGED <<ctx, res, act, control, command, lost, hctx, hres>>
    BY <1>2 DEF vars, WalkOn, WalkAstray, driver, queues, host
  <2>2. SUFFICES ASSUME ~lost PROVE Stages' /\ Backings' /\ HostContexts'
    BY <2>1 DEF HInv
  <2>3. Stages /\ Backings /\ HostContexts
    BY <1>1, <2>2 DEF HInv
  <2>4. \A j \in Ids : Pushed(j)' = Pushed(j)
    BY <2>1 DEF Pushed, At
  <2>5. Stages'
    BY <1>1, <2>1, <2>3, <2>4, StagesKept
  <2>6. Backings'
    BY <1>1, <2>1, <2>3, BackingsKept
  <2>7. HostContexts'
    BY <2>1, <2>3, ContextsKept
  <2> QED BY <2>5, <2>6, <2>7
<1>3. ASSUME NEW t \in Threads, Handler(t) PROVE HInv'
  <2>1. CASE InitCheck(t) \/ DestroyLookup(t) \/ DestroyUnlink(t)
    BY <1>1, <2>1, HostContextQuiet
  <2>2. CASE ~(InitCheck(t) \/ DestroyLookup(t) \/ DestroyUnlink(t))
    BY <1>1, <1>2, <1>3, <2>2, HostInitInsert, HostCreateVirglContext, HostCreateResource, HostAllocateBacking,
       HostAttachResourceBacking, HostInsertResource, HostMapBlobResource, HostCloseLookup, HostCloseRemove,
       HostDetachBacking, HostFreeBacking, HostUnrefResource, HostDestroyDrain, HostDestroyVirglContext
       DEF Handler
  <2> QED BY <2>1, <2>2
<1> QED BY <1>1, <1>2, <1>3, HostTakesControl, HostTakesCommand DEF Next

\* In every reachable state the queues and the host are where the driver's handlers tell:
\* what a resource's makers and DeleteResource have pushed (control.c:118-141) is done or
\* waits in their order, as long as no full queue has refused a command.
THEOREM HostInvariance == Spec => []HInv
<1>1. Init => DInv /\ WInv /\ HInv
  BY Initially, WalksInitially, HostInitially
<1>2. DInv /\ WInv /\ HInv /\ [Next]_vars => (DInv /\ WInv /\ HInv)'
  BY Inductive, WalksInductive, HostInductive
<1> QED BY <1>1, <1>2, PTL DEF Spec

\* The host never has one block attached to two resources, although FreeVgpuMemory in
\* DeleteResource (control.c:135) does not wait for the host to answer the detach.
THEOREM HostBackingExclusiveHolds == Spec => []HostBackingExclusive
<1>1. HInv => HostBackingExclusive
  BY DEF HInv, Backings, HostBackingExclusive
<1> QED BY <1>1, HostInvariance, PTL

\* The command the host takes next finds its resource in the right state, however the
\* handlers of several threads and the loop of CtlDestroyVirglContext interleave their pushes.
THEOREM HostCommandsValidHolds == Spec => []HostCommandsValid
<1>1. ASSUME DInv, HInv PROVE HostCommandsValid
  <2>1. SUFFICES ASSUME ~lost, command # <<>>
                 PROVE  LET cmd == Head(command)
                            r == hres[cmd.id]
                        IN  /\ cmd.op = "create" <=> ~r.there
                            /\ cmd.op = "attach" => r.back = NoBlock
                            /\ cmd.op = "detach" => r.back # NoBlock
                            /\ cmd.op = "map" => ~r.mapped
                            /\ cmd.op = "unmap" => r.mapped
    BY DEF HostCommandsValid
  <2>2. Stages
    BY <1>1, <2>1 DEF HInv
  <2>3. PICK cmd, i, k : cmd = command[1] /\ i = cmd.id /\ k = Stage(cmd.op)
    OBVIOUS
  <2>4. /\ i \in Ids /\ cmd.op \in Ops /\ k \in 1..4
        /\ \A l \in Steps(i) : (l < k => Done(i, l)) /\ (k <= l => ~Done(i, l))
        /\ cmd.op \in {"attach", "detach"} => res[i].kind = "buffer"
        /\ cmd.op \in {"map", "unmap"} => res[i].kind = "blob"
    BY <1>1, <2>1, <2>2, <2>3, HeadIsNext
  <2>5. Head(command) = cmd
    <3>1. command \in Seq(ResourceCommand)
      BY <1>1 DEF DInv, Types, ResourceCommand
    <3> QED BY <2>1, <2>3, <3>1, Dequeued
  <2>6. HostOK(i)
    BY <2>2, <2>4 DEF Stages
  <2>7. (1 < k <=> Done(i, 1)) /\ ~Done(i, 4)
    BY <2>4, StepsOf
  <2>8. res[i].kind \in {"buffer", "blob"} => (2 < k <=> Done(i, 2)) /\ (3 < k <=> Done(i, 3))
    BY <2>4, StepsOf
  <2>9. /\ k = 1 <=> cmd.op = "create"
        /\ k = 2 <=> cmd.op \in {"attach", "map"}
        /\ k = 3 <=> cmd.op \in {"detach", "unmap"}
    BY <2>3, <2>4, StageOf
  <2>10. cmd.op = "create" <=> ~hres[i].there
    BY <2>4, <2>6, <2>7, <2>9 DEF HostOK
  <2>11. cmd.op = "attach" => hres[i].back = NoBlock
    BY <2>4, <2>6, <2>8, <2>9 DEF HostOK
  <2>12. cmd.op = "detach" => hres[i].back # NoBlock
    BY <2>4, <2>6, <2>8, <2>9 DEF HostOK
  <2>13. (cmd.op = "map" => ~hres[i].mapped) /\ (cmd.op = "unmap" => hres[i].mapped)
    BY <2>4, <2>6, <2>8, <2>9 DEF HostOK
  <2> QED BY <2>3, <2>5, <2>10, <2>11, <2>12, <2>13
<1> QED BY <1>1, Invariance, HostInvariance, PTL

\* When no handler runs and both queues are empty the host has the contexts and the resources
\* the driver lists, with the same memory, and the resources CtlCreateResource gave up: what
\* CtlDestroyVirglContext and CtlCloseResource take away, the host has taken away too.
THEOREM HostMirrorsDriverHolds == Spec => []HostMirrorsDriver
<1>1. ASSUME DInv, HInv PROVE HostMirrorsDriver
  <2>1. SUFFICES ASSUME \A t \in Threads : act[t].pc = "idle", control = <<>>, command = <<>>, ~lost
                 PROVE  /\ hctx = {ctx[c].proc : c \in Range(ctxList)}
                        /\ {i \in Ids : hres[i].there} = InLists \cup Abandoned
                        /\ \A i \in InLists : hres[i].back = res[i].blk
    BY DEF HostMirrorsDriver
  <2>2. Stages /\ Backings /\ HostContexts /\ Types /\ Contexts /\ Resources
    BY <1>1, <2>1 DEF HInv, DInv
  <2>3. \A t \in Threads : act[t].res = 0 /\ ~Unlinked(t)
    BY <1>1, <2>1, IdleHandler
  <2>4. hctx = {ctx[c].proc : c \in Range(ctxList)}
    <3>1. DOMAIN control = {}
      BY <2>1
    <3>2. \A p \in Procs : p \in hctx <=> HasContext(p)
      BY <2>1, <2>2, <3>1 DEF HostContexts, HostContext, Expected
    <3>3. \A c \in DOMAIN ctx : Live(c) => c \in Range(ctxList)
      BY <2>2, <2>3 DEF Contexts, LiveKept, OnList
    <3>4. \A c \in Range(ctxList) : Live(c) /\ c \in DOMAIN ctx
      BY <2>2 DEF Contexts, ContextsListed, Live
    <3>5. \A c \in DOMAIN ctx : ctx[c].proc \in Procs
      <4>1. \A c \in DOMAIN ctx : ctx[c] \in Context
        BY <2>2 DEF Types
      <4> QED BY <4>1 DEF Context
    <3>6. \A p \in Procs : HasContext(p) <=> \E c \in Range(ctxList) : ctx[c].proc = p
      BY <3>3, <3>4 DEF HasContext
    <3>7. hctx \subseteq Procs
      BY <2>2 DEF Types
    <3> QED BY <3>2, <3>4, <3>5, <3>6, <3>7
  <2>5. \A i \in Ids, k \in 1..4 : Done(i, k) <=> k <= Pushed(i)
    <3>1. DOMAIN command = {}
      BY <2>1
    <3> QED BY <3>1 DEF Done, Waits
  <2>6. ASSUME NEW i \in Ids
        PROVE  /\ res[i].st \in {"none", "new", "known", "dead"}
               /\ res[i].st = "none" => Pushed(i) = 0
               /\ res[i].st = "new" => Pushed(i) = 1
               /\ res[i].st = "known" => Pushed(i) = 2
               /\ res[i].st = "dead" => Pushed(i) = 4
    <3>1. i # 0 /\ ResourceOK(i) /\ PushedAs(i) /\ res[i] \in Resource
      BY <1>1, <2>2, Values, PushedValues DEF Resources, Types
    <3>2. \A t \in Threads : act[t].res # i
      BY <2>3, <3>1
    <3>3. res[i].st # "closing"
      BY <3>1, <3>2 DEF ResourceOK
    <3> QED BY <3>1, <3>2, <3>3 DEF PushedAs, Resource
  <2>7. \A i \in Ids : hres[i].there <=> res[i].st \in {"new", "known"}
    <3>1. SUFFICES ASSUME NEW i \in Ids PROVE hres[i].there <=> res[i].st \in {"new", "known"}
      OBVIOUS
    <3>2. hres[i].there <=> 1 <= Pushed(i) /\ ~(4 <= Pushed(i))
      BY <2>2, <2>5 DEF Stages, HostOK
    <3> QED BY <2>6, <3>2
  <2>8. \A i \in Ids : i \in Abandoned <=> res[i].st = "new"
    BY <2>3, Values DEF Abandoned
  <2>9. InLists \subseteq Ids /\ \A i \in Ids : i \in InLists <=> \E c \in DOMAIN ctx : InList(c, i)
    <3>1. \A c \in DOMAIN ctx : ctx[c].list \in Seq(Ids) /\ ListOK(c)
      <4>1. \A c \in DOMAIN ctx : ctx[c] \in Context
        BY <2>2 DEF Types
      <4>2. \A c \in DOMAIN ctx : ctx[c].list \in Seq(Ids)
        BY <4>1 DEF Context
      <4> QED BY <2>2, <4>2 DEF Resources
    <3>2. \A c \in DOMAIN ctx : ctx[c].freed => Range(ctx[c].list) = {}
      BY <3>1, InRange DEF ListOK
    <3>3. \A c \in DOMAIN ctx : Range(ctx[c].list) \subseteq Ids
      BY <3>1, InRange
    <3> QED BY <3>2, <3>3 DEF InLists, InList
  <2>10. \A i \in Ids : i \in InLists <=> res[i].st = "known"
    <3>1. SUFFICES ASSUME NEW i \in Ids PROVE i \in InLists <=> res[i].st = "known"
      OBVIOUS
    <3>2. ResourceOK(i) /\ i # 0
      BY <2>2, Values DEF Resources
    <3>3. \A t \in Threads : act[t].res # i
      BY <2>3, <3>2
    <3> QED BY <2>9, <3>2, <3>3 DEF ResourceOK
  <2>11. {i \in Ids : hres[i].there} = InLists \cup Abandoned
    BY <2>7, <2>8, <2>9, <2>10 DEF Abandoned
  <2>12. ASSUME NEW i \in InLists PROVE hres[i].back = res[i].blk
    <3>1. i \in Ids /\ res[i].st = "known" /\ Pushed(i) = 2
      BY <2>6, <2>9, <2>10
    <3>2. PICK c \in DOMAIN ctx : InList(c, i)
      BY <2>9, <3>1
    <3>3. res[i].kind = "buffer" <=> res[i].blk # NoBlock
      BY <2>2, <3>1, <3>2 DEF Resources, ResourceOK
    <3>4. Done(i, 2) /\ ~Done(i, 3)
      BY <2>5, <3>1
    <3>5. hres[i].back # NoBlock <=> res[i].kind = "buffer"
      BY <2>2, <3>1, <3>4 DEF Stages, HostOK
    <3>6. hres[i].back # NoBlock => res[i].blk \in {NoBlock, hres[i].back}
      BY <2>2, <3>1 DEF Backings, SameBlock
    <3> QED BY <3>3, <3>5, <3>6
  <2> QED BY <2>4, <2>11, <2>12
<1> QED BY <1>1, Invariance, HostInvariance, PTL
=============================================================================
