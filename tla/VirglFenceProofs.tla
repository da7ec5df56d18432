--------------------------- MODULE VirglFenceProofs ---------------------------
(***************************************************************************)
(* What VirglFence promises about the memory and the fences of commands, for  *)
(* any number of threads, DPCs, blocks, resources and ring slots, and for     *)
(* every set of calls that may fail.                                          *)
(*                                                                           *)
(* The argument.  A command is at one place: with the handler that prepares   *)
(* it, in the ring, among the completed ones, or with a DPC.  A step takes    *)
(* each command from its place to one place, or drops it (Moved), so what is  *)
(* said of the memory and the fences of the commands at two places is kept.   *)
(* Memory and fence ids enter in TakeCommandBuffer only, from free and from   *)
(* nextFence, and leave in FinishCommand only.  Whether a command waits for   *)
(* its in-fence is a matter of where its handler is (AfterOK), and the bound  *)
(* on the fence ids holds because the handlers that will take one are counted *)
(* (FenceBudget).                                                             *)
(***************************************************************************)
EXTENDS VirglFence, FiniteSetTheorems, SequenceTheorems, TLAPS

-----------------------------------------------------------------------------
(* Types.                                                                    *)

\* How an actor that would be x is after a step: KeSetEvent may have released it.
Woken(x, y) ==
    \/ y = x
    \/ x.pc = "wait" /\ y = Idle
    \/ x.pc = "mapwait" /\ y = [x EXCEPT !.pc = "mapshare"]

\* A step of actor a, which goes on as r.
ActStep(a, r) ==
    /\ act' \in [Actors -> Activity]
    /\ \A b \in Actors : Woken(IF b = a THEN r ELSE act[b], act'[b])

\* The values actors and resources start with are typed.
LEMMA Values == Other \in Command /\ Idle \in Activity /\ NoResource \in Resource
<1>1. 0 \in Fences
  BY ConstAssumption DEF Fences
<1>2. Other \in Command
  BY <1>1 DEF Other, Command
<1>3. Idle \in Activity
  BY <1>2 DEF Idle, Activity
<1>4. NoResource \in Resource
  BY <1>1 DEF NoResource, Resource
<1> QED BY <1>2, <1>3, <1>4

\* The updates of a VIRGL_RESOURCE.
LEMMA ResourceUpdates ==
    ASSUME NEW x \in Resource
    PROVE  /\ \A e \in BOOLEAN : [x EXCEPT !.event = e] \in Resource
           /\ \A f \in Fences : [x EXCEPT !.FenceId = f] \in Resource
           /\ [x EXCEPT !.st = "known"] \in Resource
           /\ [x EXCEPT !.mdl = TRUE] \in Resource
           /\ [x EXCEPT !.mdl = FALSE] \in Resource
           /\ [x EXCEPT !.va = TRUE, !.event = TRUE] \in Resource
  BY DEF Resource

\* A step that goes on as r and sets no event.
LEMMA StepTo ==
    ASSUME TypeOK, NEW a \in Actors, NEW r \in Activity, To(a, r)
    PROVE  ActStep(a, r)
  BY DEF TypeOK, To, ActStep, Woken

\* A wait that is over.
LEMMA WokenType ==
    ASSUME NEW x \in Activity, NEW y, Woken(x, y)
    PROVE  y \in Activity
  BY Values DEF Woken, Activity

\* KeSetEvent and KeClearEvent: the event changes, and waiting threads may be released.
LEMMA StepChangeEvent ==
    ASSUME TypeOK, NEW a \in Actors, NEW i \in Ids, NEW r \in Activity, ChangeEvent(a, i, r)
    PROVE  /\ ActStep(a, r)
           /\ res' = [res EXCEPT ![i].event = ~Busy(a)]
           /\ res' \in [Ids -> Resource]
<1> DEFINE A == [act EXCEPT ![a] = r]
<1>1. A \in [Actors -> Activity]
  BY DEF TypeOK
<1>2. res' = [res EXCEPT ![i].event = ~Busy(a)] /\ act' = IF Busy(a) THEN A ELSE Released(A, i)
  BY DEF ChangeEvent
<1>3. ASSUME NEW b \in Actors PROVE Woken(A[b], A[b]) /\ Woken(A[b], Released(A, i)[b])
  BY DEF Woken, Released
<1>4. \A b \in Actors : A[b] = IF b = a THEN r ELSE act[b]
  BY DEF TypeOK
<1> HIDE DEF A
<1>5. \A b \in Actors : Woken(A[b], act'[b])
  BY <1>2, <1>3
<1>6. act' \in [Actors -> Activity]
  <2>1. \A b \in Actors : Released(A, i)[b] \in Activity
    BY <1>1, <1>3, WokenType
  <2>2. Released(A, i) = [b \in Actors |-> Released(A, i)[b]]
    BY DEF Released
  <2> QED BY <1>1, <1>2, <2>1, <2>2
<1>7. (~Busy(a)) \in BOOLEAN
  BY DEF Busy
<1>8. res' \in [Ids -> Resource]
  <2> DEFINE e == ~Busy(a)
  <2> HIDE DEF e
  <2>1. [res[i] EXCEPT !.event = e] \in Resource
    BY <1>7, ResourceUpdates DEF TypeOK, e
  <2>2. res' = [res EXCEPT ![i] = [res[i] EXCEPT !.event = e]]
    BY <1>2 DEF e
  <2> QED BY <2>1, <2>2 DEF TypeOK
<1> QED BY <1>2, <1>4, <1>5, <1>6, <1>8 DEF ActStep

-----------------------------------------------------------------------------
(* The inductive invariant.                                                  *)

\* The fence ids the handlers under way will take are within the bound.
Needy == {t \in FencedThreads : act[t].pc \in {"infence", "alloc"}}
FenceBudget == nextFence + NeedFence <= MaxFence + 1

\* A command that has no memory, no fence and no in-fence; and two that agree in these.
Blank(c) == c.blk = NoBlock /\ c.fence = 0 /\ c.after = 0
Like(c, d) == c.blk = d.blk /\ c.fence = d.fence /\ c.after = d.after

\* Only a submission has them.
CommandOK(c) ==
    /\ c.type = "other" => c = Other
    /\ c.type \in {"xfer", "mapblob"} => Blank(c)
QueuesOK == /\ \A j \in 1..Len(ring) : CommandOK(ring[j])
            /\ \A j \in 1..Len(used) : CommandOK(used[j])

\* What actor a holds while it is x.
Mapping == {"mapwait", "mapshare", "mapuser"}
ActorOK(a, x) ==
    /\ CommandOK(x.cmd)
    /\ x.pc \in {"idle", "wait"} \cup Mapping => x.cmd = Other
    /\ x.pc \in {"infence", "alloc"} =>
          a \in Threads /\ x.cmd.type = "submit" /\ x.cmd.fence = 0 /\ x.cmd.blk = NoBlock
    /\ x.pc = "push" => a \in Threads /\ x.cmd.type \in {"mapblob", "xfer"}
    /\ x.pc \in {"update", "write", "event"} => x.cmd.type \in {"submit", "xfer"}
    /\ x.pc = "callback" => a \in Dpcs /\ x.cmd.type = "mapblob"
    /\ x.pc \in {"write", "event", "wait"} \cup Mapping => x.cur \in Ids
    /\ x.pc \in {"wait"} \cup Mapping => a \in Threads
ActorsOK == \A a \in Actors : ActorOK(a, act[a])

\* The memory of a resource is not free, and none has memory before it is created.
ResourcesOK == \A i \in Ids : /\ res[i].blk # NoBlock => res[i].blk \notin free
                              /\ i >= nextRes => res[i].blk = NoBlock

\* A fence id is handed out once, to one command, and is set when that has been completed.
FencesFresh ==
    /\ \A f \in signalled : f < nextFence
    /\ \A p \in Places : At(p).fence # 0 =>
          /\ At(p).fence < nextFence /\ At(p).fence \notin signalled
          /\ \A q \in Places : p # q => At(q).fence # At(p).fence

\* An in-fence has been waited for.
Waiting(p) == p[1] = "act" /\ act[p[2]].pc = "infence"
AfterOK == \A p \in Places : At(p).after # 0 /\ ~Waiting(p) => At(p).after \in signalled

Commands == CommandMemoryExclusive /\ FencesFresh /\ AfterOK
IInv ==
    /\ TypeOK /\ FenceBudget /\ QueuesOK /\ ActorsOK /\ ResourcesOK
    /\ Commands

-----------------------------------------------------------------------------
(* Where commands are and how they move.                                     *)

\* Each command is at its place, and there are no other places.
LEMMA AtPlaces ==
    /\ \A a \in Actors : <<"act", a>> \in Places /\ At(<<"act", a>>) = act[a].cmd
    /\ \A j \in 1..Len(ring) : <<"ring", j>> \in Places /\ At(<<"ring", j>>) = ring[j]
    /\ \A j \in 1..Len(used) : <<"used", j>> \in Places /\ At(<<"used", j>>) = used[j]
    /\ \A p \in Places : \/ \E a \in Actors : p = <<"act", a>>
                         \/ \E j \in 1..Len(ring) : p = <<"ring", j>>
                         \/ \E j \in 1..Len(used) : p = <<"used", j>>
  BY DEF Places, At

\* The same after a step.
LEMMA AtPlacesNext ==
    /\ \A a \in Actors : <<"act", a>> \in Places' /\ At(<<"act", a>>)' = act'[a].cmd
    /\ \A j \in 1..Len(ring') : <<"ring", j>> \in Places' /\ At(<<"ring", j>>)' = ring'[j]
    /\ \A j \in 1..Len(used') : <<"used", j>> \in Places' /\ At(<<"used", j>>)' = used'[j]
    /\ \A p \in Places' : \/ \E a \in Actors : p = <<"act", a>>
                          \/ \E j \in 1..Len(ring') : p = <<"ring", j>>
                          \/ \E j \in 1..Len(used') : p = <<"used", j>>
  BY DEF Places, At

\* A command of place s is at p after the step.
WasAt(p, s) == Like(At(p)', At(s)) /\ (Waiting(s) => Waiting(p)')

\* A step that takes the command of place s to to[s], and makes blank commands only.
LEMMA Moved ==
    ASSUME Commands, ResourcesOK, NEW to,
           \A p \in Places' : Blank(At(p)') \/ \E s \in Places : to[s] = p /\ WasAt(p, s),
           free' \subseteq free, UNCHANGED <<signalled, nextFence>>,
           \A i \in Ids : res'[i].blk \in {res[i].blk, NoBlock} \cup free
    PROVE  Commands'
<1>1. CommandMemoryExclusive'
  BY DEF Commands, CommandMemoryExclusive, Blank, Like, WasAt
<1>2. FencesFresh'
  BY DEF Commands, FencesFresh, Blank, Like, WasAt
<1>3. AfterOK'
  BY DEF Commands, AfterOK, Blank, Like, WasAt
<1> QED BY <1>1, <1>2, <1>3 DEF Commands

\* An actor's command afterwards: blank, or what it was and waits for its in-fence only if it did.
CommandKept(a) ==
    \/ Blank(act'[a].cmd)
    \/ Like(act'[a].cmd, act[a].cmd) /\ (act[a].pc = "infence" => act'[a].pc = "infence")

\* The commands that stay where they are.
LEMMA Stays ==
    /\ \A a \in Actors : LET p == <<"act", a>> IN
          p \in Places /\ (CommandKept(a) => Blank(At(p)') \/ WasAt(p, p))
    /\ \A j \in 1..Len(ring) : LET p == <<"ring", j>> IN
          p \in Places /\ (j \in 1..Len(ring') /\ ring'[j] = ring[j] => WasAt(p, p))
    /\ \A j \in 1..Len(used) : LET p == <<"used", j>> IN
          p \in Places /\ (j \in 1..Len(used') /\ used'[j] = used[j] => WasAt(p, p))
<1>1. ASSUME NEW a \in Actors, CommandKept(a)
      PROVE  Blank(At(<<"act", a>>)') \/ WasAt(<<"act", a>>, <<"act", a>>)
  BY <1>1, AtPlaces, AtPlacesNext DEF CommandKept, WasAt, Waiting
<1>2. ASSUME NEW j \in 1..Len(ring), j \in 1..Len(ring'), ring'[j] = ring[j]
      PROVE  WasAt(<<"ring", j>>, <<"ring", j>>)
  BY <1>2, AtPlaces, AtPlacesNext DEF Like, WasAt, Waiting
<1>3. ASSUME NEW j \in 1..Len(used), j \in 1..Len(used'), used'[j] = used[j]
      PROVE  WasAt(<<"used", j>>, <<"used", j>>)
  BY <1>3, AtPlaces, AtPlacesNext DEF Like, WasAt, Waiting
<1> QED BY <1>1, <1>2, <1>3, AtPlaces

\* A step that moves no command and may push blank ones.
LEMMA MovedNowhere ==
    ASSUME TypeOK, Commands, ResourcesOK,
           \A a \in Actors : CommandKept(a),
           ring' \in Seq(Command), Len(ring') >= Len(ring),
           \A j \in 1..Len(ring) : ring'[j] = ring[j],
           \A j \in 1..Len(ring') : j > Len(ring) => Blank(ring'[j]),
           used' = used, free' \subseteq free, UNCHANGED <<signalled, nextFence>>,
           \A i \in Ids : res'[i].blk \in {res[i].blk, NoBlock} \cup free
    PROVE  Commands'
<1> DEFINE to == [s \in Places |-> s]
<1>1. Len(ring) \in Nat /\ Len(ring') \in Nat
  BY DEF TypeOK
<1>2. ASSUME NEW p \in Places'
      PROVE  Blank(At(p)') \/ (p \in Places /\ WasAt(p, p))
  <2>1. CASE \E a \in Actors : p = <<"act", a>>
    BY <2>1, Stays
  <2>2. CASE \E j \in 1..Len(ring') : p = <<"ring", j>>
    <3>1. PICK j \in 1..Len(ring') : p = <<"ring", j>>
      BY <2>2
    <3>2. CASE j > Len(ring)
      BY <3>1, <3>2, AtPlacesNext
    <3>3. CASE ~(j > Len(ring))
      <4>1. j \in 1..Len(ring)
        BY <1>1, <3>3
      <4> QED BY <3>1, <4>1, Stays
    <3> QED BY <3>2, <3>3
  <2>3. CASE \E j \in 1..Len(used') : p = <<"used", j>>
    BY <2>3, Stays
  <2> QED BY <2>1, <2>2, <2>3, AtPlacesNext
<1>3. \A p \in Places : to[p] = p
  OBVIOUS
<1> HIDE DEF to
<1> QED BY <1>2, <1>3, Moved

\* PushQueue of the command actor t has prepared: it is queued, or it is dropped.
LEMMA MovedToRing ==
    ASSUME TypeOK, Commands, ResourcesOK, NEW t \in Actors, act[t].pc # "infence",
           Blank(act'[t].cmd), \A a \in Actors \ {t} : CommandKept(a),
           ring' \in {ring, Append(ring, act[t].cmd)},
           UNCHANGED <<used, free, signalled, nextFence>>,
           \A i \in Ids : res'[i].blk = res[i].blk
    PROVE  Commands'
<1>1. CASE ring' = ring
  BY <1>1, MovedNowhere DEF TypeOK, CommandKept
<1>2. CASE ring' = Append(ring, act[t].cmd)
  <2> DEFINE n == Len(ring) + 1
             to == [s \in Places |-> IF s = <<"act", t>> THEN <<"ring", n>> ELSE s]
  <2>1. /\ Len(ring) \in Nat /\ Len(ring') = n /\ ring'[n] = act[t].cmd
        /\ \A j \in 1..Len(ring) : ring'[j] = ring[j]
    <3>1. ring \in Seq(Command) /\ act[t].cmd \in Command
      BY DEF TypeOK, Activity
    <3> QED BY <1>2, <3>1, AppendProperties
  <2>2. /\ <<"act", t>> \in Places /\ to[<<"act", t>>] = <<"ring", n>>
        /\ \A s \in Places : s # <<"act", t>> => to[s] = s
    BY AtPlaces
  <2> HIDE DEF to
  <2>3. ASSUME NEW p \in Places'
        PROVE  Blank(At(p)') \/ \E s \in Places : to[s] = p /\ WasAt(p, s)
    <3>1. CASE \E a \in Actors : p = <<"act", a>>
      <4>1. PICK a \in Actors : p = <<"act", a>>
        BY <3>1
      <4>2. CASE a = t
        BY <4>1, <4>2, AtPlacesNext
      <4>3. CASE a # t
        BY <2>2, <4>1, <4>3, Stays
      <4> QED BY <4>2, <4>3
    <3>2. CASE \E j \in 1..Len(ring') : p = <<"ring", j>>
      <4>1. PICK j \in 1..Len(ring') : p = <<"ring", j>>
        BY <3>2
      <4>2. CASE j = n
        <5>1. At(p)' = At(<<"act", t>>) /\ ~Waiting(<<"act", t>>)
          BY <2>1, <4>1, <4>2, AtPlaces, AtPlacesNext DEF Waiting
        <5> QED BY <2>2, <4>1, <4>2, <5>1 DEF WasAt, Like
      <4>3. CASE j # n
        <5>1. j \in 1..Len(ring)
          BY <2>1, <4>3
        <5> QED BY <2>1, <2>2, <4>1, <5>1, Stays
      <4> QED BY <4>2, <4>3
    <3>3. CASE \E j \in 1..Len(used') : p = <<"used", j>>
      BY <2>2, <3>3, Stays
    <3> QED BY <3>1, <3>2, <3>3, AtPlacesNext
  <2> QED BY <2>3, Moved
<1> QED BY <1>1, <1>2

\* A sequence without its i-th element.
LEMMA Without ==
    ASSUME NEW S, NEW s \in Seq(S), NEW i \in 1..Len(s)
    PROVE  LET r == SubSeq(s, 1, i - 1) \o SubSeq(s, i + 1, Len(s))
           IN  /\ r \in Seq(S) /\ Len(r) = Len(s) - 1
               /\ \A j \in 1..(Len(s) - 1) : r[j] = s[IF j < i THEN j ELSE j + 1]
<1> DEFINE l == SubSeq(s, 1, i - 1)
           u == SubSeq(s, i + 1, Len(s))
<1>1. Len(s) \in Nat /\ i \in Int /\ \A j \in 1..Len(s) : s[j] \in S
  OBVIOUS
<1>2. l \in Seq(S) /\ Len(l) = i - 1 /\ \A j \in 1..(i - 1) : l[j] = s[j]
  <2>1. 1 \in Int /\ i - 1 \in Int /\ \A j \in 1..(i - 1) : s[j] \in S
    BY <1>1
  <2>2. l \in Seq(S) /\ Len(l) = (IF 1 <= i - 1 THEN (i - 1) - 1 + 1 ELSE 0)
        /\ \A j \in 1..((i - 1) - 1 + 1) : l[j] = s[1 + j - 1]
    BY ONLY <2>1, SubSeqProperties
  <2> HIDE DEF l
  <2> QED BY <1>1, <2>2
<1>3. u \in Seq(S) /\ Len(u) = Len(s) - i /\ \A j \in 1..(Len(s) - i) : u[j] = s[i + j]
  <2>1. i + 1 \in Int /\ Len(s) \in Int /\ \A j \in (i + 1)..Len(s) : s[j] \in S
    BY <1>1
  <2>2. u \in Seq(S) /\ Len(u) = (IF i + 1 <= Len(s) THEN Len(s) - (i + 1) + 1 ELSE 0)
        /\ \A j \in 1..(Len(s) - (i + 1) + 1) : u[j] = s[(i + 1) + j - 1]
    BY ONLY <2>1, SubSeqProperties
  <2> HIDE DEF u
  <2> QED BY <1>1, <2>2
<1> HIDE DEF l, u
<1>4. /\ l \o u \in Seq(S) /\ Len(l \o u) = Len(l) + Len(u)
      /\ \A j \in 1..(Len(l) + Len(u)) : (l \o u)[j] = IF j <= Len(l) THEN l[j] ELSE u[j - Len(l)]
  BY <1>2, <1>3, ConcatProperties
<1>5. Len(l) + Len(u) = Len(s) - 1
  BY <1>1, <1>2, <1>3
<1>6. ASSUME NEW j \in 1..(Len(s) - 1) PROVE (l \o u)[j] = s[IF j < i THEN j ELSE j + 1]
  <2>1. CASE j < i
    BY <1>1, <1>2, <1>4, <1>5, <2>1
  <2>2. CASE ~(j < i)
    <3>1. (l \o u)[j] = u[j - (i - 1)]
      BY <1>1, <1>2, <1>4, <1>5, <2>2
    <3>2. j - (i - 1) \in 1..(Len(s) - i) /\ i + (j - (i - 1)) = j + 1
      BY <1>1, <2>2
    <3> QED BY <1>3, <2>2, <3>1, <3>2
  <2> QED BY <2>1, <2>2
<1> QED BY <1>4, <1>5, <1>6 DEF l, u

\* The host completes the command at i of the ring.
LEMMA MovedToUsed ==
    ASSUME TypeOK, Commands, ResourcesOK, NEW i \in 1..Len(ring),
           used' = Append(used, ring[i]),
           ring' = SubSeq(ring, 1, i - 1) \o SubSeq(ring, i + 1, Len(ring)),
           UNCHANGED <<act, res, free, signalled, nextFence>>
    PROVE  Commands' /\ ring' \in Seq(Command) /\ used' \in Seq(Command) /\ (QueuesOK => QueuesOK')
<1> DEFINE n == Len(used) + 1
           at(j) == IF j < i THEN j ELSE j + 1
           to == [s \in Places |-> CASE s = <<"ring", i>> -> <<"used", n>>
                                     [] s # <<"ring", i>> /\ s[1] = "ring" ->
                                          <<"ring", IF s[2] < i THEN s[2] ELSE s[2] - 1>>
                                     [] OTHER -> s]
<1>1. /\ Len(ring) \in Nat /\ Len(used) \in Nat /\ ring[i] \in Command
      /\ ring \in Seq(Command) /\ used \in Seq(Command)
  BY DEF TypeOK
<1>2. /\ ring' \in Seq(Command) /\ Len(ring') = Len(ring) - 1
      /\ \A j \in 1..(Len(ring) - 1) : ring'[j] = ring[at(j)]
  BY <1>1, Without
<1>3. /\ used' \in Seq(Command) /\ Len(used') = n /\ used'[n] = ring[i]
      /\ \A j \in 1..Len(used) : used'[j] = used[j]
  BY <1>1, AppendProperties
<1>4. \A j \in 1..(Len(ring) - 1) : at(j) \in 1..Len(ring) /\ at(j) # i
  BY <1>1
<1>5. QueuesOK => QueuesOK'
  <2>1. SUFFICES ASSUME QueuesOK PROVE QueuesOK'
    OBVIOUS
  <2>2. \A j \in 1..Len(ring') : CommandOK(ring'[j])
    BY <1>2, <1>4, <2>1 DEF QueuesOK
  <2>3. \A j \in 1..Len(used') : CommandOK(used'[j])
    <3>1. \A j \in 1..Len(used') : j \in 1..Len(used) \/ j = n
      BY <1>1, <1>3
    <3> QED BY <1>3, <2>1, <3>1 DEF QueuesOK
  <2> QED BY <2>2, <2>3 DEF QueuesOK
<1>6. /\ to[<<"ring", i>>] = <<"used", n>>
      /\ \A a \in Actors : to[<<"act", a>>] = <<"act", a>>
      /\ \A j \in 1..Len(used) : to[<<"used", j>>] = <<"used", j>>
  BY AtPlaces
<1>7. \A j \in 1..(Len(ring) - 1) : to[<<"ring", at(j)>>] = <<"ring", j>>
  <2>1. SUFFICES ASSUME NEW j \in 1..(Len(ring) - 1) PROVE to[<<"ring", at(j)>>] = <<"ring", j>>
    OBVIOUS
  <2>2. <<"ring", at(j)>> \in Places /\ <<"ring", at(j)>> # <<"ring", i>>
    BY <1>4, AtPlaces
  <2>3. (IF at(j) < i THEN at(j) ELSE at(j) - 1) = j
    BY <1>1
  <2> HIDE DEF at
  <2> QED BY <2>2, <2>3
<1> HIDE DEF to, at
<1>8. ASSUME NEW p \in Places'
      PROVE  \E s \in Places : to[s] = p /\ WasAt(p, s)
  <2>1. CASE \E a \in Actors : p = <<"act", a>>
    <3>1. PICK a \in Actors : p = <<"act", a>>
      BY <2>1
    <3>2. p \in Places /\ At(p)' = At(p) /\ (Waiting(p) => Waiting(p)')
      BY <3>1, AtPlaces, AtPlacesNext DEF Waiting
    <3> QED BY <1>6, <3>1, <3>2 DEF WasAt, Like
  <2>2. CASE \E j \in 1..Len(ring') : p = <<"ring", j>>
    <3>1. PICK j \in 1..Len(ring') : p = <<"ring", j>>
      BY <2>2
    <3> DEFINE s == <<"ring", at(j)>>
    <3>2. s \in Places /\ At(s) = ring[at(j)] /\ ~Waiting(s)
      BY <1>2, <1>4, AtPlaces DEF Waiting
    <3>3. At(p)' = ring'[j] /\ to[s] = p
      BY <1>2, <1>7, <3>1, AtPlacesNext
    <3> HIDE DEF s
    <3> QED BY <1>2, <3>1, <3>2, <3>3 DEF WasAt, Like
  <2>3. CASE \E j \in 1..Len(used') : p = <<"used", j>>
    <3>1. PICK j \in 1..Len(used') : p = <<"used", j>>
      BY <2>3
    <3>2. CASE j = n
      <4>1. <<"ring", i>> \in Places /\ At(<<"ring", i>>) = At(p)' /\ ~Waiting(<<"ring", i>>)
        BY <1>3, <3>1, <3>2, AtPlaces, AtPlacesNext DEF Waiting
      <4> QED BY <1>6, <3>1, <3>2, <4>1 DEF WasAt, Like
    <3>3. CASE j # n
      <4>1. j \in 1..Len(used)
        BY <1>1, <1>3, <3>3
      <4> QED BY <1>3, <1>6, <3>1, <4>1, Stays
    <3> QED BY <3>2, <3>3
  <2> QED BY <2>1, <2>2, <2>3, AtPlacesNext
<1>9. Commands'
  BY <1>8, Moved
<1> QED BY <1>2, <1>3, <1>5, <1>9

\* The DPC fetches the first completed command and becomes r, which has it or drops it.
LEMMA MovedToDpc ==
    ASSUME TypeOK, Commands, ResourcesOK, NEW d \in Actors, used # <<>>,
           used' = Tail(used),
           Blank(act'[d].cmd) \/ act'[d].cmd = Head(used),
           \A a \in Actors \ {d} : act'[a] = act[a],
           UNCHANGED <<res, ring, free, signalled, nextFence>>
    PROVE  Commands' /\ used' \in Seq(Command) /\ (QueuesOK => QueuesOK' /\ CommandOK(Head(used)))
<1> DEFINE to == [s \in Places |-> CASE s = <<"used", 1>> -> <<"act", d>>
                                     [] s # <<"used", 1>> /\ s[1] = "used" -> <<"used", s[2] - 1>>
                                     [] OTHER -> s]
<1>1. Len(used) \in Nat /\ used \in Seq(Command) /\ Len(used) # 0
  BY DEF TypeOK
<1>2. /\ used' \in Seq(Command) /\ Len(used') = Len(used) - 1 /\ Head(used) = used[1]
      /\ \A j \in 1..Len(used') : used'[j] = used[j + 1]
  BY <1>1, HeadTailProperties
<1>3. 1 \in 1..Len(used) /\ \A j \in 1..Len(used') : j + 1 \in 1..Len(used) /\ j + 1 # 1 /\ (j + 1) - 1 = j
  BY <1>1, <1>2
<1>4. QueuesOK => QueuesOK' /\ CommandOK(Head(used))
  BY <1>2, <1>3 DEF QueuesOK
<1>5. /\ to[<<"used", 1>>] = <<"act", d>>
      /\ \A a \in Actors : to[<<"act", a>>] = <<"act", a>>
      /\ \A j \in 1..Len(ring) : to[<<"ring", j>>] = <<"ring", j>>
      /\ \A j \in 1..Len(used') : to[<<"used", j + 1>>] = <<"used", j>>
  BY <1>3, AtPlaces
<1> HIDE DEF to
<1>6. ASSUME NEW p \in Places'
      PROVE  Blank(At(p)') \/ \E s \in Places : to[s] = p /\ WasAt(p, s)
  <2>1. CASE \E a \in Actors : p = <<"act", a>>
    <3>1. PICK a \in Actors : p = <<"act", a>>
      BY <2>1
    <3>2. CASE a = d
      <4>1. Blank(At(p)') \/ At(p)' = used[1]
        BY <1>2, <3>1, <3>2, AtPlacesNext
      <4>2. <<"used", 1>> \in Places /\ At(<<"used", 1>>) = used[1] /\ ~Waiting(<<"used", 1>>)
        BY <1>3, AtPlaces DEF Waiting
      <4> QED BY <1>5, <3>1, <3>2, <4>1, <4>2 DEF WasAt, Like
    <3>3. CASE a # d
      <4>1. CommandKept(a)
        BY <3>3 DEF CommandKept, Like
      <4> QED BY <1>5, <3>1, <4>1, Stays
    <3> QED BY <3>2, <3>3
  <2>2. CASE \E j \in 1..Len(ring') : p = <<"ring", j>>
    BY <1>5, <2>2, Stays
  <2>3. CASE \E j \in 1..Len(used') : p = <<"used", j>>
    <3>1. PICK j \in 1..Len(used') : p = <<"used", j>>
      BY <2>3
    <3> DEFINE s == <<"used", j + 1>>
    <3>2. s \in Places /\ At(s) = used[j + 1] /\ ~Waiting(s)
      BY <1>3, AtPlaces DEF Waiting
    <3>3. At(p)' = used'[j] /\ to[s] = p
      BY <1>5, <3>1, AtPlacesNext
    <3> HIDE DEF s
    <3> QED BY <1>2, <3>1, <3>2, <3>3 DEF WasAt, Like
  <2> QED BY <2>1, <2>2, <2>3, AtPlacesNext
<1>7. Commands'
  BY <1>6, Moved
<1> QED BY <1>2, <1>4, <1>7

\* A step of actor a that leaves the queues alone, seen from the places of commands.
LEMMA OneActor ==
    ASSUME NEW a \in Actors, \A b \in Actors \ {a} : act'[b] = act[b], ring' = ring, used' = used
    PROVE  /\ Places' = Places /\ <<"act", a>> \in Places /\ At(<<"act", a>>)' = act'[a].cmd
           /\ Waiting(<<"act", a>>)' <=> act'[a].pc = "infence"
           /\ \A p \in Places \ {<<"act", a>>} : At(p)' = At(p) /\ (Waiting(p)' <=> Waiting(p))
<1>1. Places' = Places
  BY DEF Places
<1>2. ASSUME NEW p \in Places \ {<<"act", a>>} PROVE At(p)' = At(p) /\ (Waiting(p)' <=> Waiting(p))
  <2>1. CASE \E b \in Actors : p = <<"act", b>>
    <3>1. PICK b \in Actors : p = <<"act", b>>
      BY <2>1
    <3>2. b # a
      BY <1>2, <3>1
    <3> QED BY <3>1, <3>2, AtPlaces, AtPlacesNext DEF Waiting
  <2>2. CASE \E j \in 1..Len(ring) : p = <<"ring", j>>
    BY <2>2, AtPlaces, AtPlacesNext DEF Waiting
  <2>3. CASE \E j \in 1..Len(used) : p = <<"used", j>>
    BY <2>3, AtPlaces, AtPlacesNext DEF Waiting
  <2> QED BY <2>1, <2>2, <2>3, AtPlaces
<1> QED BY <1>1, <1>2, AtPlaces, AtPlacesNext DEF Waiting

\* The commands of the queues and of the actors are typed and in order.
LEMMA CommandsTyped ==
    ASSUME TypeOK
    PROVE  \A p \in Places : At(p) \in Command
<1>1. \A a \in Actors : act[a].cmd \in Command
  BY DEF TypeOK, Activity
<1>2. \A j \in 1..Len(ring) : ring[j] \in Command
  BY DEF TypeOK
<1>3. \A j \in 1..Len(used) : used[j] \in Command
  BY DEF TypeOK
<1> QED BY <1>1, <1>2, <1>3, AtPlaces

\* The memory of a command comes from free, its fence is the next one.
LEMMA CommandTaken ==
    ASSUME TypeOK, Commands, NEW t \in Actors, NEW b \in free, NEW fence \in {0, nextFence},
           act[t].pc # "infence", act'[t].pc # "infence",
           act'[t].cmd.blk = b, act'[t].cmd.fence = fence, act'[t].cmd.after = act[t].cmd.after,
           \A a \in Actors \ {t} : act'[a] = act[a],
           free' = free \ {b}, nextFence' = IF fence # 0 THEN nextFence + 1 ELSE nextFence,
           \A i \in Ids : res[i].blk # NoBlock => res[i].blk \notin free,
           UNCHANGED <<res, ring, used, signalled>>
    PROVE  Commands'
<1> DEFINE p0 == <<"act", t>>
<1>1. /\ Places' = Places /\ p0 \in Places /\ At(p0)' = act'[t].cmd /\ ~Waiting(p0)'
      /\ At(p0) = act[t].cmd /\ ~Waiting(p0)
      /\ \A p \in Places \ {p0} : At(p)' = At(p) /\ (Waiting(p)' <=> Waiting(p))
  BY OneActor, AtPlaces DEF Waiting
<1>2. b # NoBlock /\ nextFence \in Nat /\ nextFence' \in Nat /\ nextFence' >= nextFence
      /\ nextFence # 0 /\ (fence # 0 => nextFence' > fence)
  BY ConstAssumption DEF TypeOK, NoBlock
<1> HIDE DEF p0
<1>3. CommandMemoryExclusive'
  BY <1>1, <1>2 DEF Commands, CommandMemoryExclusive
<1>4. FencesFresh'
  <2>1. \A f \in signalled : f \in Nat /\ f < nextFence /\ f < nextFence' /\ f # nextFence
    <3>1. \A f \in signalled : f \in Nat /\ f < nextFence
      BY ConstAssumption DEF Commands, FencesFresh, TypeOK, Fences
    <3> QED BY <1>2, <3>1
  <2>2. \A p \in Places : At(p).fence # 0 => At(p).fence < nextFence
    BY DEF Commands, FencesFresh
  <2>3. \A p \in Places : At(p).fence \in Nat
    <3>1. \A p \in Places : At(p) \in Command
      BY CommandsTyped
    <3> QED BY <3>1, ConstAssumption DEF Command, Fences
  <2>4. \A p \in Places : At(p).fence # 0 => At(p).fence < nextFence' /\ At(p).fence # nextFence
    BY <1>2, <2>2, <2>3
  <2>5. At(p0)'.fence = fence /\ (fence # 0 => fence = nextFence)
    BY <1>1
  <2>6. \A f \in signalled' : f < nextFence'
    BY <2>1
  <2>7. ASSUME NEW p \in Places', At(p)'.fence # 0
        PROVE  At(p)'.fence < nextFence' /\ At(p)'.fence \notin signalled'
    BY <1>1, <1>2, <2>1, <2>4, <2>5, <2>7 DEF Commands, FencesFresh
  <2>8. ASSUME NEW p \in Places', NEW q \in Places', p # q, At(p)'.fence # 0
        PROVE  At(q)'.fence # At(p)'.fence
    BY <1>1, <2>4, <2>5, <2>8 DEF Commands, FencesFresh
  <2> QED BY <2>6, <2>7, <2>8 DEF FencesFresh
<1>5. AfterOK'
  BY <1>1 DEF Commands, AfterOK
<1> QED BY <1>3, <1>4, <1>5 DEF Commands

\* A command is done: its fence is set and its memory free.
LEMMA CommandDone ==
    ASSUME TypeOK, Commands, NEW d \in Actors,
           Blank(act'[d].cmd), \A a \in Actors \ {d} : act'[a] = act[a],
           free' = free \cup ({act[d].cmd.blk} \ {NoBlock}),
           signalled' = signalled \cup ({act[d].cmd.fence} \ {0}),
           UNCHANGED <<res, ring, used, nextFence>>
    PROVE  Commands'
<1> DEFINE p0 == <<"act", d>>
<1>1. /\ Places' = Places /\ p0 \in Places /\ Blank(At(p0)') /\ At(p0) = act[d].cmd
      /\ \A p \in Places \ {p0} : At(p)' = At(p) /\ (Waiting(p)' <=> Waiting(p))
  BY OneActor, AtPlaces
<1> HIDE DEF p0
<1>2. CommandMemoryExclusive'
  BY <1>1 DEF Commands, CommandMemoryExclusive, Blank
<1>3. FencesFresh'
  BY <1>1 DEF Commands, FencesFresh, Blank
<1>4. AfterOK'
  BY <1>1 DEF Commands, AfterOK, Blank
<1> QED BY <1>2, <1>3, <1>4 DEF Commands

-----------------------------------------------------------------------------
(* What a step of one actor leaves to the others.                            *)

\* KeSetEvent leaves a released thread in order.
LEMMA ActorsKept ==
    ASSUME ActorsOK, NEW a \in Actors, NEW r, ActorOK(a, r), ActStep(a, r)
    PROVE  ActorsOK'
<1>1. ASSUME NEW b, NEW x, NEW y, ActorOK(b, x), Woken(x, y) PROVE ActorOK(b, y)
  <2>1. CASE x.pc = "wait" /\ y = Idle
    BY <2>1 DEF ActorOK, Idle, CommandOK, Other, Mapping
  <2>2. CASE x.pc = "mapwait" /\ y = [x EXCEPT !.pc = "mapshare"]
    BY <1>1, <2>2 DEF ActorOK, Mapping
  <2> QED BY <1>1, <2>1, <2>2 DEF Woken
<1> QED BY <1>1 DEF ActorsOK, ActStep

\* The fence ids that will be taken, after a step of actor a, which goes on as r.
LEMMA NeedyAfter ==
    ASSUME NEW a \in Actors, NEW r, ActStep(a, r)
    PROVE  /\ Needy' \subseteq Needy \cup {a}
           /\ (a \in FencedThreads /\ r.pc \in {"infence", "alloc"}) \/ a \notin Needy'
           /\ Needy \ {a} \subseteq Needy'
<1>1. FencedThreads \subseteq Actors
  BY ConstAssumption DEF Actors
<1>2. ASSUME NEW x, NEW y, Woken(x, y)
      PROVE  y.pc \in {"infence", "alloc"} <=> x.pc \in {"infence", "alloc"}
  <2>1. CASE x.pc = "mapwait" /\ y = [x EXCEPT !.pc = "mapshare"]
    BY <2>1
  <2> QED BY <1>2, <2>1 DEF Woken, Idle
<1> QED BY <1>1, <1>2 DEF Needy, ActStep

\* The threads that will take a fence id are finitely many.
LEMMA NeedyFinite == IsFiniteSet(Needy) /\ IsFiniteSet(Needy') /\ NeedFence = Cardinality(Needy)
                     /\ NeedFence' = Cardinality(Needy') /\ NeedFence \in Nat /\ NeedFence' \in Nat
<1>1. IsFiniteSet(Threads) /\ Needy \subseteq Threads /\ Needy' \subseteq Threads
  BY ConstAssumption DEF Needy
<1>2. IsFiniteSet(Needy) /\ IsFiniteSet(Needy')
  BY <1>1, FS_Subset
<1>3. NeedFence = Cardinality(Needy) /\ NeedFence' = Cardinality(Needy')
  BY DEF NeedFence, Needy
<1> QED BY <1>2, <1>3, FS_CardinalityType

\* A step that makes no thread want a fence id keeps the ids within the bound.
LEMMA BudgetKept ==
    ASSUME TypeOK, FenceBudget, NEW a \in Actors, NEW r, ActStep(a, r), nextFence' = nextFence,
           a \in Needy \/ r.pc \notin {"infence", "alloc"}
    PROVE  FenceBudget'
<1>1. Needy' \subseteq Needy
  BY NeedyAfter
<1>2. NeedFence' <= NeedFence
  BY <1>1, NeedyFinite, FS_Subset
<1>3. nextFence \in Nat /\ MaxFence \in Nat
  BY ConstAssumption DEF TypeOK
<1> QED BY <1>2, <1>3, NeedyFinite DEF FenceBudget

\* KeSetEvent leaves the commands of the others.
LEMMA CommandsKept ==
    ASSUME TypeOK, ActorsOK, NEW a \in Actors, NEW r, ActStep(a, r)
    PROVE  /\ \A b \in Actors \ {a} : CommandKept(b)
           /\ Blank(r.cmd) => Blank(act'[a].cmd)
           /\ Like(r.cmd, act[a].cmd) /\ (act[a].pc = "infence" => r.pc = "infence") => CommandKept(a)
<1>1. ASSUME NEW x, NEW y, Woken(x, y)
      PROVE  Blank(y.cmd) \/ (Like(y.cmd, x.cmd) /\ (x.pc = "infence" => y.pc = "infence"))
  <2>1. CASE x.pc = "mapwait" /\ y = [x EXCEPT !.pc = "mapshare"]
    BY <2>1 DEF Like
  <2> QED BY <1>1, <2>1 DEF Woken, Idle, Other, Blank, Like
<1>2. ASSUME NEW x, NEW y, Woken(x, y), Blank(x.cmd)
      PROVE  Blank(y.cmd)
  BY <1>1, <1>2 DEF Blank, Like
<1>3. \A b \in Actors \ {a} : Woken(act[b], act'[b])
  BY DEF ActStep
<1>4. Woken(r, act'[a])
  BY DEF ActStep
<1> QED BY <1>1, <1>2, <1>3, <1>4 DEF CommandKept, Like

\* A step of actor a that leaves the queues, the memory and the counters alone.
LEMMA QuietStep ==
    ASSUME IInv, NEW a \in Actors, NEW r \in Activity, ActStep(a, r), ActorOK(a, r),
           a \in Needy \/ r.pc \notin {"infence", "alloc"},
           \/ Blank(r.cmd)
           \/ Like(r.cmd, act[a].cmd) /\ (act[a].pc = "infence" => r.pc = "infence"),
           res' \in [Ids -> Resource], \A i \in Ids : res'[i].blk = res[i].blk,
           UNCHANGED <<ring, used, free, signalled, nextRes, nextFence>>
    PROVE  IInv'
<1>1. TypeOK'
  BY DEF IInv, TypeOK, ActStep
<1>2. FenceBudget'
  BY BudgetKept DEF IInv
<1>3. QueuesOK'
  BY DEF IInv, QueuesOK
<1>4. ActorsOK'
  BY ActorsKept DEF IInv
<1>5. ResourcesOK'
  BY DEF IInv, ResourcesOK
<1>6. \A b \in Actors : CommandKept(b)
  BY CommandsKept DEF IInv, CommandKept
<1>7. ring \in Seq(Command) /\ Len(ring) \in Nat
  BY DEF IInv, TypeOK
<1>8. \A j \in 1..Len(ring) : ~(j > Len(ring))
  BY <1>7
<1>9. Commands'
  BY <1>6, <1>7, <1>8, MovedNowhere DEF IInv
<1> QED BY <1>1, <1>2, <1>3, <1>4, <1>5, <1>9 DEF IInv

-----------------------------------------------------------------------------
(* UpdateResourceState.                                                      *)

\* The resources a handler or a DPC names are typed, and so are its next states.
LEMMA ActorTyped ==
    ASSUME IInv, NEW a \in Actors
    PROVE  /\ act[a] \in Activity /\ act[a].cmd \in Command /\ act[a].todo \subseteq Ids
           /\ act[a].cmd.fence \in Fences /\ act[a].cmd.ids \subseteq Ids
           /\ ActorOK(a, act[a])
<1>1. act[a] \in Activity /\ ActorOK(a, act[a])
  BY DEF IInv, TypeOK, ActorsOK
<1>2. act[a].cmd \in Command /\ act[a].todo \subseteq Ids
  BY <1>1 DEF Activity
<1> QED BY <1>1, <1>2 DEF Command

\* A change of the event alone.
LEMMA EventOnly ==
    ASSUME IInv, NEW i \in Ids, NEW e, res' = [res EXCEPT ![i].event = e]
    PROVE  \A j \in Ids : res'[j].blk = res[j].blk
<1>1. \A j \in Ids : res[j] \in Resource
  BY DEF IInv, TypeOK
<1> QED BY <1>1 DEF IInv, TypeOK, Resource

\* UpdateResourceState compares the fence of the command with the last one of the resource.
LEMMA StepUpdateCompare ==
    ASSUME IInv, NEW a \in Actors, UpdateCompare(a)
    PROVE  IInv'
<1>1. PICK i \in act[a].todo :
        LET rest == [act[a] EXCEPT !.todo = @ \ {i}]
        IN  \/ act[a].cmd.fence = 0 /\ ChangeEvent(a, i, rest)
            \/ /\ act[a].cmd.fence # 0 /\ Newer(a, i)
               /\ To(a, [rest EXCEPT !.cur = i, !.pc = "write"])
               /\ UNCHANGED res
            \/ /\ act[a].cmd.fence # 0 /\ ~Newer(a, i)
               /\ To(a, rest)
               /\ UNCHANGED res
  BY DEF UpdateCompare
<1>2. act[a] \in Activity /\ ActorOK(a, act[a]) /\ act[a].pc = "update" /\ i \in Ids
  BY <1>1, ActorTyped DEF UpdateCompare
<1> DEFINE rest == [act[a] EXCEPT !.todo = @ \ {i}]
           write == [rest EXCEPT !.cur = i, !.pc = "write"]
<1>3. rest \in Activity /\ rest.cmd = act[a].cmd /\ rest.pc = "update"
  BY <1>2 DEF Activity
<1>4. write \in Activity /\ write.cmd = act[a].cmd /\ write.pc = "write" /\ write.cur = i
  BY <1>2 DEF Activity
<1>5. ActorOK(a, rest) /\ ActorOK(a, write)
  BY <1>2, <1>3, <1>4 DEF ActorOK, Mapping
<1>6. UNCHANGED <<ring, used, free, signalled, nextRes, nextFence>>
  BY DEF UpdateCompare
<1>7. TypeOK /\ res \in [Ids -> Resource]
  BY DEF IInv, TypeOK
<1>8. ASSUME ChangeEvent(a, i, rest) PROVE IInv'
  <2> HIDE DEF rest
  <2>1. ActStep(a, rest) /\ res' = [res EXCEPT ![i].event = ~Busy(a)] /\ res' \in [Ids -> Resource]
    BY <1>2, <1>3, <1>7, <1>8, StepChangeEvent
  <2>2. \A j \in Ids : res'[j].blk = res[j].blk
    BY <1>2, <2>1, EventOnly
  <2> QED BY <1>2, <1>3, <1>5, <1>6, <2>1, <2>2, QuietStep DEF Like
<1>9. ASSUME NEW r \in {rest, write}, To(a, r), UNCHANGED res PROVE IInv'
  <2>1. r \in Activity /\ ActorOK(a, r) /\ r.cmd = act[a].cmd /\ r.pc \in {"update", "write"}
    BY <1>3, <1>4, <1>5, <1>9
  <2>2. ActStep(a, r)
    BY <1>7, <1>9, <2>1, StepTo
  <2> QED BY <1>2, <1>6, <1>7, <1>9, <2>1, <2>2, QuietStep DEF Like
<1> QED BY <1>1, <1>8, <1>9

\* UpdateResourceState stores the fence id.
LEMMA StepUpdateWrite ==
    ASSUME IInv, NEW a \in Actors, UpdateWrite(a)
    PROVE  IInv'
<1> DEFINE i == act[a].cur
           r == [act[a] EXCEPT !.pc = "event"]
<1>1. act[a] \in Activity /\ ActorOK(a, act[a]) /\ act[a].pc = "write" /\ i \in Ids
      /\ act[a].cmd.fence \in Fences
  BY ActorTyped DEF UpdateWrite, ActorOK
<1>2. r \in Activity /\ r.cmd = act[a].cmd /\ r.pc = "event" /\ r.cur = i
  BY <1>1 DEF Activity
<1>3. ActorOK(a, r)
  BY <1>1, <1>2 DEF ActorOK, Mapping
<1>4. /\ To(a, r) /\ UNCHANGED <<ring, used, free, signalled, nextRes, nextFence>>
      /\ res' = [res EXCEPT ![i] = [res[i] EXCEPT !.FenceId = act[a].cmd.fence]]
  BY DEF UpdateWrite
<1>5. TypeOK /\ res \in [Ids -> Resource] /\ res[i] \in Resource
  BY <1>1 DEF IInv, TypeOK
<1>6. [res[i] EXCEPT !.FenceId = act[a].cmd.fence] \in Resource
  BY <1>1, <1>5, ResourceUpdates
<1>7. res' \in [Ids -> Resource]
  BY <1>4, <1>5, <1>6
<1>8. \A j \in Ids : res'[j].blk = res[j].blk
  BY <1>4, <1>5 DEF Resource
<1> HIDE DEF r
<1>9. ActStep(a, r)
  BY <1>2, <1>4, <1>5, StepTo
<1> QED BY <1>1, <1>2, <1>3, <1>4, <1>7, <1>8, <1>9, QuietStep DEF Like

\* UpdateResourceState sets or clears the event.
LEMMA StepUpdateEvent ==
    ASSUME IInv, NEW a \in Actors, UpdateEvent(a)
    PROVE  IInv'
<1> DEFINE i == act[a].cur
           r == [act[a] EXCEPT !.pc = "update", !.cur = 0]
<1>1. act[a] \in Activity /\ ActorOK(a, act[a]) /\ act[a].pc = "event" /\ i \in Ids
  BY ActorTyped DEF UpdateEvent, ActorOK
<1>2. r \in Activity /\ r.cmd = act[a].cmd /\ r.pc = "update"
  BY <1>1 DEF Activity
<1>3. ActorOK(a, r)
  BY <1>1, <1>2 DEF ActorOK, Mapping
<1>4. ChangeEvent(a, i, r) /\ UNCHANGED <<ring, used, free, signalled, nextRes, nextFence>>
  BY DEF UpdateEvent
<1>5. TypeOK
  BY DEF IInv
<1> HIDE DEF r
<1>6. ActStep(a, r) /\ res' = [res EXCEPT ![i].event = ~Busy(a)] /\ res' \in [Ids -> Resource]
  BY <1>1, <1>2, <1>4, <1>5, StepChangeEvent
<1>7. \A j \in Ids : res'[j].blk = res[j].blk
  BY <1>1, <1>6, EventOnly
<1> QED BY <1>1, <1>2, <1>3, <1>4, <1>6, <1>7, QuietStep DEF Like

-----------------------------------------------------------------------------
(* Handlers that leave the queues alone.                                     *)

\* A step that changes nothing but what actor a is doing, and no command.
LEMMA OnlyTo ==
    ASSUME IInv, NEW a \in Actors, NEW r \in Activity, To(a, r), ActorOK(a, r), Blank(r.cmd),
           r.pc \notin {"infence", "alloc"},
           UNCHANGED <<res, ring, used, free, signalled, nextRes, nextFence>>
    PROVE  IInv'
<1>1. TypeOK /\ res' \in [Ids -> Resource]
  BY DEF IInv, TypeOK
<1>2. ActStep(a, r)
  BY <1>1, StepTo
<1> QED BY <1>1, <1>2, QuietStep

\* A command of no interest holds nothing.
LEMMA BlankOther == Blank(Other) /\ CommandOK(Other)
  BY DEF Blank, CommandOK, Other

\* Threads are actors.
LEMMA ThreadIsActor == \A t \in Threads : t \in Actors
  BY DEF Actors

\* CtlWait waits for the event or returns.
LEMMA StepCtlWait ==
    ASSUME IInv, NEW t \in Threads, NEW i \in Ids, CtlWait(t, i)
    PROVE  IInv'
<1> DEFINE r == [Idle EXCEPT !.cur = i, !.pc = "wait"]
<1>1. r \in Activity /\ r.pc = "wait" /\ r.cur = i /\ r.cmd = Other
  BY Values DEF Activity, Idle
<1>2. ActorOK(t, r) /\ Blank(r.cmd)
  BY <1>1, BlankOther DEF ActorOK, Mapping
<1>3. To(t, r) /\ act[t].pc = "idle" /\ UNCHANGED <<res, ring, used, free, signalled, nextRes, nextFence>>
  BY DEF CtlWait, MayStart
<1> HIDE DEF r
<1> QED BY <1>1, <1>2, <1>3, OnlyTo, ThreadIsActor

\* CtlMap waits for the event of a resource that has no pMdl yet.
LEMMA StepCtlMap ==
    ASSUME IInv, NEW t \in Threads, NEW i \in Ids, CtlMap(t, i)
    PROVE  IInv'
<1> DEFINE pc == IF res[i].event THEN "mapshare" ELSE "mapwait"
           r == [Idle EXCEPT !.cur = i, !.pc = pc]
<1>1. pc \in {"mapshare", "mapwait"}
  OBVIOUS
<1>2. To(t, r) /\ act[t].pc = "idle" /\ UNCHANGED <<res, ring, used, free, signalled, nextRes, nextFence>>
  BY DEF CtlMap, MayStart
<1> HIDE DEF pc
<1>3. r \in Activity /\ r.pc = pc /\ r.cur = i /\ r.cmd = Other
  BY <1>1, Values DEF Activity, Idle
<1>4. ActorOK(t, r) /\ Blank(r.cmd)
  BY <1>1, <1>2, <1>3, BlankOther DEF ActorOK, Mapping
<1> HIDE DEF r
<1> QED BY <1>1, <1>2, <1>3, <1>4, OnlyTo, ThreadIsActor

\* CtlTransferHost makes the resource busy before it pushes the transfer.
LEMMA StepCtlTransferHost ==
    ASSUME IInv, NEW t \in Threads, NEW i \in Ids, CtlTransferHost(t, i)
    PROVE  IInv'
<1> DEFINE c == [Other EXCEPT !.type = "xfer", !.ids = {i}]
           r == [Idle EXCEPT !.cmd = c, !.pc = "push"]
<1>1. c \in Command /\ c.type = "xfer" /\ Blank(c)
  BY Values DEF Command, Other, Blank
<1>2. ChangeEvent(t, i, r) /\ act[t].pc = "idle" /\ UNCHANGED <<ring, used, free, signalled, nextRes, nextFence>>
  BY DEF CtlTransferHost, MayStart
<1> HIDE DEF c
<1>3. r \in Activity /\ r.pc = "push" /\ r.cmd = c
  BY <1>1, Values DEF Activity, Idle
<1>4. ActorOK(t, r)
  BY <1>1, <1>3 DEF ActorOK, Mapping, CommandOK
<1> HIDE DEF r
<1>5. TypeOK /\ t \in Actors
  BY ThreadIsActor DEF IInv
<1>6. ActStep(t, r) /\ res' = [res EXCEPT ![i].event = ~Busy(t)] /\ res' \in [Ids -> Resource]
  BY <1>2, <1>3, <1>5, StepChangeEvent
<1>7. \A j \in Ids : res'[j].blk = res[j].blk
  BY <1>6, EventOnly
<1> QED BY <1>1, <1>2, <1>3, <1>4, <1>5, <1>6, <1>7, QuietStep

\* MapShare sets pMdl or fails.
LEMMA StepMapShare ==
    ASSUME IInv, NEW t \in Threads, MapShare(t)
    PROVE  IInv'
<1> DEFINE i == act[t].cur
           r == [act[t] EXCEPT !.pc = "mapuser"]
<1>1. /\ t \in Actors /\ act[t] \in Activity /\ ActorOK(t, act[t]) /\ act[t].pc = "mapshare"
      /\ UNCHANGED <<ring, used, free, signalled, nextRes, nextFence>>
  BY ActorTyped, ThreadIsActor DEF MapShare
<1>2. i \in Ids /\ t \in Threads /\ act[t].cmd = Other
  BY <1>1 DEF ActorOK, Mapping
<1>3. TypeOK /\ res \in [Ids -> Resource] /\ res[i] \in Resource
  BY <1>2 DEF IInv, TypeOK
<1>4. ASSUME To(t, Idle), UNCHANGED res PROVE IInv'
  <2>1. ActorOK(t, Idle) /\ Blank(Idle.cmd) /\ Idle.pc = "idle"
    BY BlankOther DEF Idle, ActorOK, Mapping
  <2> QED BY <1>1, <1>4, <2>1, Values, OnlyTo
<1>5. ASSUME res' = [res EXCEPT ![i].mdl = TRUE], To(t, r) PROVE IInv'
  <2>1. r \in Activity /\ r.cmd = Other /\ r.pc = "mapuser" /\ r.cur = i
    BY <1>1, <1>2 DEF Activity
  <2>2. ActorOK(t, r) /\ Blank(r.cmd)
    BY <1>2, <2>1, BlankOther DEF ActorOK, Mapping
  <2> HIDE DEF r
  <2>3. ActStep(t, r)
    BY <1>1, <1>3, <1>5, <2>1, StepTo
  <2>4. [res[i] EXCEPT !.mdl = TRUE] \in Resource
    BY <1>3, ResourceUpdates
  <2>5. res' = [res EXCEPT ![i] = [res[i] EXCEPT !.mdl = TRUE]]
    BY <1>5
  <2>6. res' \in [Ids -> Resource] /\ \A j \in Ids \ {i} : res'[j] = res[j]
    BY <1>3, <2>4, <2>5
  <2>7. \A j \in Ids : res'[j].blk = res[j].blk
    BY <1>2, <1>3, <2>5 DEF Resource
  <2> QED BY <1>1, <2>1, <2>2, <2>3, <2>6, <2>7, QuietStep
<1> QED BY <1>4, <1>5 DEF MapShare, Return

\* MapUser leaves the resource or takes pMdl back.
LEMMA StepMapUser ==
    ASSUME IInv, NEW t \in Threads, MapUser(t)
    PROVE  IInv'
<1> DEFINE i == act[t].cur
<1>1. /\ t \in Actors /\ act[t] \in Activity /\ ActorOK(t, act[t]) /\ act[t].pc = "mapuser"
      /\ UNCHANGED <<ring, used, free, signalled, nextRes, nextFence>> /\ To(t, Idle)
  BY ActorTyped, ThreadIsActor DEF MapUser, Return
<1>2. i \in Ids
  BY <1>1 DEF ActorOK, Mapping
<1>3. TypeOK /\ res \in [Ids -> Resource] /\ res[i] \in Resource
  BY <1>2 DEF IInv, TypeOK
<1>4. ActorOK(t, Idle) /\ Blank(Idle.cmd) /\ Idle.pc = "idle"
  BY BlankOther DEF Idle, ActorOK, Mapping
<1>5. ActStep(t, Idle)
  BY <1>1, <1>3, Values, StepTo
<1> DEFINE no == [res[i] EXCEPT !.mdl = FALSE]
<1>6. res' = res \/ res' = [res EXCEPT ![i] = no]
  BY DEF MapUser
<1>7. no \in Resource /\ no.blk = res[i].blk
  <2>1. no.blk = res[i].blk
    BY <1>3 DEF Resource
  <2> QED BY <1>3, <2>1, ResourceUpdates
<1> HIDE DEF no
<1>8. res' \in [Ids -> Resource] /\ \A j \in Ids : res'[j].blk = res[j].blk
  BY <1>2, <1>3, <1>6, <1>7
<1> QED BY <1>1, <1>4, <1>5, <1>8, Values, QuietStep

-----------------------------------------------------------------------------
(* Submissions.                                                              *)

\* The handler of a submission before it has memory and a fence.
LEMMA CommandWaits ==
    ASSUME TypeOK, Commands, NEW t \in Actors, \A a \in Actors \ {t} : act'[a] = act[a],
           act'[t].cmd.blk = NoBlock, act'[t].cmd.fence = 0,
           act'[t].cmd.after # 0 => act'[t].pc = "infence" \/ act'[t].cmd.after \in signalled,
           UNCHANGED <<res, ring, used, free, signalled, nextFence>>
    PROVE  Commands'
<1> DEFINE p0 == <<"act", t>>
<1>1. /\ Places' = Places /\ p0 \in Places /\ At(p0)' = act'[t].cmd
      /\ Waiting(p0)' <=> act'[t].pc = "infence"
      /\ \A p \in Places \ {p0} : At(p)' = At(p) /\ (Waiting(p)' <=> Waiting(p))
  BY OneActor
<1> HIDE DEF p0
<1>2. CommandMemoryExclusive'
  BY <1>1 DEF Commands, CommandMemoryExclusive
<1>3. FencesFresh'
  BY <1>1 DEF Commands, FencesFresh
<1>4. AfterOK'
  BY <1>1 DEF Commands, AfterOK
<1> QED BY <1>2, <1>3, <1>4 DEF Commands

\* A set with one more element, which may have been there.
LEMMA OneMore ==
    ASSUME NEW S, IsFiniteSet(S), NEW x
    PROVE  IsFiniteSet(S \cup {x}) /\ Cardinality(S \cup {x}) <= Cardinality(S) + 1
<1> DEFINE T == S \cup {x}
<1>1. Cardinality(S) \in Nat
  BY FS_CardinalityType
<1>2. IsFiniteSet(T) /\ Cardinality(T) \in {Cardinality(S), Cardinality(S) + 1}
  <2>1. CASE x \in S
    <3>1. T = S
      BY <2>1
    <3> HIDE DEF T
    <3> QED BY <3>1
  <2>2. CASE x \notin S
    BY <2>2, FS_AddElement
  <2> QED BY <2>1, <2>2
<1> HIDE DEF T
<1>3. Cardinality(T) <= Cardinality(S) + 1
  BY <1>1, <1>2
<1> QED BY <1>2, <1>3 DEF T

\* CtlSubmitCommand begins: a fenced thread will want one fence id more.
LEMMA StepCtlSubmitCommand ==
    ASSUME IInv, NEW t \in Threads, NEW ids \in SUBSET Ids, NEW after \in 0..(nextFence - 1),
           CtlSubmitCommand(t, ids, after)
    PROVE  IInv'
<1> DEFINE c == [Other EXCEPT !.type = "submit", !.ids = ids, !.after = after]
           r == [Idle EXCEPT !.cmd = c, !.pc = "infence"]
<1>1. after \in Fences
  BY ConstAssumption DEF Fences, IInv, TypeOK
<1>2. c \in Command /\ c.type = "submit" /\ c.blk = NoBlock /\ c.fence = 0
  BY <1>1, Values DEF Command, Other
<1>3. To(t, r) /\ act[t].pc = "idle"
      /\ UNCHANGED <<res, ring, used, free, signalled, nextRes, nextFence>>
      /\ (t \in FencedThreads => nextFence + NeedFence <= MaxFence)
  BY DEF CtlSubmitCommand, MayStart
<1> HIDE DEF c
<1>4. r \in Activity /\ r.pc = "infence" /\ r.cmd = c
  BY <1>2, Values DEF Activity, Idle
<1>5. ActorOK(t, r)
  BY <1>2, <1>4 DEF ActorOK, Mapping, CommandOK
<1> HIDE DEF r
<1>6. /\ TypeOK /\ t \in Actors /\ act'[t] = r
      /\ \A a \in Actors \ {t} : act'[a] = act[a]
  BY <1>3, ThreadIsActor DEF IInv, TypeOK, To
<1>7. ActStep(t, r)
  BY <1>3, <1>4, <1>6, StepTo
<1>8. TypeOK' /\ QueuesOK' /\ ResourcesOK'
  BY <1>3, <1>7 DEF IInv, TypeOK, ActStep, QueuesOK, ResourcesOK
<1>9. FenceBudget'
  <2>1. CASE t \in FencedThreads
    <3>1. Needy' \subseteq Needy \cup {t}
      BY <1>6, <1>7, NeedyAfter
    <3>2. IsFiniteSet(Needy \cup {t}) /\ Cardinality(Needy \cup {t}) <= Cardinality(Needy) + 1
      BY NeedyFinite, OneMore
    <3>3. Cardinality(Needy') <= Cardinality(Needy \cup {t}) /\ Cardinality(Needy \cup {t}) \in Nat
      BY <3>1, <3>2, FS_Subset, FS_CardinalityType
    <3>4. NeedFence' <= NeedFence + 1
      BY <3>2, <3>3, NeedyFinite
    <3>5. nextFence \in Nat /\ MaxFence \in Nat /\ nextFence' = nextFence
      BY <1>3, ConstAssumption DEF IInv, TypeOK
    <3> QED BY <1>3, <2>1, <3>4, <3>5, NeedyFinite DEF FenceBudget
  <2>2. CASE t \notin FencedThreads
    <3>1. Needy' \subseteq Needy
      BY <1>6, <1>7, <2>2, NeedyAfter DEF Needy
    <3>2. NeedFence' <= NeedFence
      BY <3>1, NeedyFinite, FS_Subset
    <3>3. nextFence \in Nat /\ MaxFence \in Nat /\ nextFence' = nextFence
      BY <1>3, ConstAssumption DEF IInv, TypeOK
    <3> QED BY <3>2, <3>3, NeedyFinite DEF IInv, FenceBudget
  <2> QED BY <2>1, <2>2
<1>10. ActorsOK'
  BY <1>5, <1>6, <1>7, ActorsKept DEF IInv
<1>11. Commands'
  BY <1>2, <1>3, <1>4, <1>6, CommandWaits DEF IInv
<1> QED BY <1>8, <1>9, <1>10, <1>11 DEF IInv

\* The in-fence is set: the command no longer waits for it.
LEMMA StepWaitInFence ==
    ASSUME IInv, NEW t \in Threads, WaitInFence(t)
    PROVE  IInv'
<1> DEFINE r == [act[t] EXCEPT !.pc = "alloc"]
<1>1. /\ t \in Actors /\ act[t] \in Activity /\ ActorOK(t, act[t]) /\ act[t].pc = "infence"
      /\ UNCHANGED <<res, ring, used, free, signalled, nextRes, nextFence>> /\ To(t, r)
      /\ act[t].cmd.after # 0 => act[t].cmd.after \in signalled
  BY ActorTyped, ThreadIsActor DEF WaitInFence
<1>2. r \in Activity /\ r.pc = "alloc" /\ r.cmd = act[t].cmd
  BY <1>1 DEF Activity
<1>3. ActorOK(t, r)
  BY <1>1, <1>2 DEF ActorOK, Mapping
<1> HIDE DEF r
<1>4. /\ TypeOK /\ FenceBudget /\ act'[t] = r
      /\ \A a \in Actors \ {t} : act'[a] = act[a]
  BY <1>1 DEF IInv, TypeOK, To
<1>5. ActStep(t, r)
  BY <1>1, <1>2, <1>4, StepTo
<1>6. TypeOK' /\ QueuesOK' /\ ResourcesOK'
  BY <1>1, <1>5 DEF IInv, TypeOK, ActStep, QueuesOK, ResourcesOK
<1>7. FenceBudget'
  <2>1. Needy' \subseteq Needy
    BY <1>1, <1>5, NeedyAfter DEF Needy
  <2>2. NeedFence' <= NeedFence
    BY <2>1, NeedyFinite, FS_Subset
  <2>3. nextFence \in Nat /\ MaxFence \in Nat
    BY <1>4, ConstAssumption DEF TypeOK
  <2> QED BY <1>1, <1>4, <2>2, <2>3, NeedyFinite DEF FenceBudget
<1>8. ActorsOK'
  BY <1>1, <1>3, <1>5, ActorsKept DEF IInv
<1>9. act[t].cmd.blk = NoBlock /\ act[t].cmd.fence = 0
  BY <1>1 DEF ActorOK
<1>10. Commands'
  BY <1>1, <1>2, <1>4, <1>9, CommandWaits DEF IInv
<1> QED BY <1>6, <1>7, <1>8, <1>10 DEF IInv

\* The fence id a fenced handler takes is within the bound.
LEMMA FenceWithin ==
    ASSUME IInv, NEW t \in FencedThreads, act[t].pc = "alloc"
    PROVE  nextFence <= MaxFence
<1>1. t \in Needy
  BY DEF Needy
<1>2. NeedFence # 0
  BY <1>1, NeedyFinite, FS_EmptySet
<1>3. nextFence \in Nat /\ MaxFence \in Nat
  BY ConstAssumption DEF IInv, TypeOK
<1> QED BY <1>2, <1>3, NeedyFinite DEF IInv, FenceBudget

\* The submission takes its memory and its fence id, or fails and takes nothing.
LEMMA StepTakeCommandBuffer ==
    ASSUME IInv, NEW t \in Threads, TakeCommandBuffer(t)
    PROVE  IInv'
<1>1. /\ t \in Actors /\ act[t] \in Activity /\ ActorOK(t, act[t]) /\ act[t].pc = "alloc"
      /\ UNCHANGED <<res, ring, used, signalled, nextRes>> /\ act[t].cmd \in Command
      /\ act[t].cmd.ids \subseteq Ids
  BY ActorTyped, ThreadIsActor DEF TakeCommandBuffer
<1>2. ActorOK(t, Idle) /\ Blank(Idle.cmd) /\ Idle.pc = "idle" /\ Idle \in Activity
  BY BlankOther, Values DEF Idle, ActorOK, Mapping
<1>3. TypeOK /\ FenceBudget /\ Commands
  BY DEF IInv
<1>4. ASSUME Return(t), UNCHANGED <<free, nextFence>> PROVE IInv'
  BY <1>1, <1>2, <1>4, OnlyTo DEF Return
<1>5. ASSUME NEW b \in free, NEW fence, fence = (IF t \in FencedThreads THEN nextFence ELSE 0),
             free' = free \ {b}, nextFence' = IF fence # 0 THEN nextFence + 1 ELSE nextFence,
             NEW r \in Activity, ActorOK(t, r), To(t, r), r.pc \notin {"infence", "alloc"},
             Blank(r.cmd) \/ (r.cmd.blk = b /\ r.cmd.fence = fence /\ r.cmd.after = act[t].cmd.after)
      PROVE  IInv'
  <2>1. act'[t] = r /\ \A a \in Actors \ {t} : act'[a] = act[a]
    BY <1>1, <1>3, <1>5 DEF TypeOK, To
  <2>2. ActStep(t, r)
    BY <1>1, <1>3, <1>5, StepTo
  <2>3. nextFence \in Nat \ {0} /\ MaxFence \in Nat /\ (fence # 0 => nextFence <= MaxFence)
        /\ (fence # 0 <=> t \in FencedThreads)
    <3>1. nextFence \in Nat \ {0} /\ MaxFence \in Nat
      BY <1>3, ConstAssumption DEF TypeOK
    <3> QED BY <1>1, <1>5, <3>1, FenceWithin
  <2>4. TypeOK'
    <3>1. nextFence' \in 1..(MaxFence + 1)
      BY <1>3, <1>5, <2>3 DEF TypeOK
    <3>2. free' \subseteq Blocks
      BY <1>3, <1>5 DEF TypeOK
    <3> QED BY <1>1, <1>3, <2>2, <3>1, <3>2 DEF TypeOK, ActStep
  <2>5. QueuesOK' /\ ResourcesOK'
    BY <1>1, <1>5 DEF IInv, QueuesOK, ResourcesOK
  <2>6. FenceBudget'
    <3>1. Needy' \subseteq Needy \ {t}
      BY <1>1, <1>5, <2>2, NeedyAfter
    <3>2. CASE t \in FencedThreads
      <4>1. t \in Needy
        BY <1>1, <3>2 DEF Needy
      <4>2. IsFiniteSet(Needy \ {t}) /\ Cardinality(Needy \ {t}) = Cardinality(Needy) - 1
        BY <4>1, NeedyFinite, FS_RemoveElement
      <4>3. NeedFence' <= NeedFence - 1
        BY <3>1, <4>2, NeedyFinite, FS_Subset
      <4> QED BY <1>3, <1>5, <2>3, <3>2, <4>3, NeedyFinite DEF FenceBudget
    <3>3. CASE t \notin FencedThreads
      <4>1. NeedFence' <= NeedFence
        BY <3>1, NeedyFinite, FS_Subset
      <4> QED BY <1>3, <1>5, <2>3, <3>3, <4>1, NeedyFinite DEF FenceBudget
    <3> QED BY <3>2, <3>3
  <2>7. ActorsOK'
    BY <1>1, <1>5, <2>2, ActorsKept DEF IInv
  <2>9. Commands'
    <3>1. CASE ~Blank(r.cmd)
      BY <1>1, <1>3, <1>5, <2>1, <3>1, CommandTaken DEF IInv, ResourcesOK
    <3>2. CASE Blank(r.cmd)
      <4>1. Commands /\ CommandMemoryExclusive /\ FencesFresh /\ AfterOK
        BY <1>3 DEF Commands
      <4> DEFINE p0 == <<"act", t>>
      <4>2. /\ Places' = Places /\ p0 \in Places /\ Blank(At(p0)')
            /\ \A p \in Places \ {p0} : At(p)' = At(p) /\ (Waiting(p)' <=> Waiting(p))
        BY <1>1, <2>1, <3>2, OneActor
      <4> HIDE DEF p0
      <4>3. CommandMemoryExclusive'
        BY <1>1, <1>5, <4>1, <4>2 DEF CommandMemoryExclusive, Blank
      <4>4. FencesFresh'
        <5>1. \A f \in Nat : f < nextFence => f < nextFence'
          BY <1>5, <2>3
        <5>2. \A f \in signalled : f \in Nat
          BY <1>3, ConstAssumption DEF TypeOK, Fences
        <5>3. \A p \in Places : At(p).fence \in Nat
          <6>1. \A p \in Places : At(p) \in Command
            BY <1>3, CommandsTyped
          <6> QED BY <6>1, ConstAssumption DEF Command, Fences
        <5> QED BY <1>1, <4>1, <4>2, <5>1, <5>2, <5>3 DEF FencesFresh, Blank
      <4>5. AfterOK'
        BY <1>1, <4>1, <4>2 DEF AfterOK, Blank
      <4> QED BY <4>3, <4>4, <4>5 DEF Commands
    <3> QED BY <3>1, <3>2
  <2> QED BY <2>4, <2>5, <2>6, <2>7, <2>9 DEF IInv
<1>6. ASSUME NEW b \in free, NEW fence, fence = (IF t \in FencedThreads THEN nextFence ELSE 0),
             free' = free \ {b}, nextFence' = IF fence # 0 THEN nextFence + 1 ELSE nextFence,
             \/ To(t, [act[t] EXCEPT !.cmd.blk = b, !.cmd.fence = fence,
                                     !.todo = act[t].cmd.ids, !.pc = "update"])
             \/ Return(t)
      PROVE  IInv'
  <2>1. CASE Return(t)
    BY <1>2, <1>5, <1>6, <2>1 DEF Return
  <2>2. CASE To(t, [act[t] EXCEPT !.cmd.blk = b, !.cmd.fence = fence,
                                  !.todo = act[t].cmd.ids, !.pc = "update"])
    <3> DEFINE r == [act[t] EXCEPT !.cmd.blk = b, !.cmd.fence = fence,
                                   !.todo = act[t].cmd.ids, !.pc = "update"]
               c == [act[t].cmd EXCEPT !.blk = b, !.fence = fence]
    <3>1. fence \in Fences
      <4>1. nextFence \in Nat /\ MaxFence \in Nat
        BY <1>3, ConstAssumption DEF TypeOK
      <4> QED BY <1>1, <1>6, <4>1, FenceWithin DEF Fences
    <3>2. b \in Blocks
      BY <1>3 DEF TypeOK
    <3>3. c \in Command /\ c.type = act[t].cmd.type /\ c.blk = b /\ c.fence = fence /\ c.after = act[t].cmd.after
      BY <1>1, <3>1, <3>2 DEF Command
    <3>4. act[t].cmd.type = "submit"
      BY <1>1 DEF ActorOK
    <3>5. r = [act[t] EXCEPT !.cmd = c, !.todo = act[t].cmd.ids, !.pc = "update"]
      BY <1>1 DEF Activity, Command
    <3>6. To(t, r)
      BY <2>2
    <3> HIDE DEF c, r
    <3>7. r \in Activity /\ r.cmd = c /\ r.pc = "update"
      BY <1>1, <3>3, <3>5 DEF Activity
    <3>8. ActorOK(t, r)
      BY <3>3, <3>4, <3>7 DEF ActorOK, Mapping, CommandOK
    <3> QED BY <1>5, <1>6, <3>3, <3>6, <3>7, <3>8
  <2> QED BY <1>6, <2>1, <2>2
<1> QED BY <1>4, <1>6 DEF TakeCommandBuffer

-----------------------------------------------------------------------------
(* Handlers that push.                                                       *)

\* A handler that has returned holds nothing.
LEMMA IdleOK == \A a : ActorOK(a, Idle) /\ Blank(Idle.cmd) /\ Idle.pc = "idle" /\ Idle \in Activity
  BY BlankOther, Values DEF Idle, ActorOK, Mapping

\* The handler t pushes the command it prepared and returns.
LEMMA PushedAndReturned ==
    ASSUME IInv, NEW t \in Threads, act[t].pc \in {"push", "update"}, To(t, Idle),
           ring' \in {ring, Append(ring, act[t].cmd)},
           res' \in [Ids -> Resource],
           \A i \in Ids : res'[i].blk = res[i].blk,
           UNCHANGED <<used, free, signalled, nextRes, nextFence>>
    PROVE  IInv'
<1>1. /\ TypeOK /\ FenceBudget /\ t \in Actors /\ act[t].cmd \in Command
      /\ CommandOK(act[t].cmd) /\ ring \in Seq(Command) /\ Len(ring) \in Nat
  BY ActorTyped, ThreadIsActor DEF IInv, ActorOK, TypeOK
<1>2. ActStep(t, Idle)
  BY <1>1, IdleOK, StepTo
<1>3. ring' \in Seq(Command) /\ QueuesOK'
  <2>1. CASE ring' = ring
    BY <1>1, <2>1 DEF IInv, QueuesOK
  <2>2. CASE ring' = Append(ring, act[t].cmd)
    <3>1. /\ ring' \in Seq(Command) /\ Len(ring') = Len(ring) + 1 /\ ring'[Len(ring) + 1] = act[t].cmd
          /\ \A j \in 1..Len(ring) : ring'[j] = ring[j]
      BY <1>1, <2>2, AppendProperties
    <3>2. \A j \in 1..Len(ring') : j \in 1..Len(ring) \/ j = Len(ring) + 1
      BY <1>1, <3>1
    <3> QED BY <1>1, <3>1, <3>2 DEF IInv, QueuesOK
  <2> QED BY <2>1, <2>2
<1>4. TypeOK'
  BY <1>1, <1>2, <1>3 DEF TypeOK, ActStep
<1>5. FenceBudget'
  BY <1>1, <1>2, IdleOK, BudgetKept
<1>6. ActorsOK'
  BY <1>1, <1>2, IdleOK, ActorsKept DEF IInv
<1>7. ResourcesOK'
  BY DEF IInv, ResourcesOK
<1>9. Blank(act'[t].cmd) /\ \A a \in Actors \ {t} : CommandKept(a)
  BY <1>1, <1>2, IdleOK, CommandsKept DEF IInv
<1>10. Commands'
  BY <1>1, <1>9, MovedToRing DEF IInv
<1> QED BY <1>3, <1>4, <1>5, <1>6, <1>7, <1>10 DEF IInv

\* The mapping of a blob is pushed and its handle returned.
LEMMA StepMapBlobResource ==
    ASSUME IInv, NEW t \in Threads, MapBlobResource(t)
    PROVE  IInv'
<1>1. /\ act[t].pc = "push" /\ To(t, Idle) /\ ring' \in {ring, Append(ring, act[t].cmd)}
      /\ UNCHANGED <<used, free, signalled, nextRes, nextFence>>
      /\ res' = [i \in Ids |-> IF i \in act[t].cmd.ids THEN [res[i] EXCEPT !.st = "known"] ELSE res[i]]
  BY DEF MapBlobResource, PushQueue, Return
<1>2. \A i \in Ids : res[i] \in Resource /\ [res[i] EXCEPT !.st = "known"] \in Resource
  BY ResourceUpdates DEF IInv, TypeOK
<1>3. res' \in [Ids -> Resource]
  BY <1>1, <1>2
<1>4. \A i \in Ids : res'[i].blk = res[i].blk
  BY <1>1, <1>2 DEF Resource
<1> QED BY <1>1, <1>3, <1>4, PushedAndReturned

\* The transfer is pushed.
LEMMA StepTransferHost3D ==
    ASSUME IInv, NEW t \in Threads, TransferHost3D(t)
    PROVE  IInv'
<1>1. /\ act[t].pc = "push" /\ To(t, Idle) /\ ring' \in {ring, Append(ring, act[t].cmd)}
      /\ UNCHANGED <<res, used, free, signalled, nextRes, nextFence>>
  BY DEF TransferHost3D, PushQueue, Return
<1>2. res' \in [Ids -> Resource]
  BY <1>1 DEF IInv, TypeOK
<1> QED BY <1>1, <1>2, PushedAndReturned

\* The submission is pushed.
LEMMA StepSubmitCommand ==
    ASSUME IInv, NEW t \in Threads, SubmitCommand(t)
    PROVE  IInv'
<1>1. /\ act[t].pc = "update" /\ To(t, Idle) /\ ring' \in {ring, Append(ring, act[t].cmd)}
      /\ UNCHANGED <<res, used, free, signalled, nextRes, nextFence>>
  BY DEF SubmitCommand, PushQueue, Return
<1>2. res' \in [Ids -> Resource]
  BY <1>1 DEF IInv, TypeOK
<1> QED BY <1>1, <1>2, PushedAndReturned

\* A handler that creates resource nextRes as x, with commands that change nothing, and goes on as r.
LEMMA Created ==
    ASSUME IInv, NEW t \in Threads, act[t].pc = "idle", nextRes <= MaxRes, nextRes' = nextRes + 1,
           NEW r \in Activity, ActorOK(t, r), Blank(r.cmd), r.pc \notin {"infence", "alloc"},
           ActStep(t, r),
           ring' \in {ring, Append(ring, Other), ring \o <<Other, Other>>},
           NEW x \in Resource, res' \in {res, [res EXCEPT ![nextRes] = x]},
           x.blk \in free \cup {NoBlock}, free' = free \ {x.blk},
           UNCHANGED <<used, signalled, nextFence>>
    PROVE  IInv'
<1>1. /\ TypeOK /\ FenceBudget /\ t \in Actors
      /\ ring \in Seq(Command) /\ Len(ring) \in Nat /\ nextRes \in Ids /\ nextRes \in Nat
  BY ThreadIsActor, ConstAssumption DEF IInv, TypeOK, Ids
<1>2. /\ ring' \in Seq(Command) /\ Len(ring') \in Nat /\ Len(ring') >= Len(ring)
      /\ \A j \in 1..Len(ring) : ring'[j] = ring[j]
      /\ \A j \in 1..Len(ring') : j > Len(ring) => ring'[j] = Other
  <2>1. CASE ring' = ring
    BY <1>1, <2>1
  <2>2. CASE ring' = Append(ring, Other)
    <3>1. /\ ring' \in Seq(Command) /\ Len(ring') = Len(ring) + 1 /\ ring'[Len(ring) + 1] = Other
          /\ \A j \in 1..Len(ring) : ring'[j] = ring[j]
      BY <1>1, <2>2, Values, AppendProperties
    <3>2. \A j \in 1..Len(ring') : j > Len(ring) => j = Len(ring) + 1
      BY <1>1, <3>1
    <3> QED BY <1>1, <3>1, <3>2
  <2>3. CASE ring' = ring \o <<Other, Other>>
    <3> DEFINE two == <<Other, Other>>
    <3>1. two \in Seq(Command) /\ Len(two) = 2 /\ two[1] = Other /\ two[2] = Other
      BY Values
    <3> HIDE DEF two
    <3>2. /\ ring \o two \in Seq(Command) /\ Len(ring \o two) = Len(ring) + Len(two)
          /\ \A j \in 1..(Len(ring) + Len(two)) :
                (ring \o two)[j] = IF j <= Len(ring) THEN ring[j] ELSE two[j - Len(ring)]
      <4>1. ring \in Seq(Command) /\ two \in Seq(Command)
        BY <1>1, <3>1
      <4> QED BY ONLY <4>1, ConcatProperties
    <3>3. /\ ring' \in Seq(Command) /\ Len(ring') = Len(ring) + 2
          /\ \A j \in 1..(Len(ring) + 2) :
                ring'[j] = IF j <= Len(ring) THEN ring[j] ELSE two[j - Len(ring)]
      BY <2>3, <3>1, <3>2 DEF two
    <3>4. \A j \in 1..(Len(ring) + 2) : j > Len(ring) => j - Len(ring) \in {1, 2}
      BY ONLY <1>1
    <3>5. Len(ring') \in Nat /\ Len(ring') >= Len(ring)
      BY ONLY <1>1, <3>3
    <3>6. \A j \in 1..Len(ring) : ring'[j] = ring[j]
      BY ONLY <1>1, <3>3
    <3>7. \A j \in 1..Len(ring') : j > Len(ring) => ring'[j] = Other
      BY ONLY <1>1, <3>1, <3>3, <3>4
    <3> QED BY ONLY <3>3, <3>5, <3>6, <3>7
  <2> QED BY <2>1, <2>2, <2>3
<1>3. /\ res' \in [Ids -> Resource] /\ \A i \in Ids \ {nextRes} : res'[i] = res[i]
      /\ res'[nextRes] \in {res[nextRes], x}
  BY <1>1 DEF TypeOK
<1>4. TypeOK'
  <2>1. nextRes' \in 1..(MaxRes + 1)
    BY <1>1, ConstAssumption
  <2>2. free' \subseteq Blocks
    BY <1>1 DEF TypeOK
  <2> QED BY <1>1, <1>2, <1>3, <2>1, <2>2 DEF TypeOK, ActStep
<1>5. FenceBudget'
  BY <1>1, BudgetKept
<1>6. QueuesOK'
  <2>1. \A j \in 1..Len(ring') : j \in 1..Len(ring) \/ j > Len(ring)
    BY <1>1, <1>2
  <2> QED BY <1>2, <2>1, BlankOther DEF IInv, QueuesOK
<1>7. ActorsOK'
  BY <1>1, ActorsKept DEF IInv
<1>8. ResourcesOK'
  <2>1. \A i \in Ids : i >= nextRes' => i # nextRes /\ i >= nextRes
    BY <1>1 DEF Ids
  <2> QED BY <1>3, <2>1 DEF IInv, ResourcesOK
<1>10. \A a \in Actors : CommandKept(a)
  BY <1>1, CommandsKept DEF IInv, CommandKept
<1>11. Commands'
  BY <1>1, <1>2, <1>3, <1>10, BlankOther, MovedNowhere DEF IInv
<1> QED BY <1>4, <1>5, <1>6, <1>7, <1>8, <1>11 DEF IInv

\* CtlCreateResource, with or without backing.
LEMMA StepCtlCreateResource ==
    ASSUME IInv, NEW t \in Threads, NEW kind \in {"fence", "buffer"}, CtlCreateResource(t, kind)
    PROVE  IInv'
<1>1. /\ act[t].pc = "idle" /\ nextRes <= MaxRes /\ nextRes' = nextRes + 1
      /\ UNCHANGED <<act, used, signalled, nextFence>>
  BY DEF CtlCreateResource, MayStart
<1>2. t \in Actors /\ act[t] \in Activity /\ ActorOK(t, act[t]) /\ TypeOK
  BY ThreadIsActor, ActorTyped DEF IInv
<1>3. Blank(act[t].cmd)
  BY <1>1, <1>2, BlankOther DEF ActorOK
<1>4. ActStep(t, act[t])
  BY <1>1, <1>2 DEF ActStep, Woken, TypeOK
<1>5. NoBlock \notin free
  BY <1>2, ConstAssumption DEF TypeOK, NoBlock
<1>6. ASSUME NEW x \in Resource, x.blk \in free \cup {NoBlock}, free' = free \ {x.blk},
             res' \in {res, [res EXCEPT ![nextRes] = x]},
             ring' \in {ring, Append(ring, Other), ring \o <<Other, Other>>}
      PROVE  IInv'
  BY <1>1, <1>2, <1>3, <1>4, <1>6, Created
<1>7. ASSUME PushQueue(Other), UNCHANGED free, NEW x \in Resource, x.blk = NoBlock,
             res' \in {res, [res EXCEPT ![nextRes] = x]}
      PROVE  IInv'
  <2>1. free' = free \ {x.blk}
    BY <1>5, <1>7
  <2> QED BY <1>6, <1>7, <2>1 DEF PushQueue
<1>8. CASE /\ kind = "fence" /\ PushQueue(Other) /\ UNCHANGED free
           /\ res' = [res EXCEPT ![nextRes] = [NoResource EXCEPT !.st = "known"]]
  <2> DEFINE x == [NoResource EXCEPT !.st = "known"]
  <2>1. x \in Resource /\ x.blk = NoBlock
    BY Values DEF Resource, NoResource
  <2>2. res' = [res EXCEPT ![nextRes] = x]
    BY <1>8
  <2> HIDE DEF x
  <2> QED BY <1>7, <1>8, <2>1, <2>2
<1>9. CASE /\ kind = "buffer" /\ free = {} /\ PushQueue(Other) /\ UNCHANGED <<res, free>>
  <2>1. NoResource \in Resource /\ NoResource.blk = NoBlock /\ ~NoResource.mdl
    BY Values DEF NoResource
  <2> QED BY <1>7, <1>9, <2>1
<1>10. ASSUME NEW b \in free, PushTwo(Other, Other), free' = free \ {b},
              res' = [res EXCEPT ![nextRes] = [NoResource EXCEPT
                              !.st = "known", !.kind = "buffer", !.va = TRUE, !.blk = b]]
       PROVE  IInv'
  <2> DEFINE x == [NoResource EXCEPT !.st = "known", !.kind = "buffer", !.va = TRUE, !.blk = b]
  <2>1. b \in Blocks
    BY <1>2 DEF TypeOK
  <2>2. x \in Resource /\ x.blk = b
    BY <2>1, Values DEF Resource, NoResource
  <2>3. res' = [res EXCEPT ![nextRes] = x]
    BY <1>10
  <2>4. ring' \in {ring, Append(ring, Other), ring \o <<Other, Other>>}
    <3>1. Room \in Int
      BY <1>2, ConstAssumption DEF Room, TypeOK
    <3> QED BY <1>10, <3>1 DEF PushTwo
  <2> HIDE DEF x
  <2> QED BY <1>6, <1>10, <2>2, <2>3, <2>4
<1> QED BY <1>8, <1>9, <1>10 DEF CtlCreateResource

\* CtlCreateBlobResource, which goes on to map the blob.
LEMMA StepCtlCreateBlobResource ==
    ASSUME IInv, NEW t \in Threads, CtlCreateBlobResource(t)
    PROVE  IInv'
<1> DEFINE x == [NoResource EXCEPT !.st = "listed", !.kind = "blob", !.event = FALSE]
           c == [Other EXCEPT !.type = "mapblob", !.ids = {nextRes}]
           r == [Idle EXCEPT !.cmd = c, !.pc = "push"]
<1>1. /\ act[t].pc = "idle" /\ nextRes <= MaxRes /\ nextRes' = nextRes + 1 /\ To(t, r)
      /\ ring' \in {ring, Append(ring, Other)} /\ res' = [res EXCEPT ![nextRes] = x]
      /\ UNCHANGED <<used, free, signalled, nextFence>>
  BY DEF CtlCreateBlobResource, MayStart, PushQueue
<1>2. TypeOK /\ t \in Actors /\ nextRes \in Ids
  BY <1>1, ThreadIsActor, ConstAssumption DEF IInv, TypeOK, Ids
<1>3. x \in Resource /\ x.blk = NoBlock
  BY Values DEF Resource, NoResource
<1>4. c \in Command /\ c.type = "mapblob" /\ Blank(c)
  BY <1>2, Values DEF Command, Other, Blank
<1> HIDE DEF c
<1>5. r \in Activity /\ r.pc = "push" /\ r.cmd = c
  BY <1>4, Values DEF Activity, Idle
<1>6. ActorOK(t, r)
  BY <1>4, <1>5 DEF ActorOK, Mapping, CommandOK
<1> HIDE DEF r, x
<1>7. ActStep(t, r)
  BY <1>1, <1>2, <1>5, StepTo
<1>8. free' = free \ {x.blk}
  <2>1. NoBlock \notin free
    BY <1>2, ConstAssumption DEF TypeOK, NoBlock
  <2> QED BY <1>1, <1>3, <2>1
<1> QED BY <1>1, <1>3, <1>4, <1>5, <1>6, <1>7, <1>8, Created

-----------------------------------------------------------------------------
(* The host and the DPC.                                                     *)

\* The host completes a command.
LEMMA StepHostComplete == IInv /\ HostComplete => IInv'
<1> SUFFICES ASSUME IInv, HostComplete PROVE IInv'
  OBVIOUS
<1>1. PICK i \in 1..Len(ring) :
        /\ used' = Append(used, ring[i])
        /\ ring' = SubSeq(ring, 1, i - 1) \o SubSeq(ring, i + 1, Len(ring))
        /\ UNCHANGED <<res, act, free, signalled, nextRes, nextFence>>
  BY DEF HostComplete
<1>2. Commands' /\ ring' \in Seq(Command) /\ used' \in Seq(Command) /\ QueuesOK'
  BY <1>1, MovedToUsed DEF IInv
<1>3. TypeOK' /\ ActorsOK' /\ ResourcesOK'
  BY <1>1, <1>2 DEF IInv, TypeOK, ActorsOK, ResourcesOK
<1>4. FenceBudget'
  BY <1>1 DEF IInv, FenceBudget, NeedFence
<1> QED BY <1>2, <1>3, <1>4 DEF IInv

\* DPCs are actors, and no threads.
LEMMA DpcIsActor == \A d \in Dpcs : d \in Actors /\ d \notin Threads
  BY ConstAssumption DEF Actors

\* The DPC fetches a completed command.
LEMMA StepReadFromQueue ==
    ASSUME IInv, NEW d \in Dpcs, ReadFromQueue(d)
    PROVE  IInv'
<1> DEFINE cmd == Head(used)
           r == CASE cmd.type \in {"submit", "xfer"} ->
                        [Idle EXCEPT !.cmd = cmd, !.todo = cmd.ids, !.pc = "update"]
                  [] cmd.type = "mapblob" -> [Idle EXCEPT !.cmd = cmd, !.pc = "callback"]
                  [] cmd.type = "other" -> Idle
<1>1. /\ act[d].pc = "idle" /\ used # <<>> /\ used' = Tail(used) /\ To(d, r)
      /\ UNCHANGED <<res, ring, free, signalled, nextRes, nextFence>>
  BY DEF ReadFromQueue
<1>2. d \in Actors /\ TypeOK /\ FenceBudget /\ QueuesOK
  BY DpcIsActor DEF IInv
<1>3. cmd \in Command /\ CommandOK(cmd)
  <2>1. used \in Seq(Command) /\ Len(used) \in Nat /\ Len(used) # 0 /\ Head(used) = used[1]
    BY <1>1, <1>2 DEF TypeOK
  <2>2. 1 \in 1..Len(used)
    BY <2>1
  <2> QED BY <1>2, <2>1, <2>2 DEF QueuesOK
<1>4. cmd.ids \subseteq Ids /\ cmd.type \in {"submit", "xfer", "mapblob", "other"}
  BY <1>3 DEF Command
<1> HIDE DEF cmd
<1>5. /\ r \in Activity /\ ActorOK(d, r) /\ r.pc \notin {"infence", "alloc"}
      /\ Blank(r.cmd) \/ r.cmd = cmd
  <2>1. CASE cmd.type \in {"submit", "xfer"}
    <3> DEFINE x == [Idle EXCEPT !.cmd = cmd, !.todo = cmd.ids, !.pc = "update"]
    <3>1. x \in Activity /\ x.cmd = cmd /\ x.pc = "update"
      BY <1>3, <1>4, Values DEF Activity, Idle
    <3>2. r = x
      BY <2>1
    <3> HIDE DEF x, r
    <3> QED BY <1>3, <2>1, <3>1, <3>2 DEF ActorOK, Mapping
  <2>2. CASE cmd.type = "mapblob"
    <3> DEFINE x == [Idle EXCEPT !.cmd = cmd, !.pc = "callback"]
    <3>1. x \in Activity /\ x.cmd = cmd /\ x.pc = "callback"
      BY <1>3, Values DEF Activity, Idle
    <3>2. r = x
      BY <2>2
    <3> HIDE DEF x, r
    <3> QED BY <1>3, <2>2, <3>1, <3>2 DEF ActorOK, Mapping
  <2>3. CASE cmd.type = "other"
    <3>1. r = Idle
      BY <2>3
    <3> HIDE DEF r
    <3> QED BY <3>1, IdleOK
  <2> HIDE DEF r
  <2> QED BY <1>4, <2>1, <2>2, <2>3
<1> HIDE DEF r
<1>6. act'[d] = r /\ \A a \in Actors \ {d} : act'[a] = act[a]
  BY <1>1, <1>2 DEF To, TypeOK
<1>7. Commands' /\ used' \in Seq(Command) /\ QueuesOK'
  BY <1>1, <1>2, <1>5, <1>6, MovedToDpc DEF IInv, cmd
<1>8. ActStep(d, r)
  BY <1>1, <1>2, <1>5, StepTo
<1>9. TypeOK' /\ ResourcesOK'
  BY <1>1, <1>2, <1>7, <1>8 DEF IInv, TypeOK, ActStep, ResourcesOK
<1>10. FenceBudget'
  BY <1>1, <1>2, <1>5, <1>8, BudgetKept
<1>11. ActorsOK'
  BY <1>2, <1>5, <1>8, ActorsKept DEF IInv
<1> QED BY <1>7, <1>9, <1>10, <1>11 DEF IInv

\* The DPC sets the fence and frees the memory of the command.
LEMMA StepFinishCommand ==
    ASSUME IInv, NEW d \in Dpcs, FinishCommand(d)
    PROVE  IInv'
<1>1. /\ act[d].pc = "update" /\ To(d, Idle) /\ UNCHANGED <<res, ring, used, nextRes, nextFence>>
      /\ signalled' = signalled \cup ({act[d].cmd.fence} \ {0})
      /\ free' = free \cup ({act[d].cmd.blk} \ {NoBlock})
  BY DEF FinishCommand
<1>2. d \in Actors /\ TypeOK /\ FenceBudget /\ Commands /\ act[d].cmd \in Command
  BY DpcIsActor, ActorTyped DEF IInv
<1>3. act'[d] = Idle /\ \A a \in Actors \ {d} : act'[a] = act[a]
  BY <1>1, <1>2 DEF To, TypeOK
<1>4. ActStep(d, Idle)
  BY <1>1, <1>2, IdleOK, StepTo
<1>5. Commands'
  BY <1>1, <1>2, <1>3, IdleOK, CommandDone
<1>6. TypeOK'
  <2>1. act[d].cmd.fence \in Fences /\ act[d].cmd.blk \in Blocks \cup {NoBlock}
    BY <1>2 DEF Command
  <2> QED BY <1>1, <1>2, <1>4, <2>1 DEF TypeOK, ActStep
<1>7. ResourcesOK'
  <2>1. /\ At(<<"act", d>>) = act[d].cmd /\ <<"act", d>> \in Places
    BY <1>2, AtPlaces
  <2>2. act[d].cmd.blk # NoBlock => \A i \in Ids : res[i].blk # act[d].cmd.blk
    BY <1>2, <2>1 DEF Commands, CommandMemoryExclusive
  <2> QED BY <1>1, <2>2 DEF IInv, ResourcesOK
<1>8. FenceBudget'
  BY <1>1, <1>2, <1>4, IdleOK, BudgetKept
<1>9. ActorsOK' /\ QueuesOK'
  BY <1>1, <1>2, <1>4, IdleOK, ActorsKept DEF IInv, QueuesOK
<1> QED BY <1>5, <1>6, <1>7, <1>8, <1>9 DEF IInv

\* The callback of a mapped blob.
LEMMA StepMapBlobResourceCallback ==
    ASSUME IInv, NEW d \in Dpcs, MapBlobResourceCallback(d)
    PROVE  IInv'
<1>1. d \in Actors /\ TypeOK /\ act[d].pc = "callback" /\ act[d].cmd.ids \subseteq Ids
      /\ UNCHANGED <<ring, used, free, signalled, nextRes, nextFence>>
  BY DpcIsActor, ActorTyped DEF IInv, MapBlobResourceCallback
<1>2. ASSUME To(d, Idle), UNCHANGED res PROVE IInv'
  BY <1>1, <1>2, IdleOK, OnlyTo
<1>3. ASSUME NEW i \in act[d].cmd.ids, res' = [res EXCEPT ![i].va = TRUE, ![i].event = TRUE],
             act' = Released([act EXCEPT ![d] = Idle], i)
      PROVE  IInv'
  <2> DEFINE A == [act EXCEPT ![d] = Idle]
             x == [res[i] EXCEPT !.va = TRUE, !.event = TRUE]
  <2>1. A \in [Actors -> Activity] /\ \A b \in Actors : A[b] = IF b = d THEN Idle ELSE act[b]
    BY <1>1, IdleOK DEF TypeOK
  <2>2. act' = Released(A, i)
    BY <1>3
  <2>3. i \in Ids /\ res[i] \in Resource /\ res \in [Ids -> Resource]
    BY <1>1 DEF TypeOK
  <2>4. res' = [res EXCEPT ![i] = x]
    BY <1>3, <2>3
  <2>5. x \in Resource
    BY <2>3, ResourceUpdates
  <2>6. x.blk = res[i].blk
    BY <2>3 DEF Resource
  <2> HIDE DEF A, x
  <2>7. \A b \in Actors : Woken(A[b], act'[b])
    BY <2>2 DEF Released, Woken
  <2>8. act' \in [Actors -> Activity]
    <3>1. \A b \in Actors : act'[b] \in Activity
      BY <2>1, <2>7, WokenType
    <3>2. act' = [b \in Actors |-> act'[b]]
      BY <2>2 DEF Released
    <3> QED BY <3>1, <3>2
  <2>9. ActStep(d, Idle)
    BY <2>1, <2>7, <2>8 DEF ActStep
  <2>10. /\ res' \in [Ids -> Resource]
         /\ \A j \in Ids : res'[j].blk = res[j].blk
    BY <2>3, <2>4, <2>5, <2>6
  <2> QED BY <1>1, <2>9, <2>10, IdleOK, QuietStep
<1> QED BY <1>2, <1>3 DEF MapBlobResourceCallback

-----------------------------------------------------------------------------
(* The theorems.                                                            *)

\* The invariant holds when the device is prepared.
LEMMA Initially == Init => IInv
<1> SUFFICES ASSUME Init PROVE IInv
  OBVIOUS
<1>1. \A i \in Ids : res[i] = NoResource
  BY DEF Init
<1>2. \A a \in Actors : act[a] = Idle
  BY DEF Init
<1>3. ring = <<>> /\ used = <<>> /\ Len(ring) = 0 /\ Len(used) = 0
  BY DEF Init
<1>4. TypeOK
  <2>1. nextRes \in 1..(MaxRes + 1) /\ nextFence \in 1..(MaxFence + 1)
    BY ConstAssumption DEF Init
  <2>2. ring \in Seq(Command) /\ used \in Seq(Command)
    BY <1>3
  <2> QED BY <2>1, <2>2, Values DEF Init, TypeOK
<1>5. FenceBudget
  <2>1. FencedThreads \subseteq Actors
    BY ConstAssumption DEF Actors
  <2>2. Needy = {}
    BY <1>2, <2>1 DEF Needy, Idle
  <2>3. NeedFence = 0
    BY <2>2, NeedyFinite, FS_EmptySet
  <2> QED BY <2>3, ConstAssumption DEF FenceBudget, Init
<1>6. QueuesOK /\ ActorsOK
  BY <1>2, <1>3, IdleOK DEF QueuesOK, ActorsOK
<1>7. ResourcesOK
  BY <1>1 DEF ResourcesOK, NoResource
<1>8. \A p \in Places : Blank(At(p))
  <2>1. \A p \in Places : \E a \in Actors : p = <<"act", a>>
    BY <1>3, AtPlaces
  <2> QED BY <1>2, <2>1, IdleOK, AtPlaces
<1>9. Commands
  BY <1>8 DEF Commands, CommandMemoryExclusive, FencesFresh, AfterOK, Blank, Init
<1> QED BY <1>4, <1>5, <1>6, <1>7, <1>9 DEF IInv

\* Every step preserves the invariant.
LEMMA Inductive == IInv /\ [Next]_vars => IInv'
<1> SUFFICES ASSUME IInv, [Next]_vars PROVE IInv'
  OBVIOUS
<1>1. ASSUME NEW t \in Threads, Start(t) PROVE IInv'
  <2>1. ASSUME NEW ids \in SUBSET Known, NEW after \in 0..(nextFence - 1), CtlSubmitCommand(t, ids, after)
        PROVE  IInv'
    <3>1. ids \in SUBSET Ids
      BY DEF Known
    <3> QED BY <2>1, <3>1, StepCtlSubmitCommand
  <2> QED BY <1>1, <2>1, StepCtlCreateResource, StepCtlCreateBlobResource, StepCtlTransferHost,
             StepCtlWait, StepCtlMap DEF Start
<1>2. ASSUME NEW a \in Actors, UpdateResourceState(a) PROVE IInv'
  BY <1>2, StepUpdateCompare, StepUpdateWrite, StepUpdateEvent DEF UpdateResourceState
<1>3. ASSUME NEW t \in Threads, Continue(t) PROVE IInv'
  BY <1>2, <1>3, ThreadIsActor, StepMapBlobResource, StepTransferHost3D, StepWaitInFence,
     StepTakeCommandBuffer, StepSubmitCommand, StepMapShare, StepMapUser DEF Continue
<1>4. ASSUME NEW d \in Dpcs, Dpc(d) PROVE IInv'
  BY <1>2, <1>4, DpcIsActor, StepReadFromQueue, StepFinishCommand, StepMapBlobResourceCallback DEF Dpc
<1>5. CASE UNCHANGED vars
  <2>1. UNCHANGED <<res, act, ring, used, free, signalled, nextRes, nextFence>>
    BY <1>5 DEF vars
  <2>2. TypeOK' /\ QueuesOK' /\ ActorsOK' /\ ResourcesOK'
    BY <2>1 DEF IInv, TypeOK, QueuesOK, ActorsOK, ResourcesOK
  <2>3. FenceBudget'
    BY <2>1 DEF IInv, FenceBudget, NeedFence
  <2>4. Commands'
    BY <2>1 DEF IInv, Commands, CommandMemoryExclusive, FencesFresh, AfterOK, Places, At, Waiting
  <2> QED BY <2>2, <2>3, <2>4 DEF IInv
<1> QED BY <1>1, <1>3, <1>4, <1>5, StepHostComplete DEF Next

\* The invariant holds of every behaviour.
LEMMA Invariance == Spec => []IInv
  BY Initially, Inductive, PTL DEF Spec

\* The types of the resources, the actors, the queues and the counters, after any failure.
THEOREM TypeCorrect == Spec => []TypeOK
<1>1. IInv => TypeOK
  BY DEF IInv
<1> QED BY <1>1, Invariance, PTL

\* The memory of a command that is prepared, queued or completed is not free and belongs to
\* nothing else (control.c:928, vgpu.c:94), for any numbers of threads, DPCs, blocks and ring
\* slots, whichever calls fail, in whatever order the host completes commands.
THEOREM CommandMemoryExclusiveHolds == Spec => []CommandMemoryExclusive
<1>1. IInv => CommandMemoryExclusive
  BY DEF IInv, Commands
<1> QED BY <1>1, Invariance, PTL

\* A fence object is set (vgpu.c:91) only when its command is neither queued nor waits for a DPC.
THEOREM SignalledMeansDoneHolds == Spec => []SignalledMeansDone
<1>1. IInv => SignalledMeansDone
  BY DEF IInv, Commands, FencesFresh, SignalledMeansDone
<1> QED BY <1>1, Invariance, PTL

\* The host sees a command behind an in-fence only when the command of that fence is done.
THEOREM InFenceOrderHolds == Spec => []InFenceOrder
<1>1. IInv => InFenceOrder
  <2>1. SUFFICES ASSUME IInv, NEW p \in Places, NEW q \in Places, p[1] = "ring", At(p).after # 0,
                        q[1] \in {"ring", "used"}, At(q).fence = At(p).after
                 PROVE  FALSE
    BY DEF InFenceOrder
  <2>2. At(p).after \in signalled
    BY <2>1 DEF IInv, Commands, AfterOK, Waiting
  <2> QED BY <2>1, <2>2 DEF IInv, Commands, FencesFresh
<1> QED BY <1>1, Invariance, PTL
==============================================================================
