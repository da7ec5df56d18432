--------------------------------- MODULE Idr ---------------------------------
(***************************************************************************)
(* The id allocator (kernelmode/vgpu/idr.c): one IDRANDOM per type, with a   *)
(* counter and a last-in first-out list of returned ids.  Resource ids are   *)
(* copied out with sizeof(ULONG32), fence ids with sizeof(ULONG64), so what a *)
(* caller gets is the counter modulo the width of its type.                  *)
(*                                                                           *)
(* Every operation is one critical section of the type's spin lock.          *)
(***************************************************************************)
EXTENDS Integers, Sequences

CONSTANTS Types,     \* VIRGL_RESOURCE_ID_TYPE, FENCE_ID_TYPE
          Holders,   \* objects that carry an id of a type
          Width,     \* number of values the copied id of a type can take
          MaxCount   \* bound: the counters stop here

ASSUME WidthAssumption == Width \in [Types -> Nat \ {0, 1}]
ASSUME MaxCountAssumption == MaxCount \in Nat \ {0}

VARIABLES Initilaized,  \* Idrs[t].Initilaized (the source's spelling)
          Id,           \* Idrs[t].Id
          FreeIdList,   \* Idrs[t].FreeIdList
          held          \* the id each holder carries, NoId if none

vars == <<Initilaized, Id, FreeIdList, held>>

NoId == -1
Nobody == [t \in Types |-> [h \in Holders |-> NoId]]

Init ==
    /\ Initilaized = [t \in Types |-> FALSE]
    /\ Id = [t \in Types |-> 0]
    /\ FreeIdList = [t \in Types |-> <<>>]
    /\ held = Nobody

\* InitializeIdr: every type starts at 1.
InitializeIdr ==
    /\ \A t \in Types : ~Initilaized[t]
    /\ Initilaized' = [t \in Types |-> TRUE]
    /\ Id' = [t \in Types |-> 1]
    /\ FreeIdList' = [t \in Types |-> <<>>]
    /\ UNCHANGED held

\* UnInitializeIdr, in ReleaseHardware: the lists are emptied.  Whatever carried
\* an id is out of reach once PrepareHardware has reset the context list.
UnInitializeIdr ==
    /\ \A t \in Types : Initilaized[t]
    /\ Initilaized' = [t \in Types |-> FALSE]
    /\ FreeIdList' = [t \in Types |-> <<>>]
    /\ held' = Nobody
    /\ UNCHANGED Id

\* The counter is copied out, cut to the width of the type, and advanced.
FromCounter(t, h) ==
    /\ Id[t] < MaxCount
    /\ held' = [held EXCEPT ![t][h] = Id[t] % Width[t]]
    /\ Id' = [Id EXCEPT ![t] = Id[t] + 1]
    /\ UNCHANGED FreeIdList

GetIdFromIdrWithoutCache(t, h) ==
    /\ Initilaized[t]
    /\ held[t][h] = NoId
    /\ FromCounter(t, h)
    /\ UNCHANGED Initilaized

\* Slip: the returned id is read but its entry stays on the list.
GetIdKeepsEntry(t, h) ==
    /\ Initilaized[t]
    /\ held[t][h] = NoId
    /\ \/ FreeIdList[t] = <<>> /\ FromCounter(t, h)
       \/ /\ FreeIdList[t] # <<>>
          /\ held' = [held EXCEPT ![t][h] = Head(FreeIdList[t])]
          /\ UNCHANGED <<FreeIdList, Id>>
    /\ UNCHANGED Initilaized

GetIdFromIdr(t, h) ==
    /\ Initilaized[t]
    /\ held[t][h] = NoId
    /\ \/ FreeIdList[t] = <<>> /\ FromCounter(t, h)
       \/ /\ FreeIdList[t] # <<>>
          /\ held' = [held EXCEPT ![t][h] = Head(FreeIdList[t])]
          /\ FreeIdList' = [FreeIdList EXCEPT ![t] = Tail(FreeIdList[t])]
          /\ UNCHANGED Id
    /\ UNCHANGED Initilaized

\* Slip: the counter goes back as well.
PutIdRewinds(t, h) ==
    /\ Initilaized[t]
    /\ held[t][h] # NoId
    /\ FreeIdList' = [FreeIdList EXCEPT ![t] = <<held[t][h]>> \o FreeIdList[t]]
    /\ held' = [held EXCEPT ![t][h] = NoId]
    /\ Id' = [Id EXCEPT ![t] = Id[t] - 1]
    /\ UNCHANGED Initilaized

PutIdToIdr(t, h) ==
    /\ Initilaized[t]
    /\ held[t][h] # NoId
    /\ FreeIdList' = [FreeIdList EXCEPT ![t] = <<held[t][h]>> \o FreeIdList[t]]
    /\ held' = [held EXCEPT ![t][h] = NoId]
    /\ UNCHANGED <<Initilaized, Id>>

\* CtlCloseResource and a completed fence: the id is dropped and not put back
\* ("we didn't put resource id back to idr, because it may conflict with migration").
DropId(t, h) ==
    /\ Initilaized[t]
    /\ held[t][h] # NoId
    /\ held' = [held EXCEPT ![t][h] = NoId]
    /\ UNCHANGED <<Initilaized, Id, FreeIdList>>

Next ==
    \/ InitializeIdr
    \/ UnInitializeIdr
    \/ \E t \in Types, h \in Holders :
          \/ GetIdFromIdrWithoutCache(t, h)
          \/ GetIdFromIdr(t, h)
          \/ PutIdToIdr(t, h)
          \/ DropId(t, h)

Spec == Init /\ [][Next]_vars

-----------------------------------------------------------------------------
\* Types.  The counters and the listed ids are natural numbers: no operation of
\* idr.c takes a counter below zero.
TypeOK ==
    /\ Initilaized \in [Types -> BOOLEAN]
    /\ Id \in [Types -> Nat]
    /\ FreeIdList \in [Types -> Seq(Nat)]
    /\ held \in [Types -> [Holders -> Nat \cup {NoId}]]

\* The ids of a type on its free list.
FreeIds(t) == {FreeIdList[t][i] : i \in 1..Len(FreeIdList[t])}

\* As long as a counter has not gone past the width of its type, its ids are not
\* shared: no two holders have the same id, no held id is on the free list, and
\* none is on the list twice.  Ids are handed out by the counter and by the list,
\* and may be dropped without being put back.
UniqueIds ==
    \A t \in Types : Id[t] <= Width[t] =>
        /\ \A h1, h2 \in Holders :
              h1 # h2 /\ held[t][h1] # NoId => held[t][h1] # held[t][h2]
        /\ \A h \in Holders : held[t][h] \notin FreeIds(t)
        /\ \A i, j \in 1..Len(FreeIdList[t]) :
              FreeIdList[t][i] = FreeIdList[t][j] => i = j
=============================================================================
