------------------------------ MODULE IdrProofs ------------------------------
(***************************************************************************)
(* Proofs about the id allocator, for any set of types and holders and for   *)
(* any width of the copied ids.                                              *)
(*                                                                           *)
(* UniqueIds is not inductive: the counter must also be ahead of every id in  *)
(* use (Behind), and nothing may be held while the allocator is shut down     *)
(* (Closed), since InitializeIdr starts the counters again.                   *)
(***************************************************************************)
EXTENDS Idr, TLAPS

\* Nothing is held and nothing is listed while a type is not initialised.
Closed ==
    \A t \in Types : ~Initilaized[t] =>
        FreeIdList[t] = <<>> /\ \A h \in Holders : held[t][h] = NoId

\* Before the counter has passed the width, every id in use is below it.
Behind ==
    \A t \in Types : Id[t] <= Width[t] =>
        /\ \A h \in Holders : held[t][h] < Id[t]
        /\ \A i \in 1..Len(FreeIdList[t]) : FreeIdList[t][i] < Id[t]

\* No id of type t is shared.
Unshared(t) ==
    /\ \A h1, h2 \in Holders : h1 # h2 /\ held[t][h1] # NoId => held[t][h1] # held[t][h2]
    /\ \A h \in Holders, i \in 1..Len(FreeIdList[t]) : held[t][h] # FreeIdList[t][i]
    /\ \A i, j \in 1..Len(FreeIdList[t]) : FreeIdList[t][i] = FreeIdList[t][j] => i = j

\* The inductive invariant.
IInv == TypeOK /\ Closed /\ Behind /\ \A t \in Types : Id[t] <= Width[t] => Unshared(t)

\* Below the width, the copied id is the counter itself.
LEMMA SmallMod == ASSUME NEW n \in Nat, NEW w \in Nat, n < w PROVE n % w = n
  OBVIOUS

\* In the initial state nothing is held and nothing is listed.
LEMMA InitIInv == Init => IInv
  BY WidthAssumption DEF Init, IInv, TypeOK, Closed, Behind, Unshared, Nobody, NoId

\* Taking an id from the counter preserves the invariant: the id is new because
\* every id in use is below the counter (GetIdFromIdrWithoutCache, GetIdFromIdr).
LEMMA CounterPreserves ==
  ASSUME IInv, NEW t \in Types, NEW h \in Holders, Initilaized[t], held[t][h] = NoId,
         FromCounter(t, h), UNCHANGED Initilaized
  PROVE  IInv'
<1> DEFINE id == Id[t] % Width[t]
<1>1. id \in Nat /\ Width[t] \in Nat \ {0, 1} /\ Id[t] \in Nat
  BY WidthAssumption DEF IInv, TypeOK
<1>2. Id[t] < Width[t] => id = Id[t]
  BY <1>1, SmallMod
<1> HIDE DEF id
<1>3. /\ held' = [held EXCEPT ![t][h] = id] /\ Id' = [Id EXCEPT ![t] = Id[t] + 1]
      /\ FreeIdList' = FreeIdList /\ Initilaized' = Initilaized
  BY DEF FromCounter, id
<1>4. TypeOK'
  BY <1>1, <1>3 DEF IInv, TypeOK
<1>5. Closed'
  BY <1>3 DEF IInv, TypeOK, Closed
<1>6. ASSUME NEW u \in Types, Id'[u] <= Width[u]
      PROVE  /\ \A g \in Holders : held'[u][g] < Id'[u]
             /\ \A i \in 1..Len(FreeIdList'[u]) : FreeIdList'[u][i] < Id'[u]
             /\ Unshared(u)'
  <2>1. CASE u = t
    <3>1. Id[t] < Width[t] /\ id = Id[t] /\ Id'[t] = Id[t] + 1
      BY <1>1, <1>2, <1>3, <1>6, <2>1 DEF IInv, TypeOK
    <3>2. \A g \in Holders : held[t][g] \in Nat \cup {NoId} /\ held[t][g] < Id[t]
      BY <1>1, <3>1 DEF IInv, TypeOK, Behind
    <3>3. \A i \in 1..Len(FreeIdList[t]) : FreeIdList[t][i] \in Nat /\ FreeIdList[t][i] < Id[t]
      <4>1. FreeIdList[t] \in Seq(Nat) /\ Id[t] <= Width[t]
        BY <1>1, <3>1 DEF IInv, TypeOK
      <4>2. \A i \in 1..Len(FreeIdList[t]) : FreeIdList[t][i] < Id[t]
        BY <4>1 DEF IInv, Behind
      <4> QED BY <4>1, <4>2
    <3>4. Unshared(t)
      BY <1>1, <3>1 DEF IInv
    <3>5. \A g \in Holders : held'[t][g] = IF g = h THEN Id[t] ELSE held[t][g]
      BY <1>3, <3>1 DEF IInv, TypeOK
    <3> QED
      BY <1>1, <1>3, <2>1, <3>1, <3>2, <3>3, <3>4, <3>5 DEF Unshared, NoId
  <2>2. CASE u # t
    BY <1>3, <1>6, <2>2 DEF IInv, TypeOK, Behind, Unshared
  <2> QED BY <2>1, <2>2
<1> QED BY <1>4, <1>5, <1>6 DEF IInv, Behind

\* Reusing a listed id preserves the invariant: it leaves the list as it is handed
\* out (GetIdFromIdr).
LEMMA ReusePreserves ==
  ASSUME IInv, NEW t \in Types, NEW h \in Holders, Initilaized[t], held[t][h] = NoId,
         FreeIdList[t] # <<>>,
         held' = [held EXCEPT ![t][h] = Head(FreeIdList[t])],
         FreeIdList' = [FreeIdList EXCEPT ![t] = Tail(FreeIdList[t])],
         UNCHANGED <<Id, Initilaized>>
  PROVE  IInv'
<1> DEFINE s == FreeIdList[t]
           x == Head(s)
<1>1. s \in Seq(Nat) /\ s # <<>>
  BY DEF IInv, TypeOK
<1>2. /\ x \in Nat /\ x = s[1] /\ Tail(s) \in Seq(Nat) /\ Len(s) \in Nat /\ Len(s) >= 1
      /\ Len(Tail(s)) = Len(s) - 1
      /\ \A i \in 1..Len(Tail(s)) : Tail(s)[i] = s[i + 1] /\ i + 1 \in 1..Len(s)
  BY <1>1
<1>3. TypeOK'
  BY <1>2 DEF IInv, TypeOK
<1>4. Closed'
  BY DEF IInv, TypeOK, Closed
<1>5. ASSUME NEW u \in Types, Id'[u] <= Width[u]
      PROVE  /\ \A g \in Holders : held'[u][g] < Id'[u]
             /\ \A i \in 1..Len(FreeIdList'[u]) : FreeIdList'[u][i] < Id'[u]
             /\ Unshared(u)'
  <2>1. CASE u = t
    <3>1. Unshared(t) /\ Id'[t] = Id[t]
      BY <1>5, <2>1 DEF IInv
    <3>2. \A g \in Holders : held[t][g] \in Nat \cup {NoId} /\ held[t][g] < Id[t]
      BY <1>5, <2>1 DEF IInv, TypeOK, Behind
    <3>3. \A i \in 1..Len(s) : s[i] \in Nat /\ s[i] < Id[t]
      BY <1>1, <1>5, <2>1 DEF IInv, TypeOK, Behind
    <3>4. \A g \in Holders : held'[t][g] = IF g = h THEN s[1] ELSE held[t][g]
      BY <1>2 DEF IInv, TypeOK
    <3>5. FreeIdList'[t] = Tail(s)
      BY DEF IInv, TypeOK
    <3> HIDE DEF s
    <3>6. /\ \A g \in Holders, i \in 1..Len(s) : held[t][g] # s[i]
          /\ \A i, j \in 1..Len(s) : s[i] = s[j] => i = j
          /\ \A g1, g2 \in Holders : g1 # g2 /\ held[t][g1] # NoId => held[t][g1] # held[t][g2]
      BY <3>1 DEF Unshared, s
    <3>7. 1 \in 1..Len(s)
      BY <1>2
    <3>8. \A g \in Holders : held'[t][g] < Id'[t]
      BY <3>1, <3>2, <3>3, <3>4, <3>7
    <3>9. \A i \in 1..Len(FreeIdList'[t]) : FreeIdList'[t][i] < Id'[t]
      BY <1>2, <3>1, <3>3, <3>5
    <3>10. \A g1, g2 \in Holders : g1 # g2 /\ held'[t][g1] # NoId => held'[t][g1] # held'[t][g2]
      BY <3>4, <3>6, <3>7
    <3>11. \A g \in Holders, i \in 1..Len(FreeIdList'[t]) : held'[t][g] # FreeIdList'[t][i]
      <4> SUFFICES ASSUME NEW g \in Holders, NEW i \in 1..Len(Tail(s))
                   PROVE  held'[t][g] # Tail(s)[i]
        BY <3>5
      <4>1. Tail(s)[i] = s[i + 1] /\ i + 1 \in 1..Len(s) /\ i + 1 # 1
        BY <1>2
      <4> QED BY <3>4, <3>6, <3>7, <4>1
    <3>12. \A i, j \in 1..Len(Tail(s)) : Tail(s)[i] = Tail(s)[j] => i = j
      <4> SUFFICES ASSUME NEW i \in 1..Len(Tail(s)), NEW j \in 1..Len(Tail(s)),
                          Tail(s)[i] = Tail(s)[j]
                   PROVE  i = j
        OBVIOUS
      <4>1. /\ Tail(s)[i] = s[i + 1] /\ i + 1 \in 1..Len(s)
            /\ Tail(s)[j] = s[j + 1] /\ j + 1 \in 1..Len(s)
        BY <1>2
      <4>2. i + 1 = j + 1
        BY <3>6, <4>1
      <4> QED BY <1>2, <4>2
    <3>13. \A i, j \in 1..Len(FreeIdList'[t]) : FreeIdList'[t][i] = FreeIdList'[t][j] => i = j
      BY ONLY <3>5, <3>12
    <3> QED
      BY <2>1, <3>8, <3>9, <3>10, <3>11, <3>13 DEF Unshared
  <2>2. CASE u # t
    BY <1>5, <2>2 DEF IInv, TypeOK, Behind, Unshared
  <2> QED BY <2>1, <2>2
<1> QED BY <1>3, <1>4, <1>5 DEF IInv, Behind

\* Putting an id back preserves the invariant: its holder gives it up (PutIdToIdr).
LEMMA PutPreserves ==
  ASSUME IInv, NEW t \in Types, NEW h \in Holders, PutIdToIdr(t, h)
  PROVE  IInv'
<1> DEFINE s == FreeIdList[t]
           x == held[t][h]
           r == <<x>> \o s
<1>1. s \in Seq(Nat) /\ x \in Nat /\ x # NoId
  BY DEF IInv, TypeOK, PutIdToIdr
<1>2. /\ r \in Seq(Nat) /\ Len(s) \in Nat /\ Len(r) = Len(s) + 1 /\ r[1] = x
      /\ \A i \in 1..Len(r) : i # 1 => r[i] = s[i - 1] /\ i - 1 \in 1..Len(s)
  BY <1>1
<1>3. /\ held' = [held EXCEPT ![t][h] = NoId] /\ FreeIdList' = [FreeIdList EXCEPT ![t] = r]
      /\ Id' = Id /\ Initilaized' = Initilaized /\ Initilaized[t]
  BY DEF PutIdToIdr
<1>4. TypeOK'
  BY <1>2, <1>3 DEF IInv, TypeOK
<1>5. Closed'
  BY <1>3 DEF IInv, TypeOK, Closed
<1>6. ASSUME NEW u \in Types, Id'[u] <= Width[u]
      PROVE  /\ \A g \in Holders : held'[u][g] < Id'[u]
             /\ \A i \in 1..Len(FreeIdList'[u]) : FreeIdList'[u][i] < Id'[u]
             /\ Unshared(u)'
  <2>1. CASE u = t
    <3>1. Unshared(t) /\ Id'[t] = Id[t] /\ Id[t] \in Nat
      BY <1>3, <1>6, <2>1 DEF IInv, TypeOK
    <3>2. \A g \in Holders : held[t][g] \in Nat \cup {NoId} /\ held[t][g] < Id[t]
      BY <1>3, <1>6, <2>1 DEF IInv, TypeOK, Behind
    <3>3. \A i \in 1..Len(s) : s[i] \in Nat /\ s[i] < Id[t]
      BY <1>1, <1>3, <1>6, <2>1 DEF IInv, TypeOK, Behind
    <3>4. \A g \in Holders : held'[t][g] = IF g = h THEN NoId ELSE held[t][g]
      BY <1>3 DEF IInv, TypeOK
    <3>5. FreeIdList'[t] = r
      BY <1>3 DEF IInv, TypeOK
    <3>6. /\ \A g \in Holders, i \in 1..Len(s) : held[t][g] # s[i]
          /\ \A i, j \in 1..Len(s) : s[i] = s[j] => i = j
          /\ \A g1, g2 \in Holders : g1 # g2 /\ held[t][g1] # NoId => held[t][g1] # held[t][g2]
      BY <3>1 DEF Unshared
    <3> HIDE DEF s, x, r
    <3>7. \A g \in Holders : held'[t][g] < Id'[t]
      BY <3>1, <3>2, <3>4 DEF NoId
    <3>8. \A i \in 1..Len(r) : r[i] \in Nat /\ r[i] < Id[t]
      BY <1>1, <1>2, <3>2, <3>3 DEF x
    <3>9. \A g \in Holders, i \in 1..Len(r) : held'[t][g] # r[i]
      <4> SUFFICES ASSUME NEW g \in Holders, NEW i \in 1..Len(r) PROVE held'[t][g] # r[i]
        OBVIOUS
      <4>1. CASE g = h  BY <3>4, <3>8, <4>1 DEF NoId
      <4>2. CASE g # h /\ i = 1  BY <1>1, <1>2, <3>4, <3>6, <4>2 DEF x
      <4>3. CASE g # h /\ i # 1  BY <1>2, <3>4, <3>6, <4>3
      <4> QED BY <4>1, <4>2, <4>3
    <3>10. \A i, j \in 1..Len(r) : r[i] = r[j] => i = j
      <4>1. \A i \in 1..Len(s) : s[i] # x
        BY <3>6 DEF x
      <4> SUFFICES ASSUME NEW i \in 1..Len(r), NEW j \in 1..Len(r), r[i] = r[j] PROVE i = j
        OBVIOUS
      <4>2. CASE i = 1 /\ j = 1  BY <4>2
      <4>3. CASE i = 1 /\ j # 1  BY <1>2, <4>1, <4>3
      <4>4. CASE i # 1 /\ j = 1  BY <1>2, <4>1, <4>4
      <4>5. CASE i # 1 /\ j # 1
        <5>1. r[i] = s[i - 1] /\ i - 1 \in 1..Len(s) /\ r[j] = s[j - 1] /\ j - 1 \in 1..Len(s)
          BY <1>2, <4>5
        <5>2. i - 1 = j - 1
          BY <3>6, <5>1
        <5> QED BY <1>2, <5>2
      <4> QED BY <4>2, <4>3, <4>4, <4>5
    <3>11. \A g1, g2 \in Holders : g1 # g2 /\ held'[t][g1] # NoId => held'[t][g1] # held'[t][g2]
      BY <3>4, <3>6
    <3> QED
      BY <2>1, <3>1, <3>5, <3>7, <3>8, <3>9, <3>10, <3>11 DEF Unshared
  <2>2. CASE u # t
    BY <1>3, <1>6, <2>2 DEF IInv, TypeOK, Behind, Unshared
  <2> QED BY <2>1, <2>2
<1> QED BY <1>4, <1>5, <1>6 DEF IInv, Behind

\* Every step of the allocator preserves the invariant.
LEMMA NextIInv == IInv /\ [Next]_vars => IInv'
<1> SUFFICES ASSUME IInv, [Next]_vars PROVE IInv'
  OBVIOUS
<1>1. CASE InitializeIdr
  <2>1. \A t \in Types : FreeIdList[t] = <<>> /\ \A h \in Holders : held[t][h] = NoId
    BY <1>1 DEF InitializeIdr, IInv, Closed
  <2> QED
    BY <1>1, <2>1 DEF InitializeIdr, IInv, TypeOK, Closed, Behind, Unshared, NoId
<1>2. CASE UnInitializeIdr
  BY <1>2 DEF UnInitializeIdr, IInv, TypeOK, Closed, Behind, Unshared, Nobody, NoId
<1>3. ASSUME NEW t \in Types, NEW h \in Holders, GetIdFromIdrWithoutCache(t, h)
      PROVE  IInv'
  BY <1>3, CounterPreserves DEF GetIdFromIdrWithoutCache
<1>4. ASSUME NEW t \in Types, NEW h \in Holders, GetIdFromIdr(t, h)
      PROVE  IInv'
  <2>1. CASE FreeIdList[t] = <<>>
    BY <1>4, <2>1, CounterPreserves DEF GetIdFromIdr
  <2>2. CASE FreeIdList[t] # <<>>
    BY <1>4, <2>2, ReusePreserves DEF GetIdFromIdr
  <2> QED BY <2>1, <2>2
<1>5. ASSUME NEW t \in Types, NEW h \in Holders, PutIdToIdr(t, h)
      PROVE  IInv'
  BY <1>5, PutPreserves
<1>6. ASSUME NEW t \in Types, NEW h \in Holders, DropId(t, h)
      PROVE  IInv'
  <2>1. TypeOK' /\ Closed'
    BY <1>6 DEF DropId, IInv, TypeOK, Closed
  <2>2. \A u \in Types, g \in Holders : held'[u][g] = held[u][g] \/ held'[u][g] = NoId
    BY <1>6 DEF DropId, IInv, TypeOK
  <2>3. Id' = Id /\ FreeIdList' = FreeIdList
    BY <1>6 DEF DropId
  <2> QED
    <3>1. Behind' 
      <4> SUFFICES ASSUME NEW u \in Types, Id[u] <= Width[u], NEW g \in Holders
                   PROVE  held'[u][g] < Id[u]
        BY <2>3 DEF IInv, Behind
      <4>1. held[u][g] < Id[u] /\ Id[u] \in Nat
        BY DEF IInv, Behind, TypeOK
      <4> QED BY <2>2, <4>1 DEF NoId
    <3>2. ASSUME NEW u \in Types, Id[u] <= Width[u] PROVE Unshared(u)'
      <4>1. Unshared(u) /\ FreeIdList[u] \in Seq(Nat)
        BY <3>2 DEF IInv, TypeOK
      <4>2. \A i \in 1..Len(FreeIdList[u]) : FreeIdList[u][i] # NoId
        BY <4>1 DEF NoId
      <4> QED BY <2>2, <2>3, <4>1, <4>2 DEF Unshared
    <3> QED BY <2>1, <2>3, <3>1, <3>2 DEF IInv
<1>7. CASE UNCHANGED vars
  BY <1>7 DEF vars, IInv, TypeOK, Closed, Behind, Unshared
<1> QED
  BY <1>1, <1>2, <1>3, <1>4, <1>5, <1>6, <1>7 DEF Next

\* The inductive invariant holds in every reachable state of idr.c.
THEOREM IInvHolds == Spec => []IInv
<1>1. Init => IInv BY InitIInv
<1>2. IInv /\ [Next]_vars => IInv' BY NextIInv
<1> QED BY <1>1, <1>2, PTL DEF Spec

\* Types: the counters and the listed ids are natural numbers at all times.
THEOREM TypeCorrect == Spec => []TypeOK
<1>1. IInv => TypeOK BY DEF IInv
<1> QED BY <1>1, IInvHolds, PTL

\* As long as a counter has not passed the width of its ids, the ids that idr.c
\* hands out, takes back and forgets are never shared.
THEOREM UniqueIdsHolds == Spec => []UniqueIds
<1>1. IInv => UniqueIds
  <2> SUFFICES ASSUME IInv, NEW t \in Types, Id[t] <= Width[t]
               PROVE  /\ \A h1, h2 \in Holders :
                            h1 # h2 /\ held[t][h1] # NoId => held[t][h1] # held[t][h2]
                      /\ \A h \in Holders : held[t][h] \notin FreeIds(t)
                      /\ \A i, j \in 1..Len(FreeIdList[t]) :
                            FreeIdList[t][i] = FreeIdList[t][j] => i = j
    BY DEF UniqueIds
  <2>1. Unshared(t) BY DEF IInv
  <2> QED BY <2>1 DEF Unshared, FreeIds
<1> QED BY <1>1, IInvHolds, PTL
=============================================================================
