---------------------------- MODULE CapsetsProofs ----------------------------
(***************************************************************************)
(* What Capsets promises about the table and the answers, for every host,    *)
(* every number of threads, of restarts and of ring slots.                   *)
(*                                                                           *)
(* The argument.  Nobody takes a lock, but every writer of an entry writes    *)
(* what the host says of it, so a field of the table is zero or final         *)
(* (DataOK), and what a thread has seen of the table stays true until the     *)
(* device is prepared again, which waits for every handler (Others).  A       *)
(* thread that fills the table has the entries behind it filled, whatever     *)
(* the others do (CallOK); one that answers CtlGetCaps holds an entry whose   *)
(* id, version and size it has compared with nonzero values.  Whether its     *)
(* response fits is decided by that size, which from then on is the host's:   *)
(* if it does, BuildSGElement makes a list that lies within sg (SgLengths).   *)
(***************************************************************************)
EXTENDS Capsets, TLAPS

-----------------------------------------------------------------------------
(* BuildSGElement.                                                           *)

\* The quotient of a division, which counts the pages of a buffer.
LEMMA Division ==
    ASSUME NEW a \in Nat, NEW b \in Nat \ {0}
    PROVE  /\ a \div b \in Nat
           /\ b * (a \div b) <= a
           /\ a < b * (a \div b) + b
  OBVIOUS

\* Every element BuildSGElement makes has a length of 1 to PAGE, and a buffer that is not
\* empty and fits max elements takes between one and max of them.
LEMMA SgLengths ==
    ASSUME NEW max \in Nat, NEW size \in Nat
    PROVE  /\ BuildSGElement(max, size) \in Sg
           /\ 0 < size /\ size <= max * PAGE => Len(BuildSGElement(max, size)) \in 1..max
<1> DEFINE q == (size + PAGE - 1) \div PAGE
           rest(k) == size - (k - 1) * PAGE
           length(k) == IF rest(k) < PAGE THEN rest(k) ELSE PAGE
<1>1. PAGE \in Nat \ {0}
  BY CapsetsAssumption
<1>2. size + PAGE - 1 \in Nat
  BY <1>1
<1>3. q \in Nat /\ PAGE * q <= size + PAGE - 1 /\ size + PAGE - 1 < PAGE * q + PAGE
  BY <1>1, <1>2, Division
<1> HIDE DEF q
<1>4. ASSUME NEW k \in 1..q PROVE length(k) \in 1..PAGE
  <2>1. k * PAGE <= q * PAGE
    BY <1>1, <1>3
  <2>2. (k - 1) * PAGE = k * PAGE - PAGE
    BY <1>1, <1>3
  <2>3. q * PAGE = PAGE * q /\ q * PAGE \in Nat /\ k * PAGE \in Nat
    BY <1>1, <1>3
  <2>4. rest(k) >= 1 /\ rest(k) \in Int
    BY <2>1, <2>2, <2>3, <1>1, <1>3
  <2> QED BY <2>4, <1>1
<1>5. [k \in 1..q |-> length(k)] \in Seq(1..PAGE)
  BY <1>3, <1>4
<1>6. <<>> \in Seq(1..PAGE)
  OBVIOUS
<1>7. ASSUME 0 < size, size <= max * PAGE
      PROVE  q \in 1..max
  <2>1. 0 < q
    BY <1>1, <1>3, <1>7
  <2>2. SUFFICES ASSUME q > max PROVE FALSE
    BY <1>3, <2>1
  <2>3. PAGE * q >= PAGE * (max + 1)
    BY <2>2, <1>1, <1>3
  <2>4. PAGE * (max + 1) = max * PAGE + PAGE /\ max * PAGE \in Nat
    BY <1>1
  <2> QED BY <2>3, <2>4, <1>1, <1>3, <1>7
<1>8. Len([k \in 1..q |-> length(k)]) = q
  BY <1>3
<1>9. BuildSGElement(max, size) = IF q > max + 1 THEN <<>> ELSE [k \in 1..q |-> length(k)]
  BY DEF BuildSGElement, q
<1> HIDE DEF rest, length
<1>10. BuildSGElement(max, size) \in Sg
  BY <1>5, <1>6, <1>9 DEF Sg
<1>11. 0 < size /\ size <= max * PAGE => Len(BuildSGElement(max, size)) \in 1..max
  <2>1. SUFFICES ASSUME 0 < size, size <= max * PAGE PROVE Len(BuildSGElement(max, size)) \in 1..max
    OBVIOUS
  <2>2. q \in 1..max /\ ~(q > max + 1)
    BY <1>7, <2>1
  <2> QED BY <1>8, <1>9, <2>2
<1> QED BY <1>10, <1>11

-----------------------------------------------------------------------------
(* The inductive invariant.                                                  *)

\* A field of the table is zero or what the host says.
FieldOK(x, h) == x = 0 \/ x = h
DataOK ==
    \A j \in DOMAIN Host : /\ FieldOK(Data[j].id, Host[j].id)
                           /\ FieldOK(Data[j].size, Host[j].size)
                           /\ FieldOK(Data[j].ver, Host[j].ver)

\* No bit of the mask is set that the host does not offer.
MaskOK == CapsetIdMask \subseteq HostIds

AtEntry == {"infowait", "id", "size", "ver", "maskread", "maskwrite"}   \* of GetCapsInfo
InCaps == {"check", "get", "getwait", "copy"}                           \* of CtlGetCaps

\* The lists of a command lie within sg, so the response comes whole.
Whole(c) == c.in # <<>> /\ Len(c.out) + Len(c.in) <= SGLIST_SIZE

\* Where thread t is: an entry of the table; the host or the DPC has its command only while
\* it waits; the entries behind it are filled and the one it is at is as far as it says.
Place(t) ==
    /\ call[t].pc \in AtEntry \cup InCaps => call[t].i \in DOMAIN Host
    /\ call[t].pc = "info" => call[t].i \in 1..(Len(Host) + 1)
    /\ t \in queued \cup used => call[t].pc \in {"infowait", "getwait"}
    /\ call[t].read \subseteq HostIds
Filling(t) ==
    /\ call[t].pc \in AtEntry \cup {"info"} =>
          \A j \in DOMAIN Host : j < call[t].i => Data[j] = Host[j]
    /\ call[t].pc = "infowait" => Whole(call[t])
    /\ call[t].pc \in AtEntry /\ (call[t].pc = "infowait" => t \in used) => call[t].resp = Host[call[t].i]
    /\ call[t].pc \in {"size", "ver", "maskread", "maskwrite"} => Data[call[t].i].id = Host[call[t].i].id
    /\ call[t].pc \in {"ver", "maskread", "maskwrite"} => Data[call[t].i].size = Host[call[t].i].size
    /\ call[t].pc \in {"maskread", "maskwrite"} => Data[call[t].i].ver = Host[call[t].i].ver

\* What CtlGetCaps has compared, and what the host was asked and has said.
Getting(t) ==
    call[t].pc \in InCaps /\ call[t].req.id # 0 =>
        /\ Data[call[t].i].id = Host[call[t].i].id
        /\ call[t].req.id = Host[call[t].i].id /\ call[t].req.ver <= Host[call[t].i].ver
        /\ call[t].pc # "check" => /\ Data[call[t].i].size = Host[call[t].i].size
                                   /\ call[t].req.size = Host[call[t].i].size
        /\ call[t].pc = "getwait" => call[t].capset_id = Host[call[t].i].id
        /\ call[t].pc = "getwait" /\ Fits(Host[call[t].i].size) => Whole(call[t])
        /\ (call[t].pc = "copy" \/ t \in used) /\ Fits(Host[call[t].i].size) => call[t].resp = Host[call[t].i]

\* The request is the client's, so its size is not zero.
OfClient(t) == call[t].pc \in InCaps => call[t].req \in Requests

Local(t) == Place(t) /\ Filling(t) /\ Getting(t) /\ OfClient(t)

IInv ==
    /\ TypeOK /\ DataOK /\ MaskOK /\ queued \cap used = {}
    /\ InitializedMeansFilled /\ CapsAnswered /\ AcceptedCapsetOffered
    /\ \A t \in Threads : Local(t)

\* What the host's table is made of.
LEMMA HostFacts ==
    /\ Host \in Seq(Entry) /\ DOMAIN Host = 1..Len(Host) /\ Len(Host) \in Nat
    /\ \A i \in DOMAIN Host : /\ Host[i] \in Entry /\ Host[i].id \in Nat \ {0}
                              /\ Host[i].size \in Nat /\ Host[i].ver \in Nat
    /\ PAGE \in Nat \ {0}
    /\ HostIds \subseteq Nat
<1>1. Host \in Seq(Entry) /\ PAGE \in Nat \ {0}
  BY CapsetsAssumption
<1>2. DOMAIN Host = 1..Len(Host) /\ Len(Host) \in Nat /\ \A i \in DOMAIN Host : Host[i] \in Entry
  BY <1>1
<1>3. ASSUME NEW i \in DOMAIN Host
      PROVE  Host[i].id \in Nat \ {0} /\ Host[i].size \in Nat /\ Host[i].ver \in Nat
  <2>1. Host[i] \in Entry /\ Host[i].id # 0
    BY <1>2, CapsetsAssumption
  <2> QED BY <2>1 DEF Entry
<1>4. HostIds \subseteq Nat
  BY <1>3 DEF HostIds
<1> QED BY <1>1, <1>2, <1>3, <1>4

\* The values a call starts and ends with.
LEMMA Constants == <<>> \in Sg /\ Zero \in Entry /\ Idle \in Call /\ NoAnswer \in Answer
<1>1. <<>> \in Sg
  BY DEF Sg
<1>2. Zero \in Entry
  BY DEF Zero, Entry
<1>3. Idle \in Call
  BY <1>1, <1>2, HostFacts DEF Idle, Call
<1>4. NoAnswer \in Answer
  BY <1>2 DEF NoAnswer, Answer
<1> QED BY <1>1, <1>2, <1>3, <1>4

\* The invariant holds when the device is prepared.
LEMMA Initially == Init => IInv
<1> SUFFICES ASSUME Init PROVE IInv
  OBVIOUS
<1>5. TypeOK
  <2>1. Initialized \in BOOLEAN
    BY DEF Init
  <2>2. starts \in 1..MaxStarts
    BY CapsetsAssumption DEF Init
  <2> QED BY Constants, <2>1, <2>2 DEF Init, TypeOK
<1>6. DataOK /\ MaskOK /\ InitializedMeansFilled
  BY DEF Init, DataOK, FieldOK, Zero, MaskOK, InitializedMeansFilled
<1>7. CapsAnswered /\ AcceptedCapsetOffered
  BY DEF Init, CapsAnswered, AcceptedCapsetOffered, NoAnswer
<1>8. ASSUME NEW t \in Threads PROVE Local(t)
  BY DEF Init, Local, Place, Filling, Getting, OfClient, Idle, AtEntry, InCaps
<1> QED BY <1>5, <1>6, <1>7, <1>8 DEF IInv, Init

-----------------------------------------------------------------------------
(* What a step of one thread leaves to the others.                           *)

\* A step of thread t, as the other threads see it.
Frame(t) ==
    \A u \in Threads \ {t} : /\ call'[u] = call[u] /\ answer'[u] = answer[u]
                             /\ u \in queued' <=> u \in queued
                             /\ u \in used' <=> u \in used

\* The table only comes nearer to the host's.
FieldStep(y, x, h) == y = x \/ y = h
DataStep ==
    \A j \in DOMAIN Host : /\ FieldStep(Data'[j].id, Data[j].id, Host[j].id)
                           /\ FieldStep(Data'[j].size, Data[j].size, Host[j].size)
                           /\ FieldStep(Data'[j].ver, Data[j].ver, Host[j].ver)

\* An entry that is the host's in its three fields is the host's.
LEMMA SameEntry ==
    ASSUME NEW x \in Entry, NEW y \in Entry, x.id = y.id, x.size = y.size, x.ver = y.ver
    PROVE  x = y
  BY DEF Entry

\* An entry that is filled stays filled.
LEMMA FilledStays ==
    ASSUME TypeOK, TypeOK', DataStep, NEW j \in DOMAIN Host, Data[j] = Host[j]
    PROVE  Data'[j] = Host[j]
<1>1. Data'[j] \in Entry /\ Host[j] \in Entry
  BY HostFacts DEF TypeOK
<1>2. Data'[j].id = Host[j].id /\ Data'[j].size = Host[j].size /\ Data'[j].ver = Host[j].ver
  BY DEF DataStep, FieldStep
<1> QED BY <1>1, <1>2, SameEntry

\* What a thread has seen stays true under the steps of the others.
LEMMA Others ==
    ASSUME IInv, TypeOK', DataStep, NEW t \in Threads, Frame(t), NEW u \in Threads \ {t}
    PROVE  Local(u)'
<1>1. /\ call'[u] = call[u]
      /\ u \in queued' <=> u \in queued
      /\ u \in used' <=> u \in used
  BY DEF Frame
<1>2. Local(u) /\ TypeOK
  BY DEF IInv
<1> USE DEF AtEntry, InCaps
<1>3. Place(u)' /\ OfClient(u)'
  BY <1>1, <1>2 DEF Local, Place, OfClient
<1>4. Filling(u)'
  <2>1. ASSUME call[u].pc \in AtEntry \cup {"info"}, NEW j \in DOMAIN Host, j < call[u].i
        PROVE  Data'[j] = Host[j]
    BY <1>2, <2>1, FilledStays DEF Local, Filling
  <2>2. ASSUME call[u].pc \in AtEntry
        PROVE  LET j == call[u].i
               IN  /\ FieldStep(Data'[j].id, Data[j].id, Host[j].id)
                   /\ FieldStep(Data'[j].size, Data[j].size, Host[j].size)
                   /\ FieldStep(Data'[j].ver, Data[j].ver, Host[j].ver)
    BY <1>2, <2>2 DEF Local, Place, DataStep
  <2> QED BY <1>1, <1>2, <2>1, <2>2 DEF Local, Filling, FieldStep
<1>5. Getting(u)'
  <2>1. ASSUME call[u].pc \in InCaps
        PROVE  LET j == call[u].i
               IN  /\ FieldStep(Data'[j].id, Data[j].id, Host[j].id)
                   /\ FieldStep(Data'[j].size, Data[j].size, Host[j].size)
    BY <1>2, <2>1 DEF Local, Place, DataStep
  <2> QED BY <1>1, <1>2, <2>1 DEF Local, Getting, FieldStep
<1> QED BY <1>3, <1>4, <1>5 DEF Local

\* What a call has answered, of one thread.
AnswerOK(t) ==
    /\ answer[t].of = "caps" /\ answer[t].req.id # 0 =>
          \E i \in DOMAIN Host :
            /\ answer[t].req.id = Host[i].id /\ answer[t].req.ver <= Host[i].ver
            /\ answer[t].req.size = Host[i].size /\ answer[t].cap.size = Host[i].size
            /\ Fits(Host[i].size) => answer[t].cap = Host[i]
    /\ answer[t].of = "init" => answer[t].cap.id \in HostIds

\* A step of thread t keeps the invariant if it keeps what is said of t and of the table.
LEMMA StepOf ==
    ASSUME IInv, NEW t \in Threads, TypeOK', DataStep, Frame(t), MaskOK', queued' \cap used' = {},
           InitializedMeansFilled', AnswerOK(t)', Local(t)'
    PROVE  IInv'
<1>1. DataOK'
  BY DEF IInv, DataOK, DataStep, FieldOK, FieldStep
<1>2. \A u \in Threads : AnswerOK(u)
  BY DEF IInv, CapsAnswered, AcceptedCapsetOffered, AnswerOK
<1>3. \A u \in Threads : AnswerOK(u)'
  BY <1>2 DEF AnswerOK, Frame
<1>4. CapsAnswered' /\ AcceptedCapsetOffered'
  BY <1>3 DEF AnswerOK, CapsAnswered, AcceptedCapsetOffered
<1>5. \A u \in Threads : Local(u)'
  BY Others
<1> QED BY <1>1, <1>4, <1>5 DEF IInv

\* A step that leaves the table and the mask alone, and fills nothing.
LEMMA QuietStepOf ==
    ASSUME IInv, NEW t \in Threads, TypeOK', UNCHANGED table, Frame(t), queued' \cap used' = {},
           AnswerOK(t)', Local(t)'
    PROVE  IInv'
<1>1. DataStep
  BY DEF DataStep, FieldStep, table
<1>2. MaskOK' /\ InitializedMeansFilled'
  BY DEF IInv, MaskOK, InitializedMeansFilled, table
<1> QED BY <1>1, <1>2, StepOf

-----------------------------------------------------------------------------
(* The steps.                                                               *)

\* A step that ends or begins a call of thread t with c and a, and changes nothing else.
LEMMA ReturnStep ==
    ASSUME IInv, NEW t \in Threads, NEW c \in Call, NEW a \in Answer,
           call' = [call EXCEPT ![t] = c], answer' = [answer EXCEPT ![t] = a],
           UNCHANGED <<table, queued, used, starts>>,
           AnswerOK(t)', Local(t)'
    PROVE  IInv'
<1>1. TypeOK'
  BY DEF IInv, TypeOK, table
<1>2. Frame(t)
  BY DEF IInv, TypeOK, Frame
<1>3. queued' \cap used' = {}
  BY DEF IInv
<1> QED BY <1>1, <1>2, <1>3, QuietStepOf DEF table

\* What the step of a call knows of it.
LEMMA OfThread ==
    ASSUME IInv, NEW t \in Threads
    PROVE  /\ call \in [Threads -> Call] /\ answer \in [Threads -> Answer]
           /\ call[t] \in Call /\ AnswerOK(t) /\ Local(t)
           /\ \A c : [call EXCEPT ![t] = c][t] = c
           /\ \A a : [answer EXCEPT ![t] = a][t] = a
  BY DEF IInv, TypeOK, CapsAnswered, AcceptedCapsetOffered, AnswerOK

\* CtlGetParams begins, and fills the table if nobody has.
LEMMA StepGetParams ==
    ASSUME IInv, NEW t \in Threads, CtlGetParams(t)
    PROVE  IInv'
<1> DEFINE c == [Idle EXCEPT !.i = 1, !.pc = IF Initialized THEN "params" ELSE "info"]
<1>1. c \in Call
  <2>1. 1 \in 0..(Len(Host) + 1)
    BY HostFacts
  <2>2. ASSUME NEW pc \in {"params", "info"} PROVE [Idle EXCEPT !.i = 1, !.pc = pc] \in Call
    BY <2>1, Constants DEF Call
  <2> QED BY <2>2
<1>2. call' = [call EXCEPT ![t] = c] /\ answer' = [answer EXCEPT ![t] = NoAnswer]
  BY DEF CtlGetParams, Begin
<1>3. call'[t] = c /\ answer'[t] = NoAnswer /\ t \notin queued' \cup used'
  BY <1>2, OfThread DEF CtlGetParams, Local, Place
<1>4. AnswerOK(t)'
  BY <1>3 DEF AnswerOK, NoAnswer
<1>5. Local(t)'
  BY <1>3, HostFacts DEF Local, Place, Filling, Getting, OfClient, Idle, AtEntry, InCaps
<1> HIDE DEF c
<1> QED BY <1>1, <1>2, <1>4, <1>5, Constants, ReturnStep DEF CtlGetParams

\* CtlGetParams answers with the mask.
LEMMA StepAnswerParams ==
    ASSUME IInv, NEW t \in Threads, AnswerParams(t)
    PROVE  IInv'
<1> DEFINE a == [NoAnswer EXCEPT !.of = "params", !.mask = CapsetIdMask]
<1>1. a \in Answer
  BY Constants DEF Answer, IInv, TypeOK
<1>2. call' = [call EXCEPT ![t] = Idle] /\ answer' = [answer EXCEPT ![t] = a]
  BY DEF AnswerParams, Return
<1>3. call'[t] = Idle /\ answer'[t] = a /\ t \notin queued' \cup used'
  BY <1>2, OfThread DEF AnswerParams, Local, Place
<1>4. AnswerOK(t)'
  BY <1>3 DEF AnswerOK, NoAnswer
<1>5. Local(t)'
  BY <1>3 DEF Local, Place, Filling, Getting, OfClient, Idle, AtEntry, InCaps
<1> HIDE DEF a
<1> QED BY <1>1, <1>2, <1>4, <1>5, Constants, ReturnStep DEF AnswerParams

\* A call that returns a, which is right.
LEMMA StepReturn ==
    ASSUME IInv, NEW t \in Threads, NEW a \in Answer, Return(t, a), t \notin queued \cup used,
           a.of = "caps" /\ a.req.id # 0 =>
              \E i \in DOMAIN Host : /\ a.req.id = Host[i].id /\ a.req.ver <= Host[i].ver
                                     /\ a.req.size = Host[i].size /\ a.cap.size = Host[i].size
                                     /\ Fits(Host[i].size) => a.cap = Host[i],
           a.of = "init" => a.cap.id \in HostIds,
           UNCHANGED <<table, queued, used, starts>>
    PROVE  IInv'
<1>1. call' = [call EXCEPT ![t] = Idle] /\ answer' = [answer EXCEPT ![t] = a]
  BY DEF Return
<1>2. call'[t] = Idle /\ answer'[t] = a /\ t \notin queued' \cup used'
  BY <1>1, OfThread
<1>3. AnswerOK(t)'
  BY <1>2 DEF AnswerOK
<1>4. Local(t)'
  BY <1>2 DEF Local, Place, Filling, Getting, OfClient, Idle, AtEntry, InCaps
<1> QED BY <1>1, <1>3, <1>4, Constants, ReturnStep

\* CtlInitVirglContext tests the bit of a capset id.
LEMMA StepInitCapset ==
    ASSUME IInv, NEW t \in Threads, NEW id \in 0..(Len(Host) + 1), InitCapset(t, id)
    PROVE  IInv'
<1>1. t \notin queued \cup used
  BY OfThread DEF InitCapset, Local, Place
<1>2. CASE id \in CapsetIdMask
  <2> DEFINE a == [NoAnswer EXCEPT !.of = "init", !.cap = [Zero EXCEPT !.id = id]]
  <2>1. a \in Answer
    <3>1. id \in Nat
      BY HostFacts
    <3>2. [Zero EXCEPT !.id = id] \in Entry
      BY <3>1, Constants DEF Entry
    <3> QED BY <3>2, Constants DEF Answer
  <2>2. a.of = "init" /\ a.cap.id = id
    BY DEF NoAnswer, Zero
  <2>3. id \in HostIds
    BY <1>2 DEF IInv, MaskOK
  <2>4. Return(t, a) /\ UNCHANGED <<table, queued, used, starts>>
    BY <1>2 DEF InitCapset
  <2> HIDE DEF a
  <2> QED BY <1>1, <2>1, <2>2, <2>3, <2>4, StepReturn
<1>3. CASE id \notin CapsetIdMask
  BY <1>1, <1>3, Constants, StepReturn DEF InitCapset, NoAnswer
<1> QED BY <1>2, <1>3

\* CtlGetCaps copies the response to the client.
LEMMA StepCopyCaps ==
    ASSUME IInv, NEW t \in Threads, CopyCaps(t)
    PROVE  IInv'
<1> DEFINE c == call[t]
           a == [NoAnswer EXCEPT !.of = "caps", !.req = c.req, !.cap = [c.resp EXCEPT !.size = Data[c.i].size]]
<1>1. c \in Call /\ Local(t) /\ c.pc = "copy" /\ c.i \in DOMAIN Host
  BY OfThread DEF CopyCaps, Local, Place, InCaps
<1>2. Data[c.i] \in Entry /\ c.resp \in Entry /\ Host[c.i] \in Entry
  BY <1>1, HostFacts DEF IInv, TypeOK, Call
<1>3. a \in Answer
  BY <1>1, <1>2, Constants DEF Answer, Entry, Call
<1>4. ASSUME a.req.id # 0
      PROVE  /\ a.req.id = Host[c.i].id /\ a.req.ver <= Host[c.i].ver
             /\ a.req.size = Host[c.i].size /\ a.cap.size = Host[c.i].size
             /\ Fits(Host[c.i].size) => a.cap = Host[c.i]
  <2>1. a.req = c.req /\ a.cap = [c.resp EXCEPT !.size = Data[c.i].size]
    BY DEF NoAnswer
  <2>2. Data[c.i].size = Host[c.i].size /\ (Fits(Host[c.i].size) => c.resp = Host[c.i])
    BY <1>1, <1>4, <2>1 DEF Local, Getting, InCaps
  <2>3. a.cap.size = Host[c.i].size
    BY <1>2, <2>1, <2>2 DEF Entry
  <2>4. ASSUME Fits(Host[c.i].size) PROVE a.cap = Host[c.i]
    BY <1>2, <2>1, <2>2, <2>4 DEF Entry
  <2> QED BY <1>1, <1>4, <2>1, <2>3, <2>4 DEF Local, Getting, InCaps
<1>5. t \notin queued \cup used
  BY <1>1 DEF Local, Place
<1>6. Return(t, a) /\ UNCHANGED <<table, queued, used, starts>> /\ a.of = "caps"
  BY DEF CopyCaps, NoAnswer
<1> HIDE DEF a
<1> QED BY <1>1, <1>3, <1>4, <1>5, <1>6, StepReturn

\* CtlGetCaps finds the entry of the capset it is asked for.
LEMMA StepGetCaps ==
    ASSUME IInv, NEW t \in Threads, NEW r \in Requests, CtlGetCaps(t, r)
    PROVE  IInv'
<1>1. t \notin queued \cup used
  BY OfThread DEF CtlGetCaps, Local, Place
<1>2. CASE Matches(r) = {}
  BY <1>1, <1>2, Constants, StepReturn DEF CtlGetCaps, NoAnswer
<1>3. CASE Matches(r) # {}
  <2>1. PICK i \in Matches(r) : Begin(t, [Idle EXCEPT !.i = i, !.req = r, !.pc = "check"])
    BY <1>3 DEF CtlGetCaps
  <2> DEFINE c == [Idle EXCEPT !.i = i, !.req = r, !.pc = "check"]
  <2>2. i \in DOMAIN Host /\ Data[i].id = r.id /\ Data[i].ver >= r.ver
    BY DEF Matches
  <2>3. i \in 0..(Len(Host) + 1)
    BY <2>2, HostFacts
  <2>4. c \in Call
    BY <2>3, Constants DEF Call
  <2>5. /\ c.pc = "check" /\ c.i = i /\ c.req = r /\ c.read = {}
    BY DEF Idle
  <2>6. call' = [call EXCEPT ![t] = c] /\ answer' = [answer EXCEPT ![t] = NoAnswer]
    BY <2>1 DEF Begin
  <2> HIDE DEF c
  <2>7. /\ call'[t] = c /\ answer'[t] = NoAnswer /\ t \notin queued' \cup used' /\ Data' = Data
    BY <1>1, <2>6, OfThread DEF CtlGetCaps, table
  <2>8. AnswerOK(t)'
    BY <2>7 DEF AnswerOK, NoAnswer
  <2>9. r.id # 0 => r.id = Host[i].id /\ r.ver <= Host[i].ver
    <3>1. r \in Entry /\ Data[i] \in Entry
      BY <2>2, CapsetsAssumption DEF IInv, TypeOK
    <3>2. r.ver \in Nat /\ Data[i].ver \in Nat /\ Host[i].ver \in Nat
      BY <2>2, <3>1, HostFacts DEF Entry
    <3> QED BY <2>2, <3>2 DEF IInv, DataOK, FieldOK
  <2>10. Local(t)'
    BY <2>2, <2>5, <2>7, <2>9 DEF Local, Place, Filling, Getting, OfClient, AtEntry, InCaps
  <2> QED BY <2>4, <2>6, <2>8, <2>10, Constants, ReturnStep DEF CtlGetCaps
<1> QED BY <1>2, <1>3

\* A step that takes the call of thread t to c and answers nothing.
LEMMA CallStep ==
    ASSUME IInv, NEW t \in Threads, NEW c \in Call, call' = [call EXCEPT ![t] = c],
           UNCHANGED <<table, answer, queued, used, starts>>, Local(t)'
    PROVE  IInv'
<1>1. TypeOK'
  BY DEF IInv, TypeOK, table
<1>2. Frame(t)
  BY DEF IInv, TypeOK, Frame
<1>3. queued' \cap used' = {}
  BY DEF IInv
<1>4. AnswerOK(t)'
  BY OfThread DEF AnswerOK
<1> QED BY <1>1, <1>2, <1>3, <1>4, QuietStepOf DEF table

\* CtlGetCaps compares the client's size with that of the entry.
LEMMA StepCheckSize ==
    ASSUME IInv, NEW t \in Threads, CheckSize(t)
    PROVE  IInv'
<1>1. t \notin queued \cup used /\ call[t].i \in DOMAIN Host /\ call[t].pc = "check"
  BY OfThread DEF CheckSize, Local, Place, InCaps
<1>2. CASE call[t].req.size # Data[call[t].i].size
  BY <1>1, <1>2, Constants, StepReturn DEF CheckSize, NoAnswer
<1>3. CASE call[t].req.size = Data[call[t].i].size
  <2> DEFINE c == [call[t] EXCEPT !.pc = "get"]
  <2>0. call[t] \in Call
    BY OfThread
  <2>1. c \in Call
    BY <2>0 DEF Call
  <2>2. /\ c.pc = "get" /\ c.i = call[t].i /\ c.req = call[t].req /\ c.read = call[t].read
    BY <2>0 DEF Call
  <2>3. call' = [call EXCEPT ![t] = c] /\ UNCHANGED <<table, answer, queued, used, starts>>
    BY <1>3 DEF CheckSize, To
  <2> HIDE DEF c
  <2>4. call'[t] = c /\ t \notin queued' \cup used' /\ Data' = Data
    BY <1>1, <2>3, OfThread DEF table
  <2>5. call[t].req \in Requests
    BY <1>1, OfThread DEF Local, OfClient, InCaps
  <2>6. c.req.size = Host[c.i].size /\ Data[c.i].size = Host[c.i].size
    <3>1. Data[c.i].size = 0 \/ Data[c.i].size = Host[c.i].size
      BY <1>1, <2>2 DEF IInv, DataOK, FieldOK
    <3>2. c.req.size # 0
      BY <2>2, <2>5, CapsetsAssumption
    <3> QED BY <1>3, <2>2, <3>1, <3>2
  <2>7. Local(t)'
    BY <1>1, <2>2, <2>4, <2>5, <2>6, OfThread
       DEF Local, Place, Filling, Getting, OfClient, AtEntry, InCaps
  <2> QED BY <2>1, <2>3, <2>7, CallStep
<1> QED BY <1>2, <1>3

\* The mask is read before its new bit is set.
LEMMA StepMaskRead ==
    ASSUME IInv, NEW t \in Threads, MaskRead(t)
    PROVE  IInv'
<1> DEFINE c == [call[t] EXCEPT !.read = CapsetIdMask, !.pc = "maskwrite"]
<1>1. call[t] \in Call /\ CapsetIdMask \in SUBSET Nat
  BY OfThread DEF IInv, TypeOK
<1>2. c \in Call
  BY <1>1 DEF Call
<1>3. c.pc = "maskwrite" /\ c.i = call[t].i /\ c.read = CapsetIdMask /\ c.resp = call[t].resp
  BY <1>1 DEF Call
<1>4. call' = [call EXCEPT ![t] = c] /\ UNCHANGED <<table, answer, queued, used, starts>>
  BY DEF MaskRead
<1> HIDE DEF c
<1>5. call'[t] = c /\ Data' = Data /\ call[t].pc = "maskread" /\ t \notin queued' \cup used'
  BY <1>4, OfThread DEF table, MaskRead, Local, Place
<1>6. Local(t)'
  BY <1>3, <1>5, OfThread DEF Local, Place, Filling, Getting, OfClient, AtEntry, InCaps, IInv, MaskOK
<1> QED BY <1>2, <1>4, <1>6, CallStep

\* A thread that has filled the table goes on; the others may still be filling it again.
LEMMA StepInfoDone ==
    ASSUME IInv, NEW t \in Threads, InfoDone(t)
    PROVE  IInv'
<1> DEFINE c == [call[t] EXCEPT !.pc = "params"]
<1>1. call[t] \in Call /\ Local(t) /\ call[t].pc = "info" /\ call[t].i > Len(Host)
  BY OfThread DEF InfoDone
<1>2. c \in Call /\ c.pc = "params" /\ c.read = call[t].read
  BY <1>1 DEF Call
<1>3. call' = [call EXCEPT ![t] = c] /\ UNCHANGED <<Data, CapsetIdMask, answer, queued, used, starts>>
      /\ Initialized' = TRUE
  BY DEF InfoDone, To
<1> HIDE DEF c
<1>4. call'[t] = c /\ t \notin queued' \cup used'
  BY <1>1, <1>3, OfThread DEF Local, Place
<1>5. TypeOK'
  <2>1. Initialized' \in BOOLEAN
    BY <1>3
  <2> QED BY <1>2, <1>3, <2>1 DEF IInv, TypeOK
<1>6. Frame(t)
  BY <1>3 DEF IInv, TypeOK, Frame
<1>7. DataStep /\ MaskOK' /\ queued' \cap used' = {}
  BY <1>3 DEF DataStep, FieldStep, IInv, MaskOK
<1>8. InitializedMeansFilled'
  <2>1. \A j \in DOMAIN Host : j < call[t].i
    BY <1>1, HostFacts DEF Local, Place
  <2>2. \A j \in DOMAIN Host : Data[j] = Host[j]
    BY <1>1, <2>1 DEF Local, Filling
  <2>3. Data \in [DOMAIN Host -> Entry] /\ Host \in [DOMAIN Host -> Entry]
    BY HostFacts DEF IInv, TypeOK
  <2>4. Data = Host
    BY <2>2, <2>3
  <2> QED BY <1>3, <2>4 DEF InitializedMeansFilled
<1>9. AnswerOK(t)'
  BY <1>3, OfThread DEF AnswerOK
<1>10. Local(t)'
  BY <1>1, <1>2, <1>4 DEF Local, Place, Filling, Getting, OfClient, AtEntry, InCaps
<1> QED BY <1>5, <1>6, <1>7, <1>8, <1>9, <1>10, StepOf

\* The mask gains the bit of a capset of the host and at most loses some.
LEMMA StepMaskWrite ==
    ASSUME IInv, NEW t \in Threads, MaskWrite(t)
    PROVE  IInv'
<1> DEFINE c == [Idle EXCEPT !.pc = "info", !.i = call[t].i + 1]
           mask == call[t].read \cup {call[t].resp.id}
<1>1. /\ call[t] \in Call /\ Local(t) /\ call[t].pc = "maskwrite" /\ call[t].i \in DOMAIN Host
      /\ call[t].resp = Host[call[t].i]
  BY OfThread DEF MaskWrite, Local, Place, Filling, AtEntry
<1>2. call[t].i + 1 \in 0..(Len(Host) + 1) /\ call[t].i + 1 \in 1..(Len(Host) + 1)
  BY <1>1, HostFacts
<1>3. c \in Call
  BY <1>2, Constants DEF Call
<1>4. c.pc = "info" /\ c.i = call[t].i + 1 /\ c.read = {}
  BY DEF Idle
<1>5. /\ call' = [call EXCEPT ![t] = c] /\ CapsetIdMask' = mask
      /\ UNCHANGED <<Initialized, Data, answer, queued, used, starts>>
  BY DEF MaskWrite
<1>6. mask \subseteq HostIds
  BY <1>1 DEF HostIds, Local, Place
<1> HIDE DEF c, mask
<1>7. call'[t] = c /\ t \notin queued' \cup used'
  BY <1>1, <1>5, OfThread DEF Local, Place
<1>8. TypeOK'
  <2>1. mask \in SUBSET Nat
    BY <1>6, HostFacts
  <2> QED BY <1>3, <1>5, <2>1 DEF IInv, TypeOK
<1>9. Frame(t)
  BY <1>5 DEF IInv, TypeOK, Frame
<1>10. DataStep /\ MaskOK' /\ queued' \cap used' = {} /\ InitializedMeansFilled'
  BY <1>5, <1>6 DEF DataStep, FieldStep, IInv, MaskOK, InitializedMeansFilled
<1>11. AnswerOK(t)'
  BY <1>5, OfThread DEF AnswerOK
<1>12. Data[call[t].i] = Host[call[t].i]
  <2>1. Data[call[t].i] \in Entry /\ Host[call[t].i] \in Entry
    BY <1>1, HostFacts DEF IInv, TypeOK
  <2> QED BY <1>1, <2>1, SameEntry DEF Local, Filling
<1>13. \A j \in DOMAIN Host : j < c.i => Data'[j] = Host[j]
  <2>1. \A j \in DOMAIN Host : j < c.i => j < call[t].i \/ j = call[t].i
    BY <1>1, <1>4, HostFacts
  <2> QED BY <1>1, <1>5, <1>12, <2>1 DEF Local, Filling, AtEntry
<1>14. Local(t)'
  BY <1>2, <1>4, <1>7, <1>13 DEF Local, Place, Filling, Getting, OfClient, AtEntry, InCaps
<1> QED BY <1>8, <1>9, <1>10, <1>11, <1>14, StepOf

\* The three stores, of field f: the entry gets what the host says.
LEMMA StepStore ==
    ASSUME IInv, NEW t \in Threads, StoreId(t) \/ StoreSize(t) \/ StoreVersion(t)
    PROVE  IInv'
<1> DEFINE i == call[t].i
           after == CASE call[t].pc = "id" -> "size" [] call[t].pc = "size" -> "ver"
                      [] call[t].pc = "ver" -> "maskread"
           c == [call[t] EXCEPT !.pc = after]
<1>1. /\ call[t] \in Call /\ Local(t) /\ call[t].pc \in {"id", "size", "ver"} /\ i \in DOMAIN Host
      /\ call[t].resp = Host[i] /\ t \notin queued \cup used
  BY OfThread DEF StoreId, StoreSize, StoreVersion, Local, Place, Filling, AtEntry
<1>2. Data \in [DOMAIN Host -> Entry] /\ Data[i] \in Entry /\ Host[i] \in Entry
  BY <1>1, HostFacts DEF IInv, TypeOK
<1>3. call' = [call EXCEPT ![t] = c] /\ UNCHANGED <<Initialized, CapsetIdMask, answer, queued, used, starts>>
  BY DEF StoreId, StoreSize, StoreVersion, To
<1>4. after \in {"size", "ver", "maskread"}
  BY <1>1
<1>5. c \in Call /\ c.pc = after /\ c.i = i /\ c.resp = Host[i] /\ c.read = call[t].read
  <2> HIDE DEF after
  <2> QED BY <1>1, <1>4 DEF Call
<1> DEFINE e == CASE call[t].pc = "id" -> [Data[i] EXCEPT !.id = Host[i].id]
                  [] call[t].pc = "size" -> [Data[i] EXCEPT !.size = Host[i].size]
                  [] call[t].pc = "ver" -> [Data[i] EXCEPT !.ver = Host[i].ver]
<1>6. Data' = [Data EXCEPT ![i] = e]
  BY <1>1 DEF StoreId, StoreSize, StoreVersion
<1>7. e \in Entry
  BY <1>1, <1>2 DEF Entry
<1>8. /\ e.id = Data[i].id \/ e.id = Host[i].id
      /\ e.size = Data[i].size \/ e.size = Host[i].size
      /\ e.ver = Data[i].ver \/ e.ver = Host[i].ver
  BY <1>1, <1>2 DEF Entry
<1>9. /\ after \in {"size", "ver", "maskread"} => e.id = Host[i].id
      /\ after \in {"ver", "maskread"} => e.size = Host[i].size
      /\ after = "maskread" => e.ver = Host[i].ver
  BY <1>1, <1>2 DEF Entry, Local, Filling
<1> HIDE DEF c, e, after
<1>10. TypeOK'
  BY <1>3, <1>5, <1>6, <1>7 DEF IInv, TypeOK
<1>11. Frame(t)
  BY <1>3 DEF IInv, TypeOK, Frame
<1>12. DataStep
  BY <1>2, <1>6, <1>8 DEF DataStep, FieldStep
<1>13. MaskOK' /\ queued' \cap used' = {}
  BY <1>3 DEF IInv, MaskOK
<1>14. InitializedMeansFilled'
  <2>1. SUFFICES ASSUME Initialized PROVE Data' = Host
    BY <1>3 DEF InitializedMeansFilled
  <2>2. Data = Host
    BY <2>1 DEF IInv, InitializedMeansFilled
  <2>3. e = Host[i]
    BY <1>2, <1>7, <1>8, <2>2, SameEntry
  <2> QED BY <1>2, <1>6, <2>2, <2>3
<1>15. AnswerOK(t)'
  BY <1>3, OfThread DEF AnswerOK
<1>16. call'[t] = c /\ t \notin queued' \cup used' /\ Data'[i] = e
  BY <1>1, <1>2, <1>3, <1>6, OfThread
<1>17. \A j \in DOMAIN Host : j < i => Data'[j] = Host[j]
  <2>1. \A j \in DOMAIN Host : j < i => Data[j] = Host[j]
    BY <1>1 DEF Local, Filling, AtEntry
  <2> QED BY <1>10, <1>12, <2>1, FilledStays DEF IInv
<1>18. Local(t)'
  BY <1>1, <1>4, <1>5, <1>9, <1>16, <1>17
     DEF Local, Place, Filling, Getting, OfClient, AtEntry, InCaps
<1> QED BY <1>10, <1>11, <1>12, <1>13, <1>14, <1>15, <1>18, StepOf

\* The command itself takes one element.
LEMMA OneElement ==
    /\ BuildSGElement(SGLIST_SIZE, Header) \in Sg
    /\ Len(BuildSGElement(SGLIST_SIZE, Header)) = 1
<1> DEFINE out == BuildSGElement(SGLIST_SIZE, Header)
<1>1. PAGE \in Nat \ {0}
  BY HostFacts
<1>2. SGLIST_SIZE = 4 /\ Header = 1
  BY DEF SGLIST_SIZE, Header
<1>3. (Header + PAGE - 1) \div PAGE = 1
  <2>1. Header + PAGE - 1 = PAGE
    BY <1>1, <1>2
  <2> DEFINE q == PAGE \div PAGE
  <2>2. q \in Nat /\ PAGE * q <= PAGE /\ PAGE < PAGE * q + PAGE
    BY <1>1, Division
  <2> HIDE DEF q
  <2>3. q # 0
    BY <1>1, <2>2
  <2>4. q < 2
    <3>1. SUFFICES ASSUME q >= 2 PROVE FALSE
      BY <2>2
    <3>2. PAGE * q >= PAGE * 2
      BY <1>1, <2>2, <3>1
    <3> QED BY <1>1, <2>2, <3>2
  <2>5. q = 1
    BY <2>2, <2>3, <2>4
  <2> QED BY <2>1, <2>5 DEF q
<1>4. out \in Sg
  BY <1>2, SgLengths
<1>5. Len(out) = 1
  <2>1. DOMAIN out = 1..1
    BY <1>2, <1>3 DEF BuildSGElement
  <2>2. DOMAIN out = 1..Len(out) /\ Len(out) \in Nat
    BY <1>4 DEF Sg
  <2> QED BY <2>1, <2>2
<1> QED BY <1>4, <1>5

\* The command takes one element, and a response that fits the others takes no more.
LEMMA PushLists ==
    ASSUME NEW respSize \in Nat
    PROVE  LET out == BuildSGElement(SGLIST_SIZE, Header)
               in == BuildSGElement(SGLIST_SIZE - Len(out), respSize)
           IN  /\ out \in Sg /\ in \in Sg
               /\ 0 < respSize /\ respSize <= (SGLIST_SIZE - 1) * PAGE =>
                     in # <<>> /\ Len(out) + Len(in) <= SGLIST_SIZE
<1> DEFINE out == BuildSGElement(SGLIST_SIZE, Header)
           in == BuildSGElement(SGLIST_SIZE - Len(out), respSize)
<1>1. out \in Sg /\ Len(out) = 1
  BY OneElement
<1>3. in = BuildSGElement(3, respSize)
  <2> DEFINE n == Len(out)
  <2>1. n = 1
    BY <1>1
  <2> HIDE DEF n
  <2>2. SGLIST_SIZE - n = 3
    BY <2>1 DEF SGLIST_SIZE
  <2> QED BY <2>2, Zenon DEF n
<1> HIDE DEF in, out
<1>4. in \in Sg /\ (0 < respSize /\ respSize <= 3 * PAGE => Len(in) \in 1..3)
  BY <1>3, SgLengths
<1>5. ASSUME 0 < respSize, respSize <= (SGLIST_SIZE - 1) * PAGE
      PROVE  in # <<>> /\ Len(out) + Len(in) <= SGLIST_SIZE
  <2>1. Len(in) \in 1..3
    BY <1>4, <1>5 DEF SGLIST_SIZE
  <2>2. in # <<>>
    BY <2>1
  <2> DEFINE m == Len(in)
             n == Len(out)
  <2>3. m \in 1..3 /\ n = 1
    BY <1>1, <2>1
  <2> HIDE DEF m, n
  <2>4. n + m <= SGLIST_SIZE
    BY <2>3 DEF SGLIST_SIZE
  <2> QED BY <2>2, <2>4 DEF m, n
<1> QED BY <1>1, <1>4, <1>5 DEF in, out

\* A call that pushes a command and waits, as c with the lists of its descriptors.
LEMMA PushStep ==
    ASSUME IInv, NEW t \in Threads, NEW c \in Call, NEW respSize \in Nat, Push(t, c, respSize),
           t \notin queued \cup used, c.pc \in {"infowait", "getwait"},
           UNCHANGED <<table, answer, used, starts>>,
           (/\ call'[t].pc = c.pc /\ call'[t].i = c.i /\ call'[t].req = c.req
            /\ call'[t].read = c.read /\ call'[t].capset_id = c.capset_id
            /\ 0 < respSize /\ respSize <= (SGLIST_SIZE - 1) * PAGE => Whole(call'[t])) => Local(t)'
    PROVE  IInv'
<1> DEFINE out == BuildSGElement(SGLIST_SIZE, Header)
           in == BuildSGElement(SGLIST_SIZE - Len(out), respSize)
           d == [c EXCEPT !.out = out, !.in = in]
<1>1. /\ out \in Sg /\ in \in Sg
      /\ 0 < respSize /\ respSize <= (SGLIST_SIZE - 1) * PAGE =>
            in # <<>> /\ Len(out) + Len(in) <= SGLIST_SIZE
  BY PushLists
<1>2. call' = [call EXCEPT ![t] = d] /\ queued' \in {queued, queued \cup {t}}
  BY DEF Push
<1> HIDE DEF out, in
<1>3. d \in Call /\ d.pc = c.pc /\ d.i = c.i /\ d.req = c.req /\ d.read = c.read
      /\ d.capset_id = c.capset_id /\ d.in = in /\ d.out = out
  BY <1>1 DEF Call
<1> HIDE DEF d
<1>4. TypeOK'
  BY <1>2, <1>3 DEF IInv, TypeOK, table
<1>5. Frame(t)
  BY <1>2 DEF IInv, TypeOK, Frame
<1>6. queued' \cap used' = {}
  BY <1>2 DEF IInv
<1>7. AnswerOK(t)'
  BY OfThread DEF AnswerOK
<1>8. call'[t] = d
  BY <1>2, OfThread
<1>9. Local(t)'
  BY <1>1, <1>3, <1>8 DEF Whole
<1> QED BY <1>4, <1>5, <1>6, <1>7, <1>9, QuietStepOf

\* The command that asks the host for one entry is pushed.
LEMMA StepGetCapsInfo ==
    ASSUME IInv, NEW t \in Threads, GetCapsInfo(t)
    PROVE  IInv'
<1> DEFINE c == [call[t] EXCEPT !.pc = "infowait"]
<1>1. call[t] \in Call /\ Local(t) /\ call[t].pc = "info" /\ call[t].i <= Len(Host)
  BY OfThread DEF GetCapsInfo
<1>2. c \in Call /\ c.pc = "infowait" /\ c.i = call[t].i /\ c.req = call[t].req /\ c.read = call[t].read
  BY <1>1 DEF Call
<1>3. Push(t, c, 2 * Header) /\ UNCHANGED <<table, answer, used, starts>>
  BY DEF GetCapsInfo
<1>4. t \notin queued \cup used /\ c.i \in DOMAIN Host
  BY <1>1, <1>2, HostFacts DEF Local, Place
<1> HIDE DEF c
<1>5. 2 * Header \in Nat /\ 0 < 2 * Header /\ 2 * Header <= (SGLIST_SIZE - 1) * PAGE
  BY HostFacts DEF Header, SGLIST_SIZE
<1>6. ASSUME call'[t].pc = c.pc, call'[t].i = c.i, call'[t].read = c.read, Whole(call'[t])
      PROVE  Local(t)'
  BY <1>1, <1>2, <1>3, <1>4, <1>6
     DEF Local, Place, Filling, Getting, OfClient, AtEntry, InCaps, table
<1> QED BY <1>2, <1>3, <1>4, <1>5, <1>6, PushStep

\* The command that asks the host for a capset is pushed.
LEMMA StepGetCapsPush ==
    ASSUME IInv, NEW t \in Threads, GetCaps(t)
    PROVE  IInv'
<1> DEFINE d == Data[call[t].i]
           c == [call[t] EXCEPT !.pc = "getwait", !.capset_id = d.id]
<1>1. call[t] \in Call /\ Local(t) /\ call[t].pc = "get" /\ call[t].i \in DOMAIN Host
  BY OfThread DEF GetCaps, Local, Place, InCaps
<1>2. d \in Entry /\ d.id \in Nat /\ d.size \in Nat
  BY <1>1 DEF IInv, TypeOK, Entry
<1>3. /\ c \in Call /\ c.pc = "getwait" /\ c.i = call[t].i /\ c.req = call[t].req
      /\ c.read = call[t].read /\ c.capset_id = d.id
  BY <1>1, <1>2 DEF Call
<1>4. Push(t, c, Header + d.size) /\ UNCHANGED <<table, answer, used, starts>>
  BY DEF GetCaps
<1>5. t \notin queued \cup used
  BY <1>1 DEF Local, Place
<1> HIDE DEF c
<1>6. Header + d.size \in Nat /\ 0 < Header + d.size
  BY <1>2 DEF Header
<1>7. d.size = Host[c.i].size /\ Fits(Host[c.i].size) => Header + d.size <= (SGLIST_SIZE - 1) * PAGE
  BY DEF Fits
<1>8. ASSUME call'[t].pc = c.pc, call'[t].i = c.i, call'[t].req = c.req, call'[t].read = c.read,
             call'[t].capset_id = c.capset_id,
             d.size = Host[c.i].size /\ Fits(Host[c.i].size) => Whole(call'[t])
      PROVE  Local(t)'
  BY <1>1, <1>3, <1>4, <1>5, <1>8
     DEF Local, Place, Filling, Getting, OfClient, AtEntry, InCaps, table
<1> QED BY <1>3, <1>4, <1>5, <1>6, <1>7, <1>8, PushStep

\* A handler that stays where its list has overrun sg.
LEMMA StepOverrunStops ==
    ASSUME IInv, NEW t \in Threads, OverrunStops(t)
    PROVE  IInv'
<1> DEFINE c == [call[t] EXCEPT !.pc = "overrun"]
<1>1. call[t] \in Call /\ Local(t) /\ call[t].pc = "get"
  BY OfThread DEF OverrunStops
<1>2. c \in Call /\ c.pc = "overrun" /\ c.read = call[t].read
  BY <1>1 DEF Call
<1>3. call' = [call EXCEPT ![t] = c] /\ UNCHANGED <<table, answer, queued, used, starts>>
  BY DEF OverrunStops, To
<1> HIDE DEF c
<1>4. call'[t] = c /\ t \notin queued' \cup used'
  BY <1>1, <1>3, OfThread DEF Local, Place
<1>5. Local(t)'
  BY <1>1, <1>2, <1>4 DEF Local, Place, Filling, Getting, OfClient, AtEntry, InCaps
<1> QED BY <1>2, <1>3, <1>5, CallStep

\* The host writes what it has to say, or nothing where the list does not lie within sg.
LEMMA WrittenWhole ==
    ASSUME NEW c, NEW resp, Len(c.out) \in Nat, Len(c.in) \in Nat
    PROVE  /\ \A g \in Written(c, resp) : g \in {Zero, resp}
           /\ Whole(c) => \A g \in Written(c, resp) : g = resp
<1>1. CASE c.in = <<>>
  BY <1>1 DEF Written, Whole
<1>2. CASE c.in # <<>> /\ Len(c.out) + Len(c.in) > SGLIST_SIZE
  <2>1. Written(c, resp) = {Zero, resp}
    BY <1>2 DEF Written
  <2>2. ~Whole(c)
    <3> DEFINE m == Len(c.in)
               n == Len(c.out)
    <3>1. m \in Nat /\ n \in Nat /\ n + m > SGLIST_SIZE
      BY <1>2
    <3> HIDE DEF m, n
    <3>2. ~(n + m <= SGLIST_SIZE)
      BY <3>1 DEF SGLIST_SIZE
    <3> QED BY <3>2 DEF Whole, m, n
  <2> QED BY <2>1, <2>2
<1>3. CASE c.in # <<>> /\ ~(Len(c.out) + Len(c.in) > SGLIST_SIZE)
  BY <1>3 DEF Written
<1> QED BY <1>1, <1>2, <1>3

\* The host answers with its own capset, whatever the command asks.
LEMMA StepHostAnswer ==
    ASSUME IInv, NEW t \in Threads, HostAnswer(t)
    PROVE  IInv'
<1> DEFINE caps == {h \in Range(Host) : h.id = call[t].capset_id /\ h.ver >= call[t].req.ver}
           resp == CASE call[t].pc = "infowait" -> Host[call[t].i]
                     [] call[t].pc = "getwait" /\ caps # {} -> CHOOSE h \in caps : TRUE
                     [] OTHER -> Zero
<1>1. /\ call[t] \in Call /\ Local(t) /\ call[t].pc \in {"infowait", "getwait"}
      /\ call[t].i \in DOMAIN Host /\ t \in queued
  BY OfThread DEF HostAnswer, Local, Place, AtEntry, InCaps
<1>0. PICK given \in Written(call[t], resp) : call' = [call EXCEPT ![t].resp = given]
  BY DEF HostAnswer
<1> DEFINE c == [call[t] EXCEPT !.resp = given]
<1>2. /\ call' = [call EXCEPT ![t] = c] /\ queued' = queued \ {t} /\ used' = used \cup {t}
      /\ UNCHANGED <<table, answer, starts>>
  BY <1>0 DEF HostAnswer
<1>16. given \in {Zero, resp} /\ (Whole(call[t]) => given = resp)
  <2>1. call[t].out \in Sg /\ call[t].in \in Sg
    BY <1>1 DEF Call
  <2>2. Len(call[t].out) \in Nat /\ Len(call[t].in) \in Nat
    BY <2>1 DEF Sg
  <2> HIDE DEF resp
  <2> QED BY <1>0, <2>2, WrittenWhole
<1>3. \A h \in caps : h \in Range(Host) /\ h.id = call[t].capset_id /\ h.ver >= call[t].req.ver
  OBVIOUS
<1>4. Range(Host) \subseteq Entry /\ \A h \in Range(Host) : \E j \in DOMAIN Host : h = Host[j]
  BY HostFacts DEF Range
<1>5. \A j \in DOMAIN Host : Host[j] \in Range(Host)
  BY DEF Range
<1>6. ASSUME call[t].pc = "infowait" PROVE given = Host[call[t].i]
  BY <1>1, <1>6, <1>16 DEF Local, Filling
<1>7. ASSUME call[t].pc = "getwait", call[t].req.id # 0, Fits(Host[call[t].i].size)
      PROVE  given = Host[call[t].i]
  <2> DEFINE h == Host[call[t].i]
  <2>1. /\ Whole(call[t]) /\ call[t].capset_id = h.id /\ call[t].req.ver <= h.ver
    BY <1>1, <1>7 DEF Local, Getting, InCaps
  <2>2. call[t].req.ver \in Nat /\ h.ver \in Nat
    <3>1. call[t].req \in Entry
      BY <1>1, Constants, CapsetsAssumption DEF Call
    <3> QED BY <1>1, <3>1, HostFacts DEF Entry
  <2>3. h \in caps
    BY <1>1, <1>5, <2>1, <2>2
  <2>4. \A g \in caps : g = h
    BY <1>1, <1>3, <1>4, <2>1, CapsetsAssumption
  <2> HIDE DEF caps
  <2>5. resp = h
    BY <1>7, <2>3, <2>4
  <2> QED BY <1>16, <2>1, <2>5
<1>8. given \in Entry
  <2>1. caps \subseteq Entry
    BY <1>3, <1>4
  <2> HIDE DEF caps
  <2>2. resp \in Entry
    BY <1>1, <2>1, Constants, HostFacts
  <2> QED BY <1>16, <2>2, Constants
<1>9. /\ c \in Call /\ c.pc = call[t].pc /\ c.i = call[t].i /\ c.req = call[t].req
      /\ c.in = call[t].in /\ c.out = call[t].out
      /\ c.read = call[t].read /\ c.capset_id = call[t].capset_id /\ c.resp = given
  BY <1>1, <1>8 DEF Call
<1> HIDE DEF c
<1>10. TypeOK'
  BY <1>2, <1>9 DEF IInv, TypeOK, table
<1>11. Frame(t)
  BY <1>2 DEF IInv, TypeOK, Frame
<1>12. queued' \cap used' = {}
  BY <1>2 DEF IInv
<1>13. AnswerOK(t)'
  BY <1>2, OfThread DEF AnswerOK
<1>14. call'[t] = c /\ Data' = Data
  BY <1>2, OfThread DEF table
<1>15. Local(t)'
  BY <1>1, <1>2, <1>6, <1>7, <1>9, <1>14
     DEF Local, Place, Filling, Getting, OfClient, AtEntry, InCaps, Whole
<1> QED BY <1>2, <1>10, <1>11, <1>12, <1>13, <1>15, QuietStepOf

\* The DPC releases the handler that waits for its response.
LEMMA StepDpcSetEvent ==
    ASSUME IInv, NEW t \in Threads, DpcSetEvent(t)
    PROVE  IInv'
<1> DEFINE after == IF call[t].pc = "infowait" THEN "id" ELSE "copy"
           c == [call[t] EXCEPT !.pc = after]
<1>1. /\ call[t] \in Call /\ Local(t) /\ call[t].pc \in {"infowait", "getwait"} /\ t \in used
      /\ t \notin queued
  BY OfThread DEF DpcSetEvent, Local, Place, IInv
<1>2. call' = [call EXCEPT ![t] = c] /\ used' = used \ {t} /\ UNCHANGED <<table, answer, queued, starts>>
  BY DEF DpcSetEvent, To
<1>3. after \in {"id", "copy"} /\ (after = "id" <=> call[t].pc = "infowait")
  OBVIOUS
<1> HIDE DEF after
<1>4. /\ c \in Call /\ c.pc = after /\ c.i = call[t].i /\ c.req = call[t].req
      /\ c.read = call[t].read /\ c.resp = call[t].resp
  BY <1>1, <1>3 DEF Call
<1> HIDE DEF c
<1>5. TypeOK'
  BY <1>2, <1>4 DEF IInv, TypeOK, table
<1>6. Frame(t)
  BY <1>2 DEF IInv, TypeOK, Frame
<1>7. queued' \cap used' = {}
  BY <1>2 DEF IInv
<1>8. AnswerOK(t)'
  BY <1>2, OfThread DEF AnswerOK
<1>9. call'[t] = c /\ Data' = Data
  BY <1>2, OfThread DEF table
<1>10. Local(t)'
  BY <1>1, <1>2, <1>3, <1>4, <1>9
     DEF Local, Place, Filling, Getting, OfClient, AtEntry, InCaps
<1> QED BY <1>2, <1>5, <1>6, <1>7, <1>8, <1>10, QuietStepOf

\* The device is prepared again: no handler is anywhere.
LEMMA StepRestart == IInv /\ Restart => IInv'
<1> SUFFICES ASSUME IInv, Restart PROVE IInv'
  OBVIOUS
<1>1. TypeOK'
  <2>1. Initialized' \in BOOLEAN
    BY DEF Restart
  <2>2. starts' \in 1..MaxStarts
    BY CapsetsAssumption DEF Restart, IInv, TypeOK
  <2> QED BY <2>1, <2>2, Constants DEF IInv, TypeOK, Restart
<1>2. DataOK' /\ MaskOK' /\ InitializedMeansFilled' /\ queued' \cap used' = {}
  BY DEF IInv, DataOK, FieldOK, MaskOK, InitializedMeansFilled, Restart, Zero
<1>3. CapsAnswered' /\ AcceptedCapsetOffered'
  BY DEF CapsAnswered, AcceptedCapsetOffered, Restart, NoAnswer
<1>4. ASSUME NEW t \in Threads PROVE Local(t)'
  <2>1. call'[t] = call[t] /\ call[t].pc = "idle" /\ Local(t) /\ queued' = queued /\ used' = used
    BY DEF Restart, IInv
  <2> QED BY <2>1 DEF Local, Place, Filling, Getting, OfClient, AtEntry, InCaps
<1> QED BY <1>1, <1>2, <1>3, <1>4 DEF IInv

\* Every step preserves the invariant.
LEMMA Inductive == IInv /\ [Next]_vars => IInv'
<1> SUFFICES ASSUME IInv, [Next]_vars PROVE IInv'
  OBVIOUS
<1>1. ASSUME NEW t \in Threads, Start(t) PROVE IInv'
  BY <1>1, StepGetParams, StepGetCaps, StepInitCapset DEF Start
<1>2. ASSUME NEW t \in Threads, Continue(t) PROVE IInv'
  BY <1>2, StepGetCapsInfo, StepStore, StepMaskRead, StepMaskWrite, StepInfoDone, StepAnswerParams,
     StepCheckSize, StepGetCapsPush, StepOverrunStops, StepCopyCaps DEF Continue
<1>3. CASE UNCHANGED vars
  <2>1. ASSUME NEW t \in Threads PROVE Local(t)'
    BY <1>3 DEF IInv, Local, Place, Filling, Getting, OfClient, Whole, vars
  <2> QED BY <1>3, <2>1 DEF IInv, TypeOK, DataOK, MaskOK, InitializedMeansFilled, CapsAnswered,
             AcceptedCapsetOffered, vars
<1> QED BY <1>1, <1>2, <1>3, StepHostAnswer, StepDpcSetEvent, StepRestart DEF Next

\* The invariant holds of every behaviour.
LEMMA Invariance == Spec => []IInv
  BY Initially, Inductive, PTL DEF Spec

-----------------------------------------------------------------------------
(* What a step of a thread does to the table.                              *)

ThreadStep(t) == Start(t) \/ Continue(t) \/ HostAnswer(t) \/ DpcSetEvent(t)

\* No step of a thread takes the table further from the host's.
LEMMA StepData ==
    ASSUME IInv, NEW t \in Threads, ThreadStep(t)
    PROVE  DataStep /\ starts' = starts /\ (Initialized => Initialized')
<1>1. CASE StoreId(t) \/ StoreSize(t) \/ StoreVersion(t)
  <2> DEFINE i == call[t].i
  <2>1. call[t].pc \in {"id", "size", "ver"} /\ i \in DOMAIN Host /\ call[t].resp = Host[i]
    BY <1>1, OfThread DEF StoreId, StoreSize, StoreVersion, Local, Place, Filling, AtEntry
  <2>2. Data \in [DOMAIN Host -> Entry] /\ \A j \in DOMAIN Host : Data[j] \in Entry
    BY DEF IInv, TypeOK
  <2>3. DataStep
    BY <1>1, <2>1, <2>2 DEF StoreId, StoreSize, StoreVersion, DataStep, FieldStep, Entry
  <2> QED BY <1>1, <2>3 DEF StoreId, StoreSize, StoreVersion
<1>2. CASE ~ (StoreId(t) \/ StoreSize(t) \/ StoreVersion(t))
  <2>1. Data' = Data /\ starts' = starts /\ (Initialized => Initialized')
    <3>1. ASSUME Start(t) PROVE UNCHANGED <<table, starts>>
      BY <3>1 DEF Start, CtlGetParams, CtlGetCaps, InitCapset
    <3>2. ASSUME HostAnswer(t) \/ DpcSetEvent(t) PROVE UNCHANGED <<table, starts>>
      BY <3>2 DEF HostAnswer, DpcSetEvent
    <3>3. ASSUME Continue(t) PROVE Data' = Data /\ starts' = starts /\ (Initialized => Initialized')
      BY <1>2, <3>3 DEF Continue, GetCapsInfo, MaskRead, MaskWrite, InfoDone, AnswerParams, CheckSize,
         GetCaps, OverrunStops, CopyCaps, table
    <3> QED BY <3>1, <3>2, <3>3 DEF ThreadStep, table
  <2> QED BY <2>1 DEF DataStep, FieldStep
<1> QED BY <1>1, <1>2

-----------------------------------------------------------------------------
(* The theorems.                                                            *)

\* The state of the table, the calls and the queue keeps its types.
THEOREM TypeCorrect == Spec => []TypeOK
<1>1. IInv => TypeOK
  BY DEF IInv
<1> QED BY <1>1, Invariance, PTL

\* Initialized (control.c:151) promises a table that is the host's, with any number of
\* first calls filling it at once and no lock.
THEOREM InitializedMeansFilledHolds == Spec => []InitializedMeansFilled
<1>1. IInv => InitializedMeansFilled
  BY DEF IInv
<1> QED BY <1>1, Invariance, PTL

\* CtlGetCaps answers with the capset that was asked for, as long as the buffer it checked,
\* and whole if its response fits, however the reads of the table interleave with those who
\* fill it.
THEOREM CapsAnsweredHolds == Spec => []CapsAnswered
<1>1. IInv => CapsAnswered
  BY DEF IInv
<1> QED BY <1>1, Invariance, PTL

\* CtlInitVirglContext accepts only capsets of the host, although updates of the mask are
\* lost and the mask survives a restart.
THEOREM AcceptedCapsetOfferedHolds == Spec => []AcceptedCapsetOffered
<1>1. IInv => AcceptedCapsetOffered
  BY DEF IInv
<1> QED BY <1>1, Invariance, PTL

\* Until the device is prepared again the flag stays set and what has been read of an entry
\* stays what it was, with any number of handlers filling the table at once.
THEOREM TableSettlesHolds == Spec => TableSettles
<1> DEFINE Settles ==
        starts' = starts =>
            /\ Initialized => Initialized'
            /\ \A i \in DOMAIN Host : /\ Data[i].id \in {0, Data'[i].id}
                                      /\ Data[i].size \in {0, Data'[i].size}
                                      /\ Data[i].ver \in {0, Data'[i].ver}
<1>1. IInv /\ [Next]_vars => [Settles]_vars
  <2> SUFFICES ASSUME IInv, Next PROVE Settles
    OBVIOUS
  <2>1. ASSUME NEW t \in Threads, ThreadStep(t) PROVE Settles
    BY <2>1, StepData DEF IInv, DataOK, FieldOK, DataStep, FieldStep
  <2>2. CASE Restart
    BY <2>2 DEF Restart, IInv, TypeOK
  <2> QED BY <2>1, <2>2 DEF Next, ThreadStep
<1> QED BY <1>1, Invariance, PTL DEF Spec, TableSettles
==============================================================================
