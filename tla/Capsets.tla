------------------------------- MODULE Capsets -------------------------------
(***************************************************************************)
(* The capability sets of the host: the driver's table of them (Capsets), the  *)
(* handlers that fill it and read it (CtlGetParams with GetCapsInfo, CtlGetCaps  *)
(* with GetCaps, the check of CtlInitVirglContext), the synchronous commands     *)
(* these push through CONTROL_QUEUE, and the DPC that wakes them.                *)
(*                                                                           *)
(* Nothing here takes a lock.  A handler is cut at every read and write of the   *)
(* table another thread can see, so the |= of the mask is a read and a write.    *)
(*                                                                           *)
(* Abstractions.  Sizes are in units of which PAGE make a page; the response     *)
(* header is one unit.  The ids of a device differ, so the scan of CtlGetCaps is *)
(* one step, at the moment it reads the entry that decides it.  The parameters   *)
(* other than the mask are read from the device and change nothing.  Handlers of *)
(* one process are serialised by virgl_screen_mutex: a thread stands for a       *)
(* process.  The device is stopped only when no handler runs; DeviceLifecycle    *)
(* is about the other case.                                                     *)
(***************************************************************************)
EXTENDS Integers, Sequences, FiniteSets, SequencesExt

CONSTANTS Threads,   \* handler threads, each of a process of its own
          Host,      \* the capsets of the device: a sequence of [id, size, ver]
          Requests,  \* what clients ask CtlGetCaps for: [id, size, ver]
          PAGE,      \* PAGE_SIZE
          RingSize,  \* slots of CONTROL_QUEUE
          MaxStarts  \* bound: times the device is prepared

SGLIST_SIZE == 4
Header == 1        \* sizeof(struct virtio_gpu_ctrl_hdr), and of each command
Entry == [id : Nat, size : Nat, ver : Nat]
Zero == [id |-> 0, size |-> 0, ver |-> 0]
HostIds == {Host[i].id : i \in DOMAIN Host}

\* The sizes are whatever the host says.  A client's buffer is never empty:
\* WdfRequestRetrieveOutputBuffer refuses that.
ASSUME CapsetsAssumption ==
    /\ Host \in Seq(Entry) /\ Requests \subseteq Entry
    /\ \A i \in DOMAIN Host : Host[i].id # 0
    /\ \A i, j \in DOMAIN Host : i # j => Host[i].id # Host[j].id
    /\ \A r \in Requests : r.size > 0
    /\ PAGE \in Nat \ {0} /\ RingSize \in Nat /\ MaxStarts \in Nat \ {0}

VARIABLES Initialized, Data, CapsetIdMask,   \* the global Capsets
          call,      \* what each thread is doing
          answer,    \* what its last call returned
          queued,    \* threads whose command the host has
          used,      \* threads whose command is completed and not yet fetched
          starts

table == <<Initialized, Data, CapsetIdMask>>
vars == <<Initialized, Data, CapsetIdMask, call, answer, queued, used, starts>>

\* i: the entry the call is at.  req: the CtlGetCaps request.  read: the mask as read by |=.
\* capset_id: the id GET_CAPSET names.  out, in: the lengths of the descriptors.  resp: what the host wrote.
Sg == Seq(1..PAGE)
Call == [pc : {"idle", "info", "infowait", "id", "size", "ver", "maskread", "maskwrite", "params",
               "check", "get", "getwait", "copy", "overrun"},
         i : 0..(Len(Host) + 1), req : Requests \cup {Zero}, read : SUBSET Nat, capset_id : Nat,
         out : Sg, in : Sg, resp : Entry]
Idle == [pc |-> "idle", i |-> 0, req |-> Zero, read |-> {}, capset_id |-> 0,
         out |-> <<>>, in |-> <<>>, resp |-> Zero]

\* of: "none" while the call runs or if it failed.  cap: the capset copied to the client,
\* with the length that was copied.
Answer == [of : {"none", "params", "caps", "init"}, mask : SUBSET Nat, req : Requests \cup {Zero},
           cap : Entry]
NoAnswer == [of |-> "none", mask |-> {}, req |-> Zero, cap |-> Zero]

\* ExAllocatePool2 zeroes the table.
Init ==
    /\ Initialized = FALSE
    /\ Data = [i \in DOMAIN Host |-> Zero]
    /\ CapsetIdMask = {}
    /\ call = [t \in Threads |-> Idle]
    /\ answer = [t \in Threads |-> NoAnswer]
    /\ queued = {} /\ used = {}
    /\ starts = 1

To(t, pc) == call' = [call EXCEPT ![t].pc = pc]
Begin(t, c) == call' = [call EXCEPT ![t] = c] /\ answer' = [answer EXCEPT ![t] = NoAnswer]
Return(t, a) == call' = [call EXCEPT ![t] = Idle] /\ answer' = [answer EXCEPT ![t] = a]

-----------------------------------------------------------------------------
(* Synchronous commands.                                                     *)

\* Slip: an empty piece after a last full page.
BuildOneMore(max, size) ==
    [k \in 1..(size \div PAGE + 1) |-> IF k <= size \div PAGE THEN PAGE ELSE size % PAGE]

\* BuildSGElement: a page at a time until the size is used up; nothing if the list
\* overflows, which the comparison notices one element late: element max + 1 has been written.
BuildSGElement(max, size) ==
    LET sgCount == (size + PAGE - 1) \div PAGE
        rest(k) == size - (k - 1) * PAGE
        length(k) == IF rest(k) < PAGE THEN rest(k) ELSE PAGE
    IN  IF sgCount > max + 1 THEN <<>> ELSE [k \in 1..sgCount |-> length(k)]

\* AllocateCommandBuffer and PushQueue; the callers ignore a full queue and wait.
Push(t, c, respSize) ==
    LET out == BuildSGElement(SGLIST_SIZE, Header)
        in == BuildSGElement(SGLIST_SIZE - Len(out), respSize)
    IN  /\ call' = [call EXCEPT ![t] = [c EXCEPT !.out = out, !.in = in]]
        /\ queued' = IF Cardinality(queued \cup used) < RingSize THEN queued \cup {t} ELSE queued

\* A response of this size fits the elements sg has beside that of the command.
Fits(size) == Header + size <= (SGLIST_SIZE - 1) * PAGE

\* What is in the response buffer afterwards: nothing if the list overflowed, and nothing or
\* all if its last element lies behind sg, where later writes may or may not reach it.
Written(c, resp) == CASE c.in = <<>> -> {Zero}
                      [] Len(c.out) + Len(c.in) > SGLIST_SIZE -> {Zero, resp}
                      [] OTHER -> {resp}

\* The host answers a command, in any order.
HostAnswer(t) ==
    LET c == call[t]
        caps == {h \in Range(Host) : h.id = c.capset_id /\ h.ver >= c.req.ver}
        resp == CASE c.pc = "infowait" -> Host[c.i]
                  [] c.pc = "getwait" /\ caps # {} -> CHOOSE h \in caps : TRUE
                  [] OTHER -> Zero
    IN  /\ t \in queued
        /\ queued' = queued \ {t} /\ used' = used \cup {t}
        /\ \E r \in Written(c, resp) : call' = [call EXCEPT ![t].resp = r]
        /\ UNCHANGED <<table, answer, starts>>

\* Slip: one interrupt, one buffer; the others that it announced are not looked at.
DpcFetchesOne(t) ==
    /\ t \in used
    /\ used' = {}
    /\ To(t, IF call[t].pc = "infowait" THEN "id" ELSE "copy")
    /\ UNCHANGED <<table, answer, queued, starts>>

\* VirtioVgpuReadFromQueue sets the event of the buffer; the waiting thread goes on.
DpcSetEvent(t) ==
    /\ t \in used
    /\ used' = used \ {t}
    /\ To(t, IF call[t].pc = "infowait" THEN "id" ELSE "copy")
    /\ UNCHANGED <<table, answer, queued, starts>>

-----------------------------------------------------------------------------
(* CtlGetParams.                                                            *)

CtlGetParams(t) ==
    /\ call[t].pc = "idle"
    /\ Begin(t, [Idle EXCEPT !.i = 1, !.pc = IF Initialized THEN "params" ELSE "info"])
    /\ UNCHANGED <<table, queued, used, starts>>

\* The loop of GetCapsInfo: a command for entry i, and the wait for its event.
GetCapsInfo(t) ==
    /\ call[t].pc = "info" /\ call[t].i <= Len(Host)
    /\ Push(t, [call[t] EXCEPT !.pc = "infowait"], 2 * Header)
    /\ UNCHANGED <<table, answer, used, starts>>

\* Slip: the entry is cleared before it is filled.
StoreIdAlone(t) ==
    /\ call[t].pc = "id"
    /\ Data' = [Data EXCEPT ![call[t].i] = [Zero EXCEPT !.id = call[t].resp.id]]
    /\ To(t, "size")
    /\ UNCHANGED <<Initialized, CapsetIdMask, answer, queued, used, starts>>

\* The three fields of the entry, one after the other.
StoreId(t) ==
    /\ call[t].pc = "id"
    /\ Data' = [Data EXCEPT ![call[t].i].id = call[t].resp.id]
    /\ To(t, "size")
    /\ UNCHANGED <<Initialized, CapsetIdMask, answer, queued, used, starts>>

StoreSize(t) ==
    /\ call[t].pc = "size"
    /\ Data' = [Data EXCEPT ![call[t].i].size = call[t].resp.size]
    /\ To(t, "ver")
    /\ UNCHANGED <<Initialized, CapsetIdMask, answer, queued, used, starts>>

StoreVersion(t) ==
    /\ call[t].pc = "ver"
    /\ Data' = [Data EXCEPT ![call[t].i].ver = call[t].resp.ver]
    /\ To(t, "maskread")
    /\ UNCHANGED <<Initialized, CapsetIdMask, answer, queued, used, starts>>

\* Capsets.CapsetIdMask |= 1LL << capset_id: the read ...
MaskRead(t) ==
    /\ call[t].pc = "maskread"
    /\ call' = [call EXCEPT ![t].read = CapsetIdMask, ![t].pc = "maskwrite"]
    /\ UNCHANGED <<table, answer, queued, used, starts>>

\* Slip: the bit of the index, not of the id.
MaskWriteIndex(t) ==
    /\ call[t].pc = "maskwrite"
    /\ CapsetIdMask' = call[t].read \cup {call[t].i - 1}
    /\ call' = [call EXCEPT ![t] = [Idle EXCEPT !.pc = "info", !.i = call[t].i + 1]]
    /\ UNCHANGED <<Initialized, Data, answer, queued, used, starts>>

\* ... and the write; the buffer is freed and the loop goes on.
MaskWrite(t) ==
    /\ call[t].pc = "maskwrite"
    /\ CapsetIdMask' = call[t].read \cup {call[t].resp.id}
    /\ call' = [call EXCEPT ![t] = [Idle EXCEPT !.pc = "info", !.i = call[t].i + 1]]
    /\ UNCHANGED <<Initialized, Data, answer, queued, used, starts>>

InfoDone(t) ==
    /\ call[t].pc = "info" /\ call[t].i > Len(Host)
    /\ Initialized' = TRUE
    /\ To(t, "params")
    /\ UNCHANGED <<Data, CapsetIdMask, answer, queued, used, starts>>

\* VIRTGPU_PARAM_SUPPORTED_CAPSET_IDs
AnswerParams(t) ==
    /\ call[t].pc = "params"
    /\ Return(t, [NoAnswer EXCEPT !.of = "params", !.mask = CapsetIdMask])
    /\ UNCHANGED <<table, queued, used, starts>>

-----------------------------------------------------------------------------
(* CtlGetCaps.                                                              *)

Matches(r) == {i \in DOMAIN Host : Data[i].id = r.id /\ Data[i].ver >= r.ver}

\* The scan: the first entry that matches, or an error.
CtlGetCaps(t, r) ==
    /\ call[t].pc = "idle"
    /\ IF Matches(r) = {} THEN Return(t, NoAnswer)
       ELSE \E i \in Matches(r) :
                /\ \A j \in Matches(r) : i <= j
                /\ Begin(t, [Idle EXCEPT !.i = i, !.req = r, !.pc = "check"])
    /\ UNCHANGED <<table, queued, used, starts>>

\* Slip: the size of the client's buffer is not compared.
SkipSizeCheck(t) ==
    /\ call[t].pc = "check"
    /\ To(t, "get") /\ UNCHANGED answer
    /\ UNCHANGED <<table, queued, used, starts>>

\* The client's buffer has to have the size of the capset.
CheckSize(t) ==
    /\ call[t].pc = "check"
    /\ IF call[t].req.size = Data[call[t].i].size THEN To(t, "get") /\ UNCHANGED answer
       ELSE Return(t, NoAnswer)
    /\ UNCHANGED <<table, queued, used, starts>>

\* GetCaps: the command names the id of the table, now, and the version of the request.
GetCaps(t) ==
    LET d == Data[call[t].i]
    IN  /\ call[t].pc = "get"
        /\ Push(t, [call[t] EXCEPT !.pc = "getwait", !.capset_id = d.id], Header + d.size)
        /\ UNCHANGED <<table, answer, used, starts>>

\* The element written behind sg hits something the machine does not survive.
OverrunStops(t) ==
    /\ call[t].pc = "get" /\ ~Fits(Data[call[t].i].size)
    /\ To(t, "overrun")
    /\ UNCHANGED <<table, answer, queued, used, starts>>

\* RtlCopyMemory of max_size, read again, into the client's buffer.
CopyCaps(t) ==
    LET c == call[t]
    IN  /\ c.pc = "copy"
        /\ Return(t, [NoAnswer EXCEPT !.of = "caps", !.req = c.req,
                                      !.cap = [c.resp EXCEPT !.size = Data[c.i].size]])
        /\ UNCHANGED <<table, queued, used, starts>>

-----------------------------------------------------------------------------
\* VIRTGPU_CONTEXT_PARAM_CAPSET_ID of CtlInitVirglContext: refused if its bit is clear.
InitCapset(t, id) ==
    /\ call[t].pc = "idle"
    /\ IF id \in CapsetIdMask
       THEN Return(t, [NoAnswer EXCEPT !.of = "init", !.cap = [Zero EXCEPT !.id = id]])
       ELSE Return(t, NoAnswer)
    /\ UNCHANGED <<table, queued, used, starts>>

\* Slip: the flag survives.
RestartKeepsFlag ==
    /\ starts < MaxStarts /\ \A t \in Threads : call[t].pc = "idle"
    /\ Data' = [i \in DOMAIN Host |-> Zero]
    /\ answer' = [t \in Threads |-> NoAnswer]
    /\ starts' = starts + 1
    /\ UNCHANGED <<Initialized, CapsetIdMask, call, queued, used>>

\* ReleaseHardware frees the table, PrepareHardware allocates a new one and clears the
\* flag; the mask keeps its bits.
Restart ==
    /\ starts < MaxStarts /\ \A t \in Threads : call[t].pc = "idle"
    /\ Initialized' = FALSE
    /\ Data' = [i \in DOMAIN Host |-> Zero]
    /\ answer' = [t \in Threads |-> NoAnswer]
    /\ starts' = starts + 1
    /\ UNCHANGED <<CapsetIdMask, call, queued, used>>

-----------------------------------------------------------------------------
Start(t) ==
    \/ CtlGetParams(t)
    \/ \E r \in Requests : CtlGetCaps(t, r)
    \/ \E id \in 0..(Len(Host) + 1) : InitCapset(t, id)

Continue(t) ==
    \/ GetCapsInfo(t) \/ StoreId(t) \/ StoreSize(t) \/ StoreVersion(t) \/ MaskRead(t) \/ MaskWrite(t)
    \/ InfoDone(t) \/ AnswerParams(t) \/ CheckSize(t) \/ GetCaps(t) \/ OverrunStops(t)
    \/ CopyCaps(t)

Next ==
    \/ \E t \in Threads : Start(t) \/ Continue(t) \/ HostAnswer(t) \/ DpcSetEvent(t)
    \/ Restart

Spec == Init /\ [][Next]_vars

\* A started handler runs on, the host answers, and the interrupt brings the DPC.
Fairness ==
    \A t \in Threads : WF_vars(Continue(t)) /\ WF_vars(HostAnswer(t)) /\ WF_vars(DpcSetEvent(t))

FairSpec == Spec /\ Fairness

-----------------------------------------------------------------------------
\* The types of the state.
TypeOK ==
    /\ Initialized \in BOOLEAN
    /\ Data \in [DOMAIN Host -> Entry]
    /\ CapsetIdMask \in SUBSET Nat
    /\ call \in [Threads -> Call]
    /\ answer \in [Threads -> Answer]
    /\ queued \subseteq Threads /\ used \subseteq Threads
    /\ starts \in 1..MaxStarts

\* Once Initialized is set (control.c:151) the table is the host's, although several
\* first calls fill it at once, without a lock, and a restart empties it.
InitializedMeansFilled == Initialized => Data = Host

\* CtlGetCaps answers with the capset that was asked for, and copies no more than the
\* buffer it checked, although the table is read at four moments while others fill it; a
\* response that fits its descriptors comes whole.  (The driver checks that it fits nowhere,
\* and a request for id 0 can match an entry that is still zero.)
CapsAnswered ==
    \A t \in Threads : answer[t].of = "caps" /\ answer[t].req.id # 0 =>
        \E i \in DOMAIN Host :
            /\ answer[t].req.id = Host[i].id /\ answer[t].req.ver <= Host[i].ver
            /\ answer[t].req.size = Host[i].size /\ answer[t].cap.size = Host[i].size
            /\ Fits(Host[i].size) => answer[t].cap = Host[i]

\* CtlInitVirglContext accepts a capset only if the host has it: no bit of the mask is
\* ever set for anything else, before, during or after a restart.
AcceptedCapsetOffered ==
    \A t \in Threads : answer[t].of = "init" => answer[t].cap.id \in HostIds

\* Until the device is prepared again the table only fills up: the flag stays set, and a
\* field that has been seen nonzero keeps its value, whoever else fills the table.  The
\* size CtlGetCaps compares, allocates for and copies is read three times and has to be one.
TableSettles ==
    [][starts' = starts =>
        /\ Initialized => Initialized'
        /\ \A i \in DOMAIN Host : /\ Data[i].id \in {0, Data'[i].id}
                                  /\ Data[i].size \in {0, Data'[i].size}
                                  /\ Data[i].ver \in {0, Data'[i].ver}]_vars

\* "Bitmask of supported capability set ids" (ioctl.h:93): the mask a client is given is
\* that of the host's capsets.
SupportedMask == \A t \in Threads : answer[t].of = "params" => answer[t].mask = HostIds

\* A call returns, its command being queued, answered and its event set, unless the machine
\* has stopped.
CallsReturn == \A t \in Threads : call[t].pc # "idle" ~> call[t].pc \in {"idle", "overrun"}
=============================================================================
