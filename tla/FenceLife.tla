------------------------------ MODULE FenceLife ------------------------------
(***************************************************************************)
(* What the driver promises of a fence id that it hands out: it belongs to   *)
(* one submission, which is prepared, queued and completed by the host once, *)
(* in this order, and only then is its fence object set, once and for good.  *)
(* Ids are handed out in order.  Unless calls can fail or the queue can be    *)
(* full, no submission is dropped on the way.  Threads, DPCs, rings and the   *)
(* order of completions are not visible.                                      *)
(***************************************************************************)
EXTENDS Integers

CONSTANTS FenceIds,  \* the ids that can be handed out
          Lossy      \* a submission may fail after it has taken its id

VARIABLE stage       \* of each id

Init == stage = [f \in FenceIds |-> "unissued"]

Advance(f, from, to) == stage[f] = from /\ stage' = [stage EXCEPT ![f] = to]

Issue(f) ==
    /\ \A g \in FenceIds : g < f => stage[g] # "unissued"
    /\ Advance(f, "unissued", "preparing") \/ (Lossy /\ Advance(f, "unissued", "lost"))

Queue(f) == Advance(f, "preparing", "queued") \/ (Lossy /\ Advance(f, "preparing", "lost"))

Complete(f) == Advance(f, "queued", "completed")

Signal(f) == Advance(f, "completed", "signalled")

Next == \E f \in FenceIds : Issue(f) \/ Queue(f) \/ Complete(f) \/ Signal(f)

Spec == Init /\ [][Next]_stage
=============================================================================
