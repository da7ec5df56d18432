------------------------------- MODULE PagePool -------------------------------
(***************************************************************************)
(* What the page allocator of memory.c promises its callers: a set of pages *)
(* each of which is free or belongs to one owner.  An owner without pages   *)
(* may take free ones, and an owner gives back its own.  How pages are       *)
(* searched for, and the hints, counters and lock this takes, are not        *)
(* visible.                                                                  *)
(***************************************************************************)
CONSTANTS Owners, PageSet

VARIABLES open,   \* the pool exists
          free,   \* the pages nobody owns
          owned   \* the pages of each owner

poolVars == <<open, free, owned>>

Init == open = FALSE /\ free = PageSet /\ owned = [o \in Owners |-> {}]

Open == ~open /\ open' = TRUE /\ UNCHANGED <<free, owned>>

Close ==
    /\ open
    /\ open' = FALSE
    /\ free' = PageSet
    /\ owned' = [o \in Owners |-> {}]

Take(o) ==
    /\ open
    /\ owned[o] = {}
    /\ \E S \in SUBSET free :
          /\ owned' = [owned EXCEPT ![o] = S]
          /\ free' = free \ S
    /\ UNCHANGED open

Give(o) ==
    /\ open
    /\ \E S \in SUBSET owned[o] :
          /\ owned' = [owned EXCEPT ![o] = owned[o] \ S]
          /\ free' = free \cup S
    /\ UNCHANGED open

Next == Open \/ Close \/ \E o \in Owners : Take(o) \/ Give(o)

Spec == Init /\ [][Next]_poolVars
=============================================================================
