------------------------------ MODULE MCCapsets ------------------------------
(* A host with three capsets.  With PAGE = 4 and SGLIST_SIZE = 4 the response of  *)
(* the first takes exactly the three elements that are left beside the command,   *)
(* that of the second one more, which BuildSGElement does not refuse, that of the  *)
(* third two more, which it does.  They are asked for by id, version and size,     *)
(* rightly and wrongly.                                                            *)
EXTENDS Capsets

HostCapsets == <<[id |-> 1, size |-> 11, ver |-> 1], [id |-> 2, size |-> 15, ver |-> 2],
                 [id |-> 3, size |-> 16, ver |-> 1]>>

Asked == {[id |-> 1, size |-> 11, ver |-> 1], [id |-> 1, size |-> 15, ver |-> 0],
          [id |-> 2, size |-> 15, ver |-> 2], [id |-> 2, size |-> 11, ver |-> 3],
          [id |-> 3, size |-> 16, ver |-> 0], [id |-> 0, size |-> 11, ver |-> 0]}
=============================================================================
