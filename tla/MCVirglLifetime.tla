-------------------------- MODULE MCVirglLifetime --------------------------
(* An instance of VirglLifetime for TLC: two threads of a process and one of another. *)
EXTENDS VirglLifetime, TLC
CONSTANTS p1, p2, t1, t2, t3

TwoAndOne == t1 :> p1 @@ t2 :> p1 @@ t3 :> p2
Sym == Permutations({t1, t2})

\* No handler looks at the queues or at the host but to see whether a queue is full, which
\* only sets lost.  Once it is set, nothing the driver does depends on them any more and
\* the properties of the host say nothing: states that differ in them are one.
UntilLost == <<driver, act, free, nextCtx, nextRes, walks, lost,
               IF lost THEN <<>> ELSE <<control, command, host>>>>
=============================================================================
