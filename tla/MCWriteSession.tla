--------------------------- MODULE MCWriteSession ---------------------------
(* The instance of WriteSession for TLC.                                    *)
EXTENDS WriteSession, TLC

\* Nothing tells one worker, or one attempt number, from another.
Symmetry == Permutations(Workers) \cup Permutations(Attempts)

\* Two families of behaviours share one instance.  In one, the session is
\* loaded again by its id while at most one worker lives, and nothing is
\* written; in the other nobody loads it again, and two workers and two
\* attempts write.
Loaded == \E h \in Reloaders : handle[h].live
Wrote == \E p \in Pairs : writer[p].rows > 0
OpenedTwice == Cardinality({p \in Pairs : writer[p].state # "none"}) > 1
OneWorker == Cardinality({h \in Workers : handle[h].live}) <= 1

Families ==
  Loaded => OneWorker /\ ~Wrote /\ ~OpenedTwice /\ Cardinality(descriptors) <= 1
=============================================================================
