------------------------------ MODULE MCDelay -------------------------------
(***************************************************************************)
(* The dags that Delay and ExecuteDAG are checked on.                      *)
(***************************************************************************)
EXTENDS Delay

Dag(s, e, r) == [size |-> s, edges |-> e, results |-> r]

\* Two expressions that share a cached one.
Shared == Dag(3, {<<1, 2>>, <<1, 3>>}, {2, 3})

MCGraphs ==
  { Dag(2, {}, {1, 2}),                          \* two expressions
    Dag(3, {<<2, 3>>}, {1, 3}),                  \* one, and one over a cached one
    Dag(3, {<<1, 3>>, <<2, 3>>}, {1, 2, 3}),     \* two, and their union
    Dag(4, {<<1, 3>>, <<2, 3>>, <<2, 4>>}, {3, 4}),
    Shared }

MCDelayGraphs == {Shared}
=============================================================================
