------------------------------ MODULE Promises ------------------------------
(***************************************************************************)
(* What the caller of a parallel execution is promised: the futures it is  *)
(* given are each resolved once, with the value of their node or with an   *)
(* error, and are not changed afterwards.                                  *)
(***************************************************************************)

CONSTANT Nodes        \* the nodes the execution may hand out a future for

VARIABLE promise      \* what the caller sees of each node's future

Init == promise \in [Nodes -> {"none", "pending"}]

Resolve(n) ==
  /\ promise[n] = "pending"
  /\ \E outcome \in {"value", "error"} : promise' = [promise EXCEPT ![n] = outcome]

Next == \E n \in Nodes : Resolve(n)

Safety == Init /\ [][Next]_promise

\* What weak fairness of Resolve(n), for every n, comes to.
Resolution == \A n \in Nodes : <>(promise[n] # "pending")

Spec == Safety /\ Resolution
=============================================================================
