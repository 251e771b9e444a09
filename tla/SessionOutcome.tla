--------------------------- MODULE SessionOutcome ---------------------------
(***************************************************************************)
(* What the handles of one batch write session promise about its fate.     *)
(* The session ends at most once, committed or aborted, and a handle that  *)
(* reports an end reports the one that happened.  A handle may report      *)
(* nothing, before it knows and again after it has been closed.            *)
(***************************************************************************)
CONSTANT Handles

VARIABLES
  outcome,   \* what became of the session at the service
  told       \* told[h]: what handle h reports of it

Ends == {"committed", "aborted"}

Init == outcome = "open" /\ told = [h \in Handles |-> "nothing"]

End == outcome = "open" /\ outcome' \in Ends /\ UNCHANGED told

Report(h) ==
  /\ outcome \in Ends
  /\ told' = [told EXCEPT ![h] = outcome]
  /\ UNCHANGED outcome

Forget(h) == told' = [told EXCEPT ![h] = "nothing"] /\ UNCHANGED outcome

Next == End \/ \E h \in Handles : Report(h) \/ Forget(h)

Spec == Init /\ [][Next]_<<outcome, told>>
=============================================================================
