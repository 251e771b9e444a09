------------------------------- MODULE Delay --------------------------------
(***************************************************************************)
(* Delay.execute of odps/df/delay.py, which runs the calls registered with *)
(* it as one dag in parallel and relays the engine's futures to those the  *)
(* user was given when the calls were registered.  It stands on ExecuteDAG *)
(* with wait = FALSE; when it is not used the model is that of a direct    *)
(* execution.  Node n stands for the call that the result node n executes, *)
(* and only the synchronous form, async_=False, is modelled.               *)
(***************************************************************************)
EXTENDS ExecuteDAG

CONSTANT DelayGraphs    \* bound: the dags that are run by Delay.execute

\* Without a call execute returns at once.
ASSUME DelayAssumption ==
  DelayGraphs \subseteq Graphs /\ \A g \in DelayGraphs : g.results # {}

VARIABLES
  delayed,    \* whether the dag is run by Delay.execute
  place,      \* where Delay.execute is
  at,         \* the node its loop over the futures has reached
  running,    \* _running
  entries,    \* the calls in _calls, _futures and _wrappers
  user,       \* the future the user was given for a call
  relay       \* per call: the relay_future callback on the engine's future

delayVars == <<delayed, place, at, running, entries, user, relay>>
allVars == <<vars, delayVars>>

UserResolved(n) == user[n] \in {"value", "error"}

\* The element of a set of nodes the loop comes to first, or 0.
First(s) == IF s = {} THEN 0 ELSE CHOOSE n \in s : \A m \in s : n <= m

DelayInit ==
  /\ Init
  /\ delayed \in BOOLEAN
  /\ delayed => ~wait /\ graph \in DelayGraphs
  /\ place = IF delayed THEN "batch" ELSE "unused"
  /\ at = 0
  /\ running = FALSE
  /\ entries = graph.results
  /\ user = [n \in Nodes |-> "pending"]
  /\ relay = [n \in Nodes |-> "none"]

-----------------------------------------------------------------------------
Kept(n) == entries                                     \* mutant: del is missing
Removed(n) == entries \ {n}

(* relay_future(src, index, dest), under the lock of the Delay object: the  *)
(* user's future is resolved and the call removed.                          *)
Relay(n) ==
  /\ user' = [user EXCEPT ![n] = future[<<1, n>>]]
  /\ entries' = Removed(n)

\* engine.batch has returned its futures.
Batched ==
  /\ place = "batch" /\ ended = "returned"
  /\ running' = TRUE
  /\ at' = First(graph.results)
  /\ place' = "attach"
  /\ UNCHANGED <<delayed, entries, user, relay>>

\* add_done_callback calls relay_future at once when the future is done.
Attach ==
  /\ place = "attach"
  /\ place' = "test"
  /\ IF Resolved(<<1, at>>)
     THEN Relay(at) /\ UNCHANGED relay
     ELSE /\ user' = [user EXCEPT ![at] = "running"]
          /\ relay' = [relay EXCEPT ![at] = "registered"]
          /\ UNCHANGED entries
  /\ UNCHANGED <<delayed, at, running>>

\* To the next future, or to wait(_futures).
Advance ==
  LET rest == {n \in graph.results : n > at}
  IN at' = First(rest) /\ place' = IF rest = {} THEN "wait" ELSE "attach"

\* if bf.done(), and in relay_future if dest.done(), before the lock.
Test ==
  /\ place = "test"
  /\ IF Resolved(<<1, at>>) /\ ~UserResolved(at)
     THEN place' = "relay" /\ UNCHANGED at
     ELSE Advance
  /\ UNCHANGED <<delayed, running, entries, user, relay>>

\* In the caller's thread, del self._calls[index] raises KeyError when the
\* callback was faster.
RelayInCaller ==
  /\ place = "relay"
  /\ IF at \in entries
     THEN Relay(at) /\ Advance
     ELSE place' = "raised" /\ UNCHANGED <<at, user, entries>>
  /\ UNCHANGED <<delayed, running, relay>>

\* wait(_futures), uf.result() and the finally clause.
WaitForUser ==
  /\ place = "wait"
  /\ \A n \in graph.results : UserResolved(n)
  /\ place' = IF \A n \in graph.results : user[n] = "value" THEN "returned" ELSE "raised"
  /\ running' = FALSE
  /\ UNCHANGED <<delayed, at, entries, user, relay>>

DelayStep ==
  (Batched \/ Attach \/ Test \/ RelayInCaller \/ WaitForUser) /\ UNCHANGED vars

\* The callback, in the thread that resolved the engine's future; it logs
\* what relay_future raises.  The test of dest.done() and the rest are one
\* step: whatever comes between them ends in the same state.
Callback(n) ==
  /\ relay[n] = "called"
  /\ relay' = [relay EXCEPT ![n] = "over"]
  /\ IF UserResolved(n) THEN UNCHANGED <<user, entries>> ELSE Relay(n)
  /\ UNCHANGED <<vars, delayed, place, at, running>>

\* A thread of the dag goes on; resolving a future calls its callbacks.
DagStep(A) ==
  /\ A
  /\ relay' = [n \in Nodes |-> IF relay[n] = "registered" /\ future'[<<1, n>>] \in {"value", "error"}
                               THEN "called" ELSE relay[n]]
  /\ UNCHANGED <<delayed, place, at, running, entries, user>>

DelayNext ==
  \/ DagStep(Next)
  \/ DelayStep
  \/ \E n \in Nodes : Callback(n)

(* As for ExecuteDAG, every thread goes on.                                 *)
FairTask(t) == WF_allVars(DagStep(TaskStep(t)))
FairRun(k) == WF_allVars(DagStep(RunStep(k)))
FairCaller == WF_allVars(DagStep(CallerStep))
FairDelay == WF_allVars(DelayStep)
FairCallback(n) == WF_allVars(Callback(n))

Fairness ==
  /\ \A t \in Tasks : FairTask(t)
  /\ \A k \in Runs : FairRun(k)
  /\ FairCaller /\ FairDelay
  /\ \A n \in Nodes : FairCallback(n)

DelaySpec == DelayInit /\ [][DelayNext]_allVars /\ Fairness
-----------------------------------------------------------------------------
(* Whichever thread relays, the user's future of a call tells what the      *)
(* engine's tells, a call is kept exactly until its future is resolved, and *)
(* an execution that returns has resolved all of them with values.          *)
RelaysAreTrue ==
  delayed =>
    /\ \A n \in graph.results :
         /\ UserResolved(n) => user[n] = future[<<1, n>>]
         /\ n \in entries <=> ~UserResolved(n)
    /\ place = "returned" => entries = {} /\ ~running /\ \A n \in graph.results : user[n] = "value"

\* The guards that fairness holds the threads to.
TaskGuard(t) ==
  \/ state[t] \in {"calling", "falling", "leaving"}
  \/ state[t] = "queued" /\ ThreadFree(t[1])
RunGuard(k) ==
  \/ Looping(k)
  \/ k \in 2..opened /\ loop[k] = graph.size /\ state[<<1, opener[k]>>] = "looping"
  \/ k \in 2..opened /\ state[<<1, opener[k]>>] = "waiting" /\ \A f \in awaited[k] : Resolved(f)
CallerGuard ==
  /\ ended = "no"
  /\ IF awaited[1] = {} THEN loop[1] = graph.size ELSE \A f \in awaited[1] : Resolved(f)
DelayGuard ==
  \/ place = "batch" /\ ended = "returned"
  \/ place \in {"attach", "test", "relay"}
  \/ place = "wait" /\ \A n \in graph.results : UserResolved(n)
CallbackGuard(n) == relay[n] = "called"

TaskCan(t) == TaskGuard(t) => ENABLED <<DagStep(TaskStep(t))>>_allVars
RunCan(k) == RunGuard(k) => ENABLED <<DagStep(RunStep(k))>>_allVars
CallerCan == CallerGuard => ENABLED <<DagStep(CallerStep)>>_allVars
DelayCan == DelayGuard => ENABLED <<DelayStep>>_allVars
CallbackCan(n) == CallbackGuard(n) => ENABLED <<Callback(n)>>_allVars

GuardsSuffice ==
  /\ \A t \in Tasks : TaskCan(t)
  /\ \A k \in Runs : RunCan(k)
  /\ CallerCan /\ DelayCan
  /\ \A n \in Nodes : CallbackCan(n)

(* Nobody who has a step to make is kept from it, and so every call ends: a *)
(* direct execution, if it waits, as long as no node falls back to another  *)
(* engine, and Delay.execute always.                                        *)
CallsEnd ==
  /\ []GuardsSuffice
  /\ (wait /\ <>fallback) \/ <>(ended # "no")
  /\ delayed => <>(place = "returned" \/ place = "raised")
=============================================================================
