----------------------------- MODULE ExecuteDAG -----------------------------
(***************************************************************************)
(* Parallel execution of a compiled DataFrame expression:                  *)
(* ExecuteDAG._run_in_parallel of odps/df/backends/core.py.                *)
(*                                                                         *)
(* A dag of nodes is run by a thread pool.  Every node has a future; the   *)
(* futures of the result nodes are what an asynchronous caller is given.   *)
(* A node whose engine cannot run it makes the thread that runs it compile *)
(* the whole dag again for another engine and run that, with new futures   *)
(* for the inner nodes and the same futures for the result nodes.  Run 1   *)
(* is the dag itself, every further run one such fallback.  Nodes are      *)
(* numbered in topological order, and the dag of a fallback has the shape  *)
(* of the first.                                                           *)
(***************************************************************************)
EXTENDS Naturals, FiniteSets

CONSTANTS
  Graphs,       \* the dags: number of nodes, edges, result nodes
  NParallel,    \* n_parallel, threads of one pool
  N,            \* bound: nodes of a dag
  MaxRuns,      \* bound: runs of a dag, the first one included
  MaxTasks      \* bound: nodes of all the runs of a dag together

Nodes == 1..N
Runs == 1..MaxRuns

ASSUME ExecuteAssumption ==
  /\ {N, NParallel, MaxRuns, MaxTasks} \subseteq Nat \ {0}
  /\ \A g \in Graphs :
       /\ g.size \in Nodes
       /\ g.edges \subseteq {e \in (1..g.size) \X (1..g.size) : e[1] < e[2]}
       /\ g.results \subseteq 1..g.size

VARIABLES
  graph,      \* the dag that is executed
  wait,       \* the argument wait: TRUE unless execute(async_=True)
  fallback,   \* the event `fallback` of the first run
  opened,     \* runs started so far
  loop,       \* per run: the node the loop that submits has reached (`call`)
  opener,     \* per run: the node of run 1 whose thread started it
  state,      \* per task: new, queued in its pool, or where its thread is
  future,     \* per task: its future, those of result nodes kept for run 1
  results,    \* tasks with an entry in the dictionary `results`
  awaited,    \* per run: the futures wait_futures was given
  ended,      \* how _run_in_parallel ended: "no", "returned", "raised"
  called,     \* history: how often a task's node was called
  outcome     \* history: how that call ended

vars == <<graph, wait, fallback, opened, loop, opener, state, future,
          results, awaited, ended, called, outcome>>

-----------------------------------------------------------------------------
Tasks == Runs \X Nodes

Predecessors(n) == {p \in Nodes : <<p, n>> \in graph.edges}
Successors(n) == {s \in Nodes : <<n, s>> \in graph.edges}
Roots == {n \in Nodes : Predecessors(n) = {}}

\* user_wait: a fallback creates no new future for a result node.
FutureOf(t) == IF t[2] \in graph.results THEN <<1, t[2]>> ELSE t

Resolved(f) == future[f] \in {"value", "error"}

\* A free thread of run k's pool.
ThreadFree(k) ==
  Cardinality({n \in Nodes : state[<<k, n>>] \notin {"new", "queued", "finished"}}) < NParallel

Init ==
  /\ graph \in Graphs
  /\ wait \in BOOLEAN
  /\ fallback = FALSE
  /\ opened = 1
  /\ loop = [k \in Runs |-> 0]
  /\ opener = [k \in Runs |-> 0]
  /\ state = [t \in Tasks |-> "new"]
  /\ future = [t \in Tasks |-> "pending"]
  /\ results = {}
  /\ awaited = [k \in Runs |-> {}]
  /\ ended = "no"
  /\ called = [t \in Tasks |-> 0]
  /\ outcome = [t \in Tasks |-> "none"]

-----------------------------------------------------------------------------
(* The loop that submits the nodes without predecessors, in the thread of   *)
(* the caller or, for a fallback, of the node that failed.                  *)

\* The thread of run k's loop is in it.
Looping(k) ==
  /\ k <= opened
  /\ loop[k] < graph.size
  /\ k > 1 => state[<<1, opener[k]>>] = "looping"

SubmitNext(k) ==
  /\ Looping(k)
  /\ LET n == loop[k] + 1 IN
       /\ loop' = [loop EXCEPT ![k] = n]
       /\ state' = IF n \in Roots THEN [state EXCEPT ![<<k, n>>] = "queued"] ELSE state
  /\ UNCHANGED <<graph, wait, fallback, opened, opener, future, results, awaited,
                 ended, called, outcome>>

\* user_wait.values(), the futures of every run there is by now.
UserWait == {FutureOf(t) : t \in (1..opened) \X (1..graph.size)}

\* wait_futures in the caller's thread, or at once the list of futures.
LoopEnds ==
  /\ loop[1] = graph.size
  /\ ended = "no"
  /\ awaited[1] = {}
  /\ IF wait
     THEN awaited' = [awaited EXCEPT ![1] = UserWait] /\ UNCHANGED ended
     ELSE ended' = "returned" /\ UNCHANGED awaited
  /\ UNCHANGED <<graph, wait, fallback, opened, loop, opener, state, future,
                 results, called, outcome>>

\* The result nodes of the first run all have a result in `results`.
Collected == \A n \in graph.results : <<1, n>> \in results

\* A KeyError is raised for a node without an entry.
WaitEnds ==
  /\ ended = "no"
  /\ awaited[1] # {}
  /\ \A f \in awaited[1] : Resolved(f)
  /\ ended' = IF Collected /\ \A f \in awaited[1] : future[f] = "value"
              THEN "returned" ELSE "raised"
  /\ UNCHANGED <<graph, wait, fallback, opened, loop, opener, state, future,
                 results, awaited, called, outcome>>

-----------------------------------------------------------------------------
(* run(func), in a thread of the pool.  A step ends where another thread    *)
(* may see a difference: before the call of the node, after it, between the *)
(* test of the event and fallback.set(), before the finally clause.         *)

Goto(t, place) == state' = [state EXCEPT ![t] = place]

\* The finally clause does nothing for a node without successors.
Last(t) == IF Successors(t[2]) = {} THEN "finished" ELSE "leaving"

Ignored(f) == future                                   \* mutant: nothing is set
AsNoResult(f) == [future EXCEPT ![f] = "value"]        \* mutant: set_result(None)
AfterException(f) == IF Resolved(f) THEN future ELSE [future EXCEPT ![f] = "error"]

\* The last part of the handler: set_exception, which raises if the future
\* is resolved, unless there is a fallback.
Fails(t) ==
  /\ Goto(t, Last(t))
  /\ IF t[1] = 1 /\ fallback
     THEN UNCHANGED <<results, future>>
     ELSE /\ results' = results \cup {t}
          /\ future' = AfterException(FutureOf(t))

\* The test is of `call`, the node the loop has reached, not of this one.
MarksRunning(t) == t[1] = 1 \/ loop[t[1]] \notin graph.results

\* Raised before the node is called: the event is set, the future was not
\* pending when it was to be marked, or a predecessor has failed.
Refused(t) ==
  \/ t[1] = 1 /\ fallback
  \/ MarksRunning(t) /\ future[FutureOf(t)] # "pending"
  \/ \E p \in Predecessors(t[2]) : future[FutureOf(<<t[1], p>>)] = "error"

\* A thread of the pool takes the node; which of those queued is left open.
Begin(t) ==
  /\ state[t] = "queued" /\ ThreadFree(t[1])
  /\ IF Refused(t)
     THEN Fails(t) /\ UNCHANGED called
     ELSE /\ Goto(t, "calling")
          /\ called' = [called EXCEPT ![t] = @ + 1]
          /\ future' = IF MarksRunning(t) THEN [future EXCEPT ![FutureOf(t)] = "running"]
                       ELSE future
          /\ UNCHANGED results
  /\ UNCHANGED <<graph, wait, fallback, opened, loop, opener, awaited, ended, outcome>>

\* set_result raises if the future is resolved; the handler then fails too.
Returns(t) ==
  /\ state[t] = "calling"
  /\ outcome' = [outcome EXCEPT ![t] = "value"]
  /\ results' = results \cup {t}
  /\ future' = IF Resolved(FutureOf(t)) THEN future
               ELSE [future EXCEPT ![FutureOf(t)] = "value"]
  /\ Goto(t, Last(t))
  /\ UNCHANGED <<graph, wait, fallback, opened, loop, opener, awaited, ended,
                 called>>

Raises(t) ==
  /\ state[t] = "calling"
  /\ outcome' = [outcome EXCEPT ![t] = "error"]
  /\ Fails(t)
  /\ UNCHANGED <<graph, wait, fallback, opened, loop, opener, awaited, ended,
                 called>>

\* The engine cannot run the node, and no other thread has set the event.
Unsupported(t) ==
  /\ state[t] = "calling"
  /\ t[1] = 1 /\ ~fallback
  /\ LET runs == opened + Cardinality({n \in Nodes : state[<<1, n>>] = "falling"}) + 1
     IN runs <= MaxRuns /\ runs * graph.size <= MaxTasks
  /\ outcome' = [outcome EXCEPT ![t] = "unsupported"]
  /\ Goto(t, "falling")
  /\ UNCHANGED <<graph, wait, fallback, opened, loop, opener, future, results,
                 awaited, ended, called>>

\* fallback.set(), dag.fallback(), and the start of actual_run.
FallBack(t) ==
  /\ state[t] = "falling"
  /\ fallback' = TRUE
  /\ opened' = opened + 1
  /\ opener' = [opener EXCEPT ![opened + 1] = t[2]]
  /\ Goto(t, "looping")
  /\ UNCHANGED <<graph, wait, loop, future, results, awaited, ended, called,
                 outcome>>

\* actual_run of a fallback waits too, or returns.
FallbackSubmitted(k) ==
  /\ k \in 2..opened
  /\ loop[k] = graph.size
  /\ state[<<1, opener[k]>>] = "looping"
  /\ IF wait
     THEN Goto(<<1, opener[k]>>, "waiting") /\ awaited' = [awaited EXCEPT ![k] = UserWait]
     ELSE Goto(<<1, opener[k]>>, Last(<<1, opener[k]>>)) /\ UNCHANGED awaited
  /\ UNCHANGED <<graph, wait, fallback, opened, loop, opener, future, results,
                 ended, called, outcome>>

FallbackEnds(k) ==
  /\ k \in 2..opened
  /\ state[<<1, opener[k]>>] = "waiting"
  /\ \A f \in awaited[k] : Resolved(f)
  /\ Goto(<<1, opener[k]>>, Last(<<1, opener[k]>>))
  /\ UNCHANGED <<graph, wait, fallback, opened, loop, opener, future, results,
                 awaited, ended, called, outcome>>

Submitted(t) == state[t] # "new"

NoTest(t) == FALSE                                     \* mutant: f in submits
InSubmits(t) == Submitted(t)

LeftThePool(t) == state[t] = "finished"                \* mutant: done() too late
Done(t) == Submitted(t) /\ Resolved(FutureOf(t))

\* Nodes not submitted whose predecessors are all submitted and done.
Ready(t) ==
  {s \in Successors(t[2]) :
     /\ ~InSubmits(<<t[1], s>>)
     /\ \A p \in Predecessors(s) : Done(<<t[1], p>>)}

\* The finally clause, under submits_lock.
Leave(t) ==
  /\ state[t] = "leaving"
  /\ state' = [u \in Tasks |-> IF u = t THEN "finished"
                               ELSE IF u[1] = t[1] /\ u[2] \in Ready(t) THEN "queued"
                               ELSE state[u]]
  /\ UNCHANGED <<graph, wait, fallback, opened, loop, opener, future, results, awaited,
                 ended, called, outcome>>

TaskStep(t) ==
  \/ Begin(t) \/ Returns(t) \/ Raises(t) \/ Unsupported(t) \/ FallBack(t) \/ Leave(t)

RunStep(k) == SubmitNext(k) \/ FallbackSubmitted(k) \/ FallbackEnds(k)

CallerStep == LoopEnds \/ WaitEnds

Next == \/ \E t \in Tasks : TaskStep(t)
        \/ \E k \in Runs : RunStep(k)
        \/ CallerStep

(* Every thread goes on, and every node's call ends: nothing in this code   *)
(* can interrupt one.                                                       *)
Spec ==
  /\ Init /\ [][Next]_vars
  /\ \A t \in Tasks : WF_vars(TaskStep(t))
  /\ \A k \in Runs : WF_vars(RunStep(k))
  /\ WF_vars(CallerStep)
-----------------------------------------------------------------------------
(* Every variable keeps its type.                                          *)
TypeOK ==
  /\ graph \in Graphs
  /\ wait \in BOOLEAN /\ fallback \in BOOLEAN
  /\ opened \in Runs
  /\ loop \in [Runs -> 0..N]
  /\ opener \in [Runs -> 0..N]
  /\ state \in [Tasks -> {"new", "queued", "calling", "falling", "looping", "waiting",
                          "leaving", "finished"}]
  /\ future \in [Tasks -> {"pending", "running", "value", "error"}]
  /\ results \subseteq Tasks
  /\ awaited \in [Runs -> SUBSET Tasks]
  /\ ended \in {"no", "returned", "raised"}
  /\ called \in [Tasks -> Nat]
  /\ outcome \in [Tasks -> {"none", "value", "error", "unsupported"}]

(* No node of a run is called twice, although the threads of all its        *)
(* predecessors look whether to submit it, and it is called only when each  *)
(* of its predecessors has its value, in the first run its own call's.      *)
CalledInOrder ==
  \A t \in Tasks :
    /\ called[t] <= 1
    /\ called[t] = 1 => \A p \in Predecessors(t[2]) :
         /\ future[FutureOf(<<t[1], p>>)] = "value"
         /\ t[1] = 1 => outcome[<<1, p>>] = "value"

(* The value of a future is one its node returned, in the run the future    *)
(* belongs to or in a fallback that resolves the same future, and without a *)
(* fallback a future fails only after its node or a predecessor failed.     *)
OutcomesAreTrue ==
  \A f \in Tasks :
    /\ future[f] = "value" =>
         \E t \in Tasks : FutureOf(t) = f /\ outcome[t] = "value"
    /\ future[f] = "error" /\ ~fallback =>
         \/ outcome[f] = "error"
         \/ \E p \in Predecessors(f[2]) : future[FutureOf(<<1, p>>)] = "error"

(* What the comment on the futures of a fallback is about: the futures of   *)
(* the result nodes were given to the user, and when no node fails but by   *)
(* what its engine cannot run, the fallback delivers them.                  *)
FallbackDelivers ==
  (\A t \in Tasks : outcome[t] # "error") =>
     /\ ended # "raised"
     /\ \A n \in graph.results : future[<<1, n>>] # "error"

(* Every future given to the caller is resolved, once, and stays what it    *)
(* then is, whichever runs of the dag compete for it.                       *)
Promised == [n \in Nodes |-> IF n \notin graph.results THEN "none"
                             ELSE IF Resolved(<<1, n>>) THEN future[<<1, n>>]
                             ELSE "pending"]

P == INSTANCE Promises WITH promise <- Promised

PromisesKept == P!Spec
=============================================================================
