-------------------------- MODULE ExecuteDAGProofs --------------------------
(***************************************************************************)
(* Theorems about the parallel execution of a dag (ExecuteDAG), for dags   *)
(* of any shape and any number of threads and runs, and about delayed      *)
(* calls (Delay) that are executed as one.                                 *)
(***************************************************************************)
EXTENDS Delay, FiniteSetTheorems, WellFoundedInduction, TLAPS

-----------------------------------------------------------------------------
(* The inductive invariant                                                 *)

Falling == {n \in Nodes : state[<<1, n>>] = "falling"}

\* There is room for the run every node that is about to fall back opens,
\* and without a fallback only the first run has tasks.
RunsOpened ==
  /\ opened + Cardinality(Falling) <= MaxRuns
  /\ ~fallback => opened = 1
  /\ \A t \in Tasks : state[t] # "new" => t[1] <= opened
  /\ \A t \in Tasks : state[t] = "falling" => t[1] = 1
  /\ \A k \in 2..opened : opener[k] \in Nodes

\* The histories follow the place of the thread.
Histories ==
  \A t \in Tasks :
    /\ called[t] <= 1
    /\ state[t] \in {"new", "queued"} => called[t] = 0
    /\ state[t] \in {"new", "queued", "calling"} => outcome[t] = "none"

\* The loop has not submitted the roots it has yet to reach, and a node is
\* submitted after its predecessors' futures are resolved.
SubmittedInOrder ==
  /\ \A k \in Runs, n \in Roots : n > loop[k] => state[<<k, n>>] = "new"
  /\ \A t \in Tasks : state[t] # "new" =>
       \A p \in Predecessors(t[2]) : Resolved(FutureOf(<<t[1], p>>))

\* Without a fallback nobody but its own thread touches a future.
Untouched ==
  ~fallback => \A n \in Nodes : state[<<1, n>>] \in {"new", "queued"} =>
                                  future[<<1, n>>] = "pending"

IInv ==
  /\ TypeOK /\ RunsOpened /\ Histories /\ SubmittedInOrder /\ Untouched
  /\ CalledInOrder /\ OutcomesAreTrue

-----------------------------------------------------------------------------
(* Facts about dags, tasks and futures                                     *)

LEMMA GraphType ==
  ASSUME graph \in Graphs
  PROVE  /\ graph.size \in Nodes
         /\ graph.edges \subseteq (1..graph.size) \X (1..graph.size)
         /\ graph.results \subseteq Nodes
         /\ \A n \in Nodes : Predecessors(n) \subseteq Nodes /\ Successors(n) \subseteq Nodes
BY ExecuteAssumption DEF Nodes, Predecessors, Successors

LEMMA BoundsAreNat ==
  /\ N \in Nat /\ MaxRuns \in Nat \ {0} /\ 1 \in Runs
  /\ \A k \in Runs : k \in Nat
  /\ \A n \in Nodes : n \in Nat
BY ExecuteAssumption DEF Runs, Nodes

LEMMA TaskPair ==
  ASSUME NEW t \in Tasks
  PROVE  /\ t = <<t[1], t[2]>> /\ t[1] \in Runs /\ t[2] \in Nodes
BY DEF Tasks

LEMMA PairTask ==
  ASSUME NEW k \in Runs, NEW n \in Nodes
  PROVE  <<k, n>> \in Tasks /\ <<k, n>>[1] = k /\ <<k, n>>[2] = n
BY DEF Tasks

LEMMA FutureType ==
  ASSUME NEW t \in Tasks
  PROVE  FutureOf(t) \in Tasks
BY TaskPair, PairTask, BoundsAreNat DEF FutureOf

LEMMA FutureOfFirst ==
  ASSUME NEW n \in Nodes
  PROVE  FutureOf(<<1, n>>) = <<1, n>>
BY DEF FutureOf

LEMMA FallingFinite == IsFiniteSet(Falling) /\ Cardinality(Falling) \in Nat
<1>1. IsFiniteSet(Nodes)
  BY FS_Interval, BoundsAreNat DEF Nodes
<1>. QED
  BY <1>1, FS_Subset, FS_CardinalityType DEF Falling

\* The threads about to fall back do not change in number.
LEMMA FallingSame ==
  ASSUME \A n \in Nodes : (state'[<<1, n>>] = "falling") <=> (state[<<1, n>>] = "falling")
  PROVE  Falling' = Falling
BY DEF Falling

-----------------------------------------------------------------------------
LEMMA DagInit == Init => IInv
<1> SUFFICES ASSUME Init PROVE IInv
  OBVIOUS
<1>1. TypeOK
  <2>1. opened \in Runs /\ 0 \in 0..N
    BY BoundsAreNat DEF Init
  <2>2. wait \in BOOLEAN /\ fallback \in BOOLEAN
    BY DEF Init
  <2>. QED BY <2>1, <2>2 DEF Init, TypeOK
<1>2. Falling = {} /\ Cardinality(Falling) = 0
  <2>1. \A n \in Nodes : <<1, n>> \in Tasks
    BY PairTask, BoundsAreNat
  <2>2. Falling = {}
    BY <2>1 DEF Falling, Init
  <2>. QED BY <2>2, FS_EmptySet
<1>3. RunsOpened
  BY <1>2, BoundsAreNat DEF RunsOpened, Init
<1>4. Histories
  BY DEF Histories, Init
<1>5. SubmittedInOrder
  <2>1. \A k \in Runs, n \in Roots : state[<<k, n>>] = "new"
    BY PairTask DEF Init, Roots
  <2>. QED BY <2>1 DEF SubmittedInOrder, Init
<1>6. Untouched
  BY PairTask, BoundsAreNat DEF Untouched, Init
<1>7. CalledInOrder
  BY DEF CalledInOrder, Init
<1>8. OutcomesAreTrue
  BY DEF OutcomesAreTrue, Init
<1>. QED BY <1>1, <1>3, <1>4, <1>5, <1>6, <1>7, <1>8 DEF IInv

-----------------------------------------------------------------------------
(* What every step keeps                                                   *)

LEMMA StepKeepsGraph ==
  ASSUME Next
  PROVE  graph' = graph
BY DEF Next, TaskStep, RunStep, CallerStep, Begin, Returns, Raises, Unsupported, FallBack,
       Leave, SubmitNext, FallbackSubmitted, FallbackEnds, LoopEnds, WaitEnds

LEMMA SameGraph ==
  ASSUME graph' = graph
  PROVE  /\ \A n : Predecessors(n)' = Predecessors(n) /\ Successors(n)' = Successors(n)
         /\ Roots' = Roots
         /\ \A t : FutureOf(t)' = FutureOf(t)
BY DEF Predecessors, Successors, Roots, FutureOf

LEMMA FailsFutures ==
  ASSUME TypeOK, NEW t \in Tasks, Fails(t)
  PROVE  /\ state' = [state EXCEPT ![t] = Last(t)]
         /\ results' \subseteq Tasks
         /\ future' = [future EXCEPT ![FutureOf(t)] = future'[FutureOf(t)]]
         /\ ~Resolved(FutureOf(t)) /\ ~(t[1] = 1 /\ fallback) =>
              future'[FutureOf(t)] = "error"
         /\ future'[FutureOf(t)] \in {future[FutureOf(t)], "error"}
         /\ Resolved(FutureOf(t)) \/ (t[1] = 1 /\ fallback) => future' = future
BY FutureType DEF Fails, AfterException, Goto, TypeOK

LEMMA LastType ==
  ASSUME NEW t
  PROVE  Last(t) \in {"finished", "leaving"}
BY DEF Last

\* A future that is resolved stays what it is.
LEMMA ResolvedStays ==
  ASSUME TypeOK, Next, NEW f \in Tasks, Resolved(f)
  PROVE  future'[f] = future[f]
<1>1. ASSUME NEW t \in Tasks, Begin(t) PROVE future'[f] = future[f]
  <2>1. CASE Refused(t)
    BY <1>1, <2>1, FailsFutures, FutureType DEF Begin, TypeOK
  <2>2. CASE ~Refused(t)
    BY <1>1, <2>2, FutureType DEF Begin, Refused, Resolved, TypeOK
  <2>. QED BY <2>1, <2>2
<1>2. ASSUME NEW t \in Tasks, Returns(t) PROVE future'[f] = future[f]
  BY <1>2, FutureType DEF Returns, TypeOK
<1>3. ASSUME NEW t \in Tasks, Raises(t) PROVE future'[f] = future[f]
  BY <1>3, FailsFutures, FutureType DEF Raises, TypeOK
<1>. QED
  BY <1>1, <1>2, <1>3 DEF Next, TaskStep, RunStep, CallerStep, Unsupported, FallBack, Leave,
     SubmitNext, FallbackSubmitted, FallbackEnds, LoopEnds, WaitEnds

\* A call that has ended has ended so for good.
LEMMA OutcomeStays ==
  ASSUME TypeOK, Histories, Next, NEW t \in Tasks, outcome[t] # "none"
  PROVE  outcome'[t] = outcome[t]
BY DEF Next, TaskStep, RunStep, CallerStep, Begin, Returns, Raises, Unsupported, FallBack,
       Leave, SubmitNext, FallbackSubmitted, FallbackEnds, LoopEnds, WaitEnds, Histories, TypeOK
LEMMA TypeStep ==
  ASSUME IInv, Next
  PROVE  TypeOK'
<1>. USE DEF IInv
<1>1. ASSUME NEW k \in Runs, SubmitNext(k) PROVE TypeOK'
  <2>1. loop[k] + 1 \in 0..N
    BY <1>1, GraphType, BoundsAreNat DEF SubmitNext, Looping, TypeOK, Nodes
  <2>2. loop' \in [Runs -> 0..N]
    BY <1>1, <2>1 DEF SubmitNext, TypeOK
  <2>. QED BY <1>1, <2>2 DEF SubmitNext, TypeOK
<1>2. ASSUME NEW k \in Runs, FallbackSubmitted(k) \/ FallbackEnds(k) PROVE TypeOK'
  <2>1. UserWait \subseteq Tasks
    <3>1. (1..opened) \X (1..graph.size) \subseteq Tasks
      BY GraphType, BoundsAreNat DEF TypeOK, Tasks, Runs, Nodes
    <3>. QED BY <3>1, FutureType DEF UserWait
  <2>2. state' \in [Tasks -> {"new", "queued", "calling", "falling", "looping", "waiting",
                              "leaving", "finished"}]
    BY <1>2, LastType DEF FallbackSubmitted, FallbackEnds, Goto, TypeOK
  <2>3. awaited' \in [Runs -> SUBSET Tasks]
    BY <1>2, <2>1 DEF FallbackSubmitted, FallbackEnds, TypeOK
  <2>. QED BY <1>2, <2>2, <2>3 DEF FallbackSubmitted, FallbackEnds, TypeOK
<1>3. ASSUME LoopEnds \/ WaitEnds PROVE TypeOK'
  <2>1. UserWait \subseteq Tasks
    <3>1. (1..opened) \X (1..graph.size) \subseteq Tasks
      BY GraphType, BoundsAreNat DEF TypeOK, Tasks, Runs, Nodes
    <3>. QED BY <3>1, FutureType DEF UserWait
  <2>2. awaited' \in [Runs -> SUBSET Tasks]
    BY <1>3, <2>1 DEF LoopEnds, WaitEnds, TypeOK
  <2>3. ended' \in {"no", "returned", "raised"}
    BY <1>3 DEF LoopEnds, WaitEnds, TypeOK
  <2>. QED BY <1>3, <2>2, <2>3 DEF LoopEnds, WaitEnds, TypeOK
<1>4. ASSUME NEW t \in Tasks, Begin(t) PROVE TypeOK'
  <2>1. CASE Refused(t)
    BY <1>4, <2>1, FailsFutures, LastType, FutureType DEF Begin, TypeOK
  <2>2. CASE ~Refused(t)
    <3>1. called' \in [Tasks -> Nat]
      BY <1>4, <2>2 DEF Begin, TypeOK
    <3>. QED BY <1>4, <2>2, <3>1 DEF Begin, Goto, TypeOK
  <2>. QED BY <2>1, <2>2
<1>5. ASSUME NEW t \in Tasks, Returns(t) PROVE TypeOK'
  BY <1>5, LastType DEF Returns, Goto, TypeOK
<1>6. ASSUME NEW t \in Tasks, Raises(t) PROVE TypeOK'
  BY <1>6, FailsFutures, LastType, FutureType DEF Raises, TypeOK
<1>7. ASSUME NEW t \in Tasks, Unsupported(t) PROVE TypeOK'
  BY <1>7 DEF Unsupported, Goto, TypeOK
<1>8. ASSUME NEW t \in Tasks, FallBack(t) PROVE TypeOK'
  <2>1. t[1] = 1 /\ t[2] \in Nodes /\ t[2] \in 0..N /\ opened \in Nat
    BY <1>8, TaskPair, BoundsAreNat DEF FallBack, RunsOpened, Nodes, TypeOK
  <2>2. t[2] \in Falling
    BY <1>8, <2>1, TaskPair DEF FallBack, Falling
  <2>3. Cardinality(Falling) >= 1
    BY <2>2, FallingFinite, FS_EmptySet
  <2>4. opened + 1 \in Runs
    BY <2>1, <2>3, FallingFinite, BoundsAreNat DEF RunsOpened, Runs
  <2>. QED BY <1>8, <2>1, <2>4 DEF FallBack, Goto, TypeOK
<1>9. ASSUME NEW t \in Tasks, Leave(t) PROVE TypeOK'
  BY <1>9 DEF Leave, TypeOK
<1>. QED
  BY <1>1, <1>2, <1>3, <1>4, <1>5, <1>6, <1>7, <1>8, <1>9
  DEF Next, TaskStep, RunStep, CallerStep

\* Where a thread can go: a node that was submitted never waits again.
LEMMA StateMoves ==
  ASSUME IInv, Next, NEW t \in Tasks
  PROVE  /\ state[t] \notin {"new", "queued"} => state'[t] \notin {"new", "queued"}
         /\ state'[t] = "queued" => state[t] \in {"new", "queued"}
         /\ state'[t] = "new" => state[t] = "new"
         /\ state'[t] = "calling" => state[t] \in {"queued", "calling"}
         /\ state'[t] = "falling" =>
              state[t] = "falling" \/ (state[t] = "calling" /\ t[1] = 1)
<1>. USE DEF IInv
<1>1. ASSUME NEW k \in Runs, SubmitNext(k)
      PROVE  \/ state' = state
             \/ <<k, loop[k] + 1>> \in Tasks /\ state[<<k, loop[k] + 1>>] = "new"
                /\ state' = [state EXCEPT ![<<k, loop[k] + 1>>] = "queued"]
  <2>1. loop[k] \in Nat
    BY BoundsAreNat DEF TypeOK
  <2>2. ASSUME loop[k] + 1 \in Roots PROVE state[<<k, loop[k] + 1>>] = "new"
    BY <2>1, <2>2 DEF SubmittedInOrder
  <2>. QED BY <1>1, <2>2, PairTask DEF SubmitNext, Roots
<1>2. ASSUME NEW k \in Runs, SubmitNext(k)
      PROVE  state'[t] = state[t] \/ (state[t] = "new" /\ state'[t] = "queued")
  <2>1. ASSUME NEW u \in Tasks, state[u] = "new", state' = [state EXCEPT ![u] = "queued"]
        PROVE  state'[t] = state[t] \/ (state[t] = "new" /\ state'[t] = "queued")
    BY <2>1 DEF TypeOK
  <2>. QED BY <1>1, <1>2, <2>1
<1>3. ASSUME NEW u \in Tasks, Begin(u) \/ Raises(u)
      PROVE  state'[t] = state[t] \/ (t = u /\ state'[t] \in {"calling", "leaving", "finished"}
                                        /\ state[t] \in {"queued", "calling"}
                                        /\ (state'[t] = "calling" => state[t] = "queued"))
  BY <1>3, FailsFutures, LastType DEF Begin, Raises, Goto, TypeOK
<1>4. ASSUME NEW u \in Tasks, Returns(u) \/ FallBack(u)
      PROVE  state'[t] = state[t] \/ (state'[t] \in {"looping", "leaving", "finished"}
                                        /\ state[t] \in {"calling", "falling"})
  BY <1>4, LastType DEF Returns, FallBack, Goto, TypeOK
<1>5. ASSUME NEW u \in Tasks, Unsupported(u)
      PROVE  state'[t] = state[t] \/ (t = u /\ state[t] = "calling" /\ state'[t] = "falling" /\ t[1] = 1)
  BY <1>5 DEF Unsupported, Goto, TypeOK
<1>6. ASSUME NEW u \in Tasks, Leave(u)
      PROVE  \/ state'[t] = state[t]
             \/ state'[t] = "finished" /\ state[t] = "leaving"
             \/ state'[t] = "queued" /\ state[t] = "new"
  BY <1>6, TaskPair DEF Leave, Ready, InSubmits, Submitted, TypeOK
<1>7. ASSUME NEW k \in Runs, FallbackSubmitted(k) \/ FallbackEnds(k)
      PROVE  state'[t] = state[t] \/ (state'[t] \in {"waiting", "leaving", "finished"}
                                        /\ state[t] \in {"looping", "waiting"})
  BY <1>7, LastType DEF FallbackSubmitted, FallbackEnds, Goto, TypeOK
<1>8. ASSUME LoopEnds \/ WaitEnds PROVE state' = state
  BY <1>8 DEF LoopEnds, WaitEnds
<1>9. \/ \E u \in Tasks : Begin(u) \/ Raises(u) \/ Returns(u) \/ FallBack(u) \/ Leave(u)
      \/ \E u \in Tasks : Unsupported(u)
      \/ \E k \in Runs : SubmitNext(k) \/ FallbackSubmitted(k) \/ FallbackEnds(k)
      \/ LoopEnds \/ WaitEnds
  BY DEF Next, TaskStep, RunStep, CallerStep
<1>. QED
  BY <1>2, <1>3, <1>4, <1>5, <1>6, <1>7, <1>8, <1>9
LEMMA RunsOpenedStep ==
  ASSUME IInv, Next
  PROVE  RunsOpened'
<1>. USE DEF IInv
<1>0. TypeOK' /\ opened \in Nat /\ MaxRuns \in Nat /\ <<1, 1>>[1] = 1
  BY TypeStep, BoundsAreNat DEF TypeOK
<1>1. ASSUME NEW t \in Tasks, FallBack(t) PROVE RunsOpened'
  <2>1. t[1] = 1 /\ t[2] \in Nodes /\ t = <<1, t[2]>>
    BY <1>1, TaskPair DEF FallBack, RunsOpened
  <2>2. Falling' = Falling \ {t[2]} /\ t[2] \in Falling
    BY <1>1, <2>1, PairTask, BoundsAreNat DEF FallBack, Falling, Goto, TypeOK
  <2>3. Cardinality(Falling') = Cardinality(Falling) - 1
    BY <2>2, FallingFinite, FS_RemoveElement
  <2>4. opened' + Cardinality(Falling') <= MaxRuns
    BY <1>0, <1>1, <2>3, FallingFinite DEF FallBack, RunsOpened
  <2>5. \A u \in Tasks : state'[u] # "new" => u[1] <= opened'
    BY <1>0, <1>1, TaskPair, BoundsAreNat DEF FallBack, Goto, RunsOpened, TypeOK
  <2>6. \A u \in Tasks : state'[u] = "falling" => u[1] = 1
    BY <1>1 DEF FallBack, Goto, RunsOpened, TypeOK
  <2>7. \A k \in 2..opened' : opener'[k] \in Nodes
    BY <1>0, <1>1, <2>1 DEF FallBack, RunsOpened, TypeOK, Runs
  <2>. QED BY <1>1, <2>4, <2>5, <2>6, <2>7 DEF FallBack, RunsOpened
<1>2. ASSUME NEW t \in Tasks, Unsupported(t) PROVE RunsOpened'
  <2>1. t = <<1, t[2]>> /\ t[2] \in Nodes
    BY <1>2, TaskPair DEF Unsupported
  <2>2. Falling' = Falling \cup {t[2]}
    BY <1>2, <2>1, PairTask, BoundsAreNat DEF Unsupported, Falling, Goto, TypeOK
  <2>3. opened + Cardinality(Falling) + 1 <= MaxRuns
    BY <1>0, <1>2, FallingFinite DEF Unsupported, Falling
  <2>4. opened + Cardinality(Falling') <= MaxRuns
    <3>1. Cardinality(Falling \cup {t[2]}) \in {Cardinality(Falling), Cardinality(Falling) + 1}
      BY FallingFinite, FS_AddElement
    <3>. QED BY <1>0, <2>2, <2>3, <3>1, FallingFinite
  <2>5. \A u \in Tasks : state'[u] # "new" => u[1] <= opened
    BY <1>2 DEF Unsupported, Goto, RunsOpened, TypeOK
  <2>6. \A u \in Tasks : state'[u] = "falling" => u[1] = 1
    BY <1>2 DEF Unsupported, Goto, RunsOpened, TypeOK
  <2>. QED BY <1>2, <2>4, <2>5, <2>6 DEF Unsupported, RunsOpened
<1>3. ASSUME UNCHANGED <<opened, fallback, opener>>,
             \A u \in Tasks : state'[u] # "new" => u[1] <= opened,
             \A u \in Tasks : state'[u] = "falling" <=> state[u] = "falling"
      PROVE  RunsOpened'
  <2>1. \A n \in Nodes : <<1, n>> \in Tasks
    BY PairTask, BoundsAreNat
  <2>. QED BY <1>3, <2>1, FallingSame DEF RunsOpened
<1>4. ASSUME NEW k \in Runs, SubmitNext(k) PROVE RunsOpened'
  <2>1. \A u \in Tasks : state'[u] # "new" => u[1] <= opened
    BY <1>4, TaskPair DEF SubmitNext, Looping, RunsOpened, TypeOK
  <2>2. \A u \in Tasks : state'[u] = "falling" <=> state[u] = "falling"
    BY <1>4, BoundsAreNat DEF SubmitNext, SubmittedInOrder, Roots, TypeOK
  <2>. QED BY <1>3, <1>4, <2>1, <2>2 DEF SubmitNext
<1>5. ASSUME NEW t \in Tasks, Begin(t) \/ Returns(t) \/ Raises(t) PROVE RunsOpened'
  <2>1. \A u \in Tasks : state'[u] = state[u]
           \/ (u = t /\ state[u] # "new" /\ state[u] # "falling" /\ state'[u] # "falling")
    BY <1>5, FailsFutures, LastType DEF Begin, Returns, Raises, Goto, TypeOK
  <2>. QED BY <1>3, <1>5, <2>1 DEF Begin, Returns, Raises, RunsOpened
<1>6. ASSUME NEW t \in Tasks, Leave(t) PROVE RunsOpened'
  <2>1. \A u \in Tasks : state'[u] # "new" => state[u] # "new" \/ u[1] = t[1]
    BY <1>6 DEF Leave, TypeOK
  <2>2. \A u \in Tasks : state'[u] # "new" => u[1] <= opened
    BY <1>6, <2>1 DEF Leave, RunsOpened
  <2>3. \A u \in Tasks : state'[u] = "falling" <=> state[u] = "falling"
    BY <1>6, TaskPair DEF Leave, Ready, InSubmits, Submitted, TypeOK
  <2>. QED BY <1>3, <1>6, <2>2, <2>3 DEF Leave
<1>7. ASSUME NEW k \in Runs, FallbackSubmitted(k) \/ FallbackEnds(k) PROVE RunsOpened'
  <2>1. \A u \in Tasks : state'[u] = state[u]
           \/ (state[u] \in {"looping", "waiting"} /\ state'[u] \in {"waiting", "leaving", "finished"})
    BY <1>7, LastType DEF FallbackSubmitted, FallbackEnds, Goto, TypeOK
  <2>. QED BY <1>3, <1>7, <2>1 DEF FallbackSubmitted, FallbackEnds, RunsOpened
<1>8. ASSUME LoopEnds \/ WaitEnds PROVE RunsOpened'
  BY <1>8, <1>3 DEF LoopEnds, WaitEnds, RunsOpened
<1>. QED
  BY <1>1, <1>2, <1>4, <1>5, <1>6, <1>7, <1>8 DEF Next, TaskStep, RunStep, CallerStep

LEMMA HistoriesStep ==
  ASSUME IInv, Next
  PROVE  Histories'
<1> SUFFICES ASSUME NEW t \in Tasks
             PROVE  /\ called'[t] <= 1
                    /\ state'[t] \in {"new", "queued"} => called'[t] = 0
                    /\ state'[t] \in {"new", "queued", "calling"} => outcome'[t] = "none"
  BY DEF Histories
<1>. USE DEF IInv
<1>1. /\ called[t] \in Nat /\ called[t] <= 1
      /\ state[t] \in {"new", "queued"} => called[t] = 0
      /\ state[t] \in {"new", "queued", "calling"} => outcome[t] = "none"
  BY DEF Histories, TypeOK
<1>2. \/ called'[t] = called[t]
      \/ called'[t] = called[t] + 1 /\ state'[t] = "calling" /\ state[t] = "queued"
  <2>1. ASSUME NEW u \in Tasks, Begin(u)
        PROVE  \/ called'[t] = called[t]
               \/ called'[t] = called[t] + 1 /\ state'[t] = "calling" /\ state[t] = "queued"
    <3>1. CASE Refused(u)
      BY <2>1, <3>1 DEF Begin
    <3>2. CASE ~Refused(u)
      BY <2>1, <3>2 DEF Begin, Goto, TypeOK
    <3>. QED BY <3>1, <3>2
  <2>. QED
    BY <2>1 DEF Next, TaskStep, RunStep, CallerStep, Returns, Raises, Unsupported, FallBack,
       Leave, SubmitNext, FallbackSubmitted, FallbackEnds, LoopEnds, WaitEnds
<1>3. \/ outcome'[t] = outcome[t]
      \/ state[t] = "calling" /\ state'[t] \in {"leaving", "finished", "falling"}
  <2>1. ASSUME NEW u \in Tasks, Returns(u) \/ Raises(u) \/ Unsupported(u)
        PROVE  \/ outcome'[t] = outcome[t]
               \/ state[t] = "calling" /\ state'[t] \in {"leaving", "finished", "falling"}
    BY <2>1, FailsFutures, LastType DEF Returns, Raises, Unsupported, Goto, TypeOK
  <2>. QED
    BY <2>1 DEF Next, TaskStep, RunStep, CallerStep, Begin, FallBack, Leave, SubmitNext,
       FallbackSubmitted, FallbackEnds, LoopEnds, WaitEnds
<1>. QED
  BY <1>1, <1>2, <1>3, StateMoves

LEMMA SubmittedInOrderStep ==
  ASSUME IInv, Next
  PROVE  SubmittedInOrder'
<1>. USE DEF IInv
<1>0. graph' = graph
  BY StepKeepsGraph
<1>1. ASSUME NEW k \in Runs, NEW n \in Roots, n > loop'[k] PROVE state'[<<k, n>>] = "new"
  <2>1. n \in Nodes /\ <<k, n>> \in Tasks
    BY PairTask DEF Roots
  <2>2. /\ loop[k] \in Nat /\ loop'[k] \in {loop[k], loop[k] + 1}
    <3>1. loop[k] \in Nat
      BY BoundsAreNat DEF TypeOK
    <3>2. ASSUME NEW j \in Runs, SubmitNext(j) PROVE loop'[k] \in {loop[k], loop[k] + 1}
      BY <3>2 DEF SubmitNext, TypeOK
    <3>. QED
      BY <3>1, <3>2 DEF Next, TaskStep, RunStep, CallerStep, Begin, Returns, Raises, Unsupported,
         FallBack, Leave, FallbackSubmitted, FallbackEnds, LoopEnds, WaitEnds
  <2>3. state[<<k, n>>] = "new"
    BY <1>1, <2>1, <2>2, BoundsAreNat DEF SubmittedInOrder
  <2>4. ASSUME NEW j \in Runs, SubmitNext(j) PROVE state'[<<k, n>>] = "new"
    BY <1>1, <2>1, <2>3, <2>4, BoundsAreNat DEF SubmitNext, TypeOK
  <2>5. ASSUME NEW t \in Tasks, Leave(t) PROVE state'[<<k, n>>] = "new"
    <3>1. n \notin Ready(t)
      BY <1>0, TaskPair, GraphType DEF Ready, Successors, Roots, Predecessors, TypeOK
    <3>. QED BY <2>1, <2>3, <2>5, <3>1, PairTask DEF Leave
  <2>6. ASSUME NEW t \in Tasks, Begin(t) \/ Returns(t) \/ Raises(t) \/ Unsupported(t) \/ FallBack(t)
        PROVE  state'[<<k, n>>] = "new"
    BY <2>1, <2>3, <2>6, FailsFutures DEF Begin, Returns, Raises, Unsupported, FallBack, Goto, TypeOK
  <2>7. ASSUME NEW j \in Runs, FallbackSubmitted(j) \/ FallbackEnds(j)
        PROVE  state'[<<k, n>>] = "new"
    BY <2>1, <2>3, <2>7 DEF FallbackSubmitted, FallbackEnds, Goto, TypeOK
  <2>. QED
    BY <2>3, <2>4, <2>5, <2>6, <2>7
    DEF Next, TaskStep, RunStep, CallerStep, LoopEnds, WaitEnds
<1>2. ASSUME NEW t \in Tasks, state'[t] # "new", NEW p \in Predecessors(t[2])
      PROVE  Resolved(FutureOf(<<t[1], p>>))'
  <2>1. /\ <<t[1], p>> \in Tasks /\ FutureOf(<<t[1], p>>) \in Tasks
        /\ FutureOf(<<t[1], p>>)' = FutureOf(<<t[1], p>>)
    BY <1>0, TaskPair, PairTask, GraphType, FutureType, SameGraph DEF TypeOK
  <2>2. ASSUME Resolved(FutureOf(<<t[1], p>>)) PROVE Resolved(FutureOf(<<t[1], p>>))'
    BY <2>1, <2>2, ResolvedStays DEF Resolved
  <2>3. CASE state[t] # "new"
    BY <2>2, <2>3 DEF SubmittedInOrder
  <2>4. CASE state[t] = "new"
    <3>1. ASSUME NEW j \in Runs, SubmitNext(j) PROVE FALSE
      BY <1>2, <2>4, <3>1, TaskPair DEF SubmitNext, Roots, TypeOK
    <3>2. ASSUME NEW u \in Tasks, Leave(u) PROVE Resolved(FutureOf(<<t[1], p>>))
      BY <1>2, <2>4, <3>2 DEF Leave, Ready, Done, TypeOK
    <3>3. ASSUME NEW u \in Tasks, Begin(u) \/ Returns(u) \/ Raises(u) \/ Unsupported(u) \/ FallBack(u)
          PROVE  FALSE
      BY <1>2, <2>4, <3>3, FailsFutures
      DEF Begin, Returns, Raises, Unsupported, FallBack, Goto, TypeOK
    <3>4. ASSUME NEW j \in Runs, FallbackSubmitted(j) \/ FallbackEnds(j)
          PROVE  FALSE
      BY <1>2, <2>4, <3>4 DEF FallbackSubmitted, FallbackEnds, Goto, TypeOK
    <3>. QED
      BY <1>2, <2>2, <2>4, <3>1, <3>2, <3>3, <3>4
      DEF Next, TaskStep, RunStep, CallerStep, LoopEnds, WaitEnds
  <2>. QED BY <2>3, <2>4
<1>. QED
  BY <1>0, <1>1, <1>2, SameGraph DEF SubmittedInOrder
\* Without a fallback the tasks that run are those of the first run.
LEMMA FirstRunOnly ==
  ASSUME IInv, ~fallback, NEW t \in Tasks, state[t] # "new"
  PROVE  t = <<1, t[2]>> /\ t[2] \in Nodes /\ FutureOf(t) = t
<1>1. t[1] = 1
  BY TaskPair, BoundsAreNat DEF IInv, RunsOpened, Runs
<1>. QED BY <1>1, TaskPair, FutureOfFirst

LEMMA UntouchedStep ==
  ASSUME IInv, Next
  PROVE  Untouched'
<1> SUFFICES ASSUME ~fallback', NEW n \in Nodes, state'[<<1, n>>] \in {"new", "queued"}
             PROVE  future'[<<1, n>>] = "pending"
  BY DEF Untouched
<1>. DEFINE f == <<1, n>>
<1>. USE DEF IInv
<1>1. f \in Tasks /\ ~fallback /\ state[f] \in {"new", "queued"}
  <2>1. f \in Tasks
    BY PairTask, BoundsAreNat
  <2>2. ~fallback
    BY DEF Next, TaskStep, RunStep, CallerStep, Begin, Returns, Raises, Unsupported, FallBack,
       Leave, SubmitNext, FallbackSubmitted, FallbackEnds, LoopEnds, WaitEnds
  <2>. QED BY <2>1, <2>2, StateMoves
<1>2. future[f] = "pending"
  BY <1>1 DEF Untouched
<1>3. ASSUME NEW t \in Tasks, Begin(t) \/ Returns(t) \/ Raises(t) PROVE future'[f] = "pending"
  <2>1. t # f /\ state[t] # "new"
    BY <1>1, <1>3, FailsFutures, LastType DEF Begin, Returns, Raises, Goto, TypeOK
  <2>2. FutureOf(t) = t
    BY <1>1, <2>1, FirstRunOnly
  <2>. QED BY <1>1, <1>2, <1>3, <2>1, <2>2, FailsFutures DEF Begin, Returns, Raises, TypeOK
<1>. QED
  BY <1>2, <1>3 DEF Next, TaskStep, RunStep, CallerStep, Unsupported, FallBack, Leave,
     SubmitNext, FallbackSubmitted, FallbackEnds, LoopEnds, WaitEnds

LEMMA CalledInOrderStep ==
  ASSUME IInv, Next
  PROVE  CalledInOrder'
<1>. USE DEF IInv
<1>0. graph' = graph /\ TypeOK' /\ Histories'
  BY StepKeepsGraph, TypeStep, HistoriesStep
<1> SUFFICES ASSUME NEW t \in Tasks, called'[t] = 1, NEW p \in Predecessors(t[2])
             PROVE  /\ future'[FutureOf(<<t[1], p>>)] = "value"
                    /\ t[1] = 1 => outcome'[<<1, p>>] = "value"
  BY <1>0, SameGraph DEF CalledInOrder, Histories
<1>1. /\ p \in Nodes /\ <<t[1], p>> \in Tasks /\ <<1, p>> \in Tasks
      /\ FutureOf(<<t[1], p>>) \in Tasks
  BY TaskPair, PairTask, GraphType, FutureType, BoundsAreNat DEF TypeOK
<1>2. ASSUME future[FutureOf(<<t[1], p>>)] = "value"
      PROVE  future'[FutureOf(<<t[1], p>>)] = "value"
  BY <1>1, <1>2, ResolvedStays DEF Resolved
<1>3. ASSUME outcome[<<1, p>>] = "value" PROVE outcome'[<<1, p>>] = "value"
  BY <1>1, <1>3, OutcomeStays
<1>4. CASE called[t] = 1
  BY <1>2, <1>3, <1>4 DEF CalledInOrder
<1>5. CASE called[t] # 1
  <2>1. Begin(t) /\ ~Refused(t)
    <3>1. ASSUME NEW u \in Tasks, Begin(u) PROVE u = t /\ ~Refused(u)
      BY <1>5, <3>1 DEF Begin, TypeOK
    <3>. QED
      BY <1>5, <3>1 DEF Next, TaskStep, RunStep, CallerStep, Returns, Raises, Unsupported,
         FallBack, Leave, SubmitNext, FallbackSubmitted, FallbackEnds, LoopEnds, WaitEnds
  <2>2. future[FutureOf(<<t[1], p>>)] = "value"
    BY <2>1 DEF Begin, SubmittedInOrder, Refused, Resolved
  <2>3. ASSUME t[1] = 1 PROVE outcome[<<1, p>>] = "value"
    <3>1. ~fallback /\ future[<<1, p>>] = "value"
      BY <1>1, <2>1, <2>2, <2>3, FutureOfFirst DEF Refused
    <3>2. PICK u \in Tasks : FutureOf(u) = <<1, p>> /\ outcome[u] = "value"
      BY <1>1, <3>1 DEF OutcomesAreTrue
    <3>3. u = <<1, p>>
      BY <3>1, <3>2, FirstRunOnly DEF Histories
    <3>. QED BY <3>2, <3>3
  <2>. QED BY <1>2, <1>3, <2>2, <2>3
<1>. QED BY <1>4, <1>5

LEMMA OutcomesAreTrueStep ==
  ASSUME IInv, Next
  PROVE  OutcomesAreTrue'
<1>. USE DEF IInv
<1>0. graph' = graph
  BY StepKeepsGraph
<1>1. ASSUME NEW f \in Tasks, future'[f] = "value"
      PROVE  \E t \in Tasks : FutureOf(t) = f /\ outcome'[t] = "value"
  <2>1. CASE future[f] = "value"
    <3>1. PICK t \in Tasks : FutureOf(t) = f /\ outcome[t] = "value"
      BY <2>1 DEF OutcomesAreTrue
    <3>. QED BY <3>1, OutcomeStays
  <2>2. CASE future[f] # "value"
    <3>1. ASSUME NEW t \in Tasks, Returns(t)
          PROVE  FutureOf(t) = f /\ outcome'[t] = "value"
      BY <1>1, <2>2, <3>1, FutureType DEF Returns, TypeOK
    <3>2. ASSUME NEW t \in Tasks, Begin(t) \/ Raises(t) PROVE FALSE
      BY <1>1, <2>2, <3>2, FailsFutures, FutureType DEF Begin, Raises, TypeOK
    <3>. QED
      BY <1>1, <2>2, <3>1, <3>2 DEF Next, TaskStep, RunStep, CallerStep, Unsupported, FallBack,
         Leave, SubmitNext, FallbackSubmitted, FallbackEnds, LoopEnds, WaitEnds
  <2>. QED BY <2>1, <2>2
<1>2. ASSUME NEW f \in Tasks, future'[f] = "error", ~fallback'
      PROVE  \/ outcome'[f] = "error"
             \/ \E p \in Predecessors(f[2]) : future'[FutureOf(<<1, p>>)] = "error"
  <2>1. ~fallback
    BY <1>2 DEF Next, TaskStep, RunStep, CallerStep, Begin, Returns, Raises, Unsupported, FallBack,
       Leave, SubmitNext, FallbackSubmitted, FallbackEnds, LoopEnds, WaitEnds
  <2>2. ASSUME NEW p \in Predecessors(f[2]), future[FutureOf(<<1, p>>)] = "error"
        PROVE  future'[FutureOf(<<1, p>>)] = "error"
    <3>1. FutureOf(<<1, p>>) \in Tasks
      BY TaskPair, PairTask, GraphType, FutureType, BoundsAreNat DEF TypeOK
    <3>. QED BY <2>2, <3>1, ResolvedStays DEF Resolved
  <2>3. CASE future[f] = "error"
    BY <2>1, <2>2, <2>3, OutcomeStays DEF OutcomesAreTrue
  <2>4. CASE future[f] # "error"
    <3>1. ASSUME NEW t \in Tasks, Raises(t) PROVE outcome'[f] = "error"
      <4>1. t = FutureOf(t)
        BY <2>1, <3>1, FirstRunOnly DEF Raises
      <4>2. f = t
        BY <1>2, <2>4, <3>1, <4>1, FailsFutures DEF Raises, TypeOK
      <4>. QED BY <3>1, <4>2 DEF Raises, TypeOK
    <3>2. ASSUME NEW t \in Tasks, Begin(t)
          PROVE  \E p \in Predecessors(f[2]) : future[FutureOf(<<1, p>>)] = "error"
      <4>1. t = <<1, t[2]>> /\ t[2] \in Nodes /\ t = FutureOf(t)
        BY <2>1, <3>2, FirstRunOnly DEF Begin
      <4>2. Refused(t)
        BY <1>2, <2>4, <3>2 DEF Begin, TypeOK
      <4>3. f = t
        BY <1>2, <2>4, <3>2, <4>1, <4>2, FailsFutures DEF Begin, TypeOK
      <4>4. future[FutureOf(t)] = "pending"
        BY <2>1, <3>2, <4>1 DEF Begin, Untouched
      <4>. QED BY <2>1, <4>1, <4>2, <4>3, <4>4 DEF Refused
    <3>3. ASSUME NEW t \in Tasks, Returns(t) PROVE FALSE
      BY <1>2, <2>4, <3>3 DEF Returns, TypeOK
    <3>. QED
      BY <1>2, <2>2, <2>4, <3>1, <3>2, <3>3 DEF Next, TaskStep, RunStep, CallerStep, Unsupported,
         FallBack, Leave, SubmitNext, FallbackSubmitted, FallbackEnds, LoopEnds, WaitEnds
  <2>. QED BY <2>3, <2>4
<1>. QED
  BY <1>0, <1>1, <1>2, SameGraph DEF OutcomesAreTrue

-----------------------------------------------------------------------------
LEMMA IInvStep == IInv /\ [Next]_vars => IInv'
<1> SUFFICES ASSUME IInv, [Next]_vars PROVE IInv'
  OBVIOUS
<1>1. CASE Next
  BY <1>1, TypeStep, RunsOpenedStep, HistoriesStep, SubmittedInOrderStep, UntouchedStep,
     CalledInOrderStep, OutcomesAreTrueStep DEF IInv
<1>2. CASE UNCHANGED vars
  <2>1. graph' = graph /\ UNCHANGED <<wait, fallback, opened, loop, opener, state, future,
                                      results, awaited, ended, called, outcome>>
    BY <1>2 DEF vars
  <2>2. Falling' = Falling
    BY <2>1, FallingSame
  <2>3. TypeOK' /\ RunsOpened' /\ Histories'
    BY <2>1, <2>2 DEF IInv, TypeOK, RunsOpened, Histories
  <2>4. SubmittedInOrder' /\ Untouched'
    BY <2>1, SameGraph DEF IInv, SubmittedInOrder, Untouched, Resolved
  <2>5. CalledInOrder' /\ OutcomesAreTrue'
    BY <2>1, SameGraph DEF IInv, CalledInOrder, OutcomesAreTrue
  <2>. QED BY <2>3, <2>4, <2>5 DEF IInv
<1>. QED BY <1>1, <1>2

THEOREM DagInvariant == Spec => []IInv
BY DagInit, IInvStep, PTL DEF Spec

(* No counter, place or set of the execution leaves its range; above all a   *)
(* fallback never opens more runs than there was room for when it began.     *)
THEOREM DagTypeCorrect == Spec => []TypeOK
<1>1. IInv => TypeOK
  BY DEF IInv
<1>. QED BY DagInvariant, <1>1, PTL

(* The threads of a node's predecessors submit it once, after all of them.   *)
THEOREM NodesCalledInOrder == Spec => []CalledInOrder
<1>1. IInv => CalledInOrder
  BY DEF IInv
<1>. QED BY DagInvariant, <1>1, PTL

(* Whichever runs of a dag compete for a future, its value is one its node   *)
(* returned, and without a fallback its error comes from it or before it.    *)
THEOREM FuturesTellTheOutcome == Spec => []OutcomesAreTrue
<1>1. IInv => OutcomesAreTrue
  BY DEF IInv
<1>. QED BY DagInvariant, <1>1, PTL
-----------------------------------------------------------------------------
(* The refinement of Promises                                              *)

\* A step sets one future at most.
LEMMA OneFuture ==
  ASSUME IInv, Next
  PROVE  \/ future' = future
         \/ \E f \in Tasks : future' = [future EXCEPT ![f] = future'[f]]
<1>. USE DEF IInv
<1>1. ASSUME NEW t \in Tasks, Begin(t)
      PROVE  future' = future \/ future' = [future EXCEPT ![FutureOf(t)] = future'[FutureOf(t)]]
  BY <1>1, FailsFutures, FutureType DEF Begin, TypeOK
<1>2. ASSUME NEW t \in Tasks, Returns(t)
      PROVE  future' = future \/ future' = [future EXCEPT ![FutureOf(t)] = future'[FutureOf(t)]]
  BY <1>2, FutureType DEF Returns, TypeOK
<1>3. ASSUME NEW t \in Tasks, Raises(t)
      PROVE  future' = [future EXCEPT ![FutureOf(t)] = future'[FutureOf(t)]]
  BY <1>3, FailsFutures DEF Raises
<1>. QED
  BY <1>1, <1>2, <1>3, FutureType DEF Next, TaskStep, RunStep, CallerStep, Unsupported, FallBack,
     Leave, SubmitNext, FallbackSubmitted, FallbackEnds, LoopEnds, WaitEnds

LEMMA PromisesInit == Init => P!Init
BY PairTask, BoundsAreNat DEF Init, P!Init, Promised, Resolved

LEMMA PromisesStep ==
  ASSUME IInv, Next
  PROVE  P!Next \/ Promised' = Promised
<1>. USE DEF IInv
<1>1. graph' = graph /\ TypeOK'
  BY StepKeepsGraph, TypeStep
<1>2. CASE future' = future
  BY <1>1, <1>2 DEF Promised, Resolved
<1>3. ASSUME NEW f \in Tasks, future' = [future EXCEPT ![f] = future'[f]]
      PROVE  P!Next \/ Promised' = Promised
  <2>1. \A n \in Nodes : <<1, n>> \in Tasks
    BY PairTask, BoundsAreNat
  <2>2. \A n \in Nodes : f # <<1, n>> => future'[<<1, n>>] = future[<<1, n>>]
    BY <1>3, <2>1 DEF TypeOK
  <2>3. CASE Resolved(f)
    <3>1. future' = future
      BY <1>1, <1>3, <2>3, ResolvedStays DEF TypeOK
    <3>. QED BY <1>2, <3>1
  <2>5. CASE ~Resolved(f) /\ ~Resolved(f)'
    <3>1. \A n \in Nodes : /\ future'[<<1, n>>] \in {"value", "error"} <=>
                               future[<<1, n>>] \in {"value", "error"}
                           /\ future[<<1, n>>] \in {"value", "error"} =>
                               future'[<<1, n>>] = future[<<1, n>>]
      BY <2>2, <2>5 DEF Resolved
    <3>. QED BY <1>1, <3>1 DEF Promised, Resolved
  <2>4. CASE ~Resolved(f) /\ Resolved(f)'
    <3>1. CASE \E n \in graph.results : f = <<1, n>>
      <4>1. PICK n \in graph.results : f = <<1, n>>
        BY <3>1
      <4>2. n \in Nodes
        BY <4>1, GraphType DEF TypeOK
      <4>3. Promised[n] = "pending"
        BY <2>4, <4>1, <4>2 DEF Promised
      <4>4. \A m \in Nodes : m # n => f # <<1, m>>
        BY <4>1
      <4>5. Promised' = [Promised EXCEPT ![n] = future'[f]]
        BY <1>1, <2>2, <2>4, <4>1, <4>2, <4>4 DEF Promised, Resolved
      <4>6. future'[f] \in {"value", "error"}
        BY <2>4 DEF Resolved
      <4>. QED BY <4>2, <4>3, <4>5, <4>6 DEF P!Next, P!Resolve
    <3>2. CASE ~\E n \in graph.results : f = <<1, n>>
      <4>1. \A n \in Nodes : n \in graph.results => f # <<1, n>>
        BY <3>2
      <4>. QED BY <1>1, <2>2, <4>1 DEF Promised, Resolved
    <3>. QED BY <3>1, <3>2
  <2>. QED BY <2>3, <2>4, <2>5
<1>. QED BY <1>2, <1>3, OneFuture

(* The futures handed to the caller are what Promises says: each is resolved *)
(* at most once, and stays what it then is.                                  *)
THEOREM PromisesAreSafe == Spec => P!Safety
<1>1. IInv /\ [Next]_vars => [P!Next]_Promised
  <2> SUFFICES ASSUME IInv, [Next]_vars PROVE P!Next \/ Promised' = Promised
    OBVIOUS
  <2>1. CASE UNCHANGED vars
    BY <2>1 DEF vars, Promised, Resolved
  <2>. QED BY <2>1, PromisesStep
<1>. QED BY <1>1, PromisesInit, DagInvariant, PTL DEF Spec, P!Safety

-----------------------------------------------------------------------------
\* A set of nodes that is not empty has a first.
LEMMA FirstIsLeast ==
  ASSUME NEW s \in SUBSET Nodes, s # {}
  PROVE  First(s) \in s /\ \A m \in s : First(s) <= m
<1>1. s \subseteq Nat
  BY BoundsAreNat
<1>. DEFINE Less == {ss \in Nat \X Nat : ss[1] < ss[2]}
<1>2. IsWellFoundedOn(Less, Nat)
  BY NatLessThanWellFounded, Zenon DEF OpToRel
<1>. HIDE DEF Less
<1>3. PICK n \in s : \A m \in s : ~(<<m, n>> \in Less)
  BY <1>1, <1>2, WFMin
<1>4. \A m \in s : n <= m
  <2> SUFFICES ASSUME NEW m \in s PROVE n <= m
    OBVIOUS
  <2>1. m \in Nat /\ n \in Nat
    BY <1>1
  <2>2. ~(<<m, n>> \in Less)
    BY <1>3
  <2>3. ~(m < n)
    BY <2>1, <2>2 DEF Less
  <2>. QED BY <2>1, <2>3
<1>. QED
  BY <1>4 DEF First

(* Nobody is forgotten                                                     *)

\* A task of a run whose results count: once there is a fallback, those of
\* the first run are dropped.
Current(t) == t[1] > 1 \/ ~fallback

\* The loop of a fallback is in the thread of the node that opened it.
RunsGoOn ==
  /\ fallback => opened >= 2
  /\ \A t \in Tasks : state[t] \in {"looping", "waiting"} => fallback /\ t[1] = 1
  /\ \A k \in Runs : loop[k] <= graph.size /\ (k > opened => loop[k] = 0)
  /\ \A k \in 2..opened :
       /\ state[<<1, opener[k]>>] \in {"looping", "waiting", "leaving", "finished"}
       /\ loop[k] < graph.size => state[<<1, opener[k]>>] = "looping"
  /\ \A j, k \in 2..opened : opener[j] = opener[k] => j = k

\* A thread of a run that counts leaves with its future resolved, and the
\* last of a node's predecessors to leave submits it.
NodesGoOn ==
  /\ \A k \in Runs, n \in Roots : n <= loop[k] => state[<<k, n>>] # "new"
  /\ \A t \in Tasks : Current(t) /\ state[t] \in {"leaving", "finished"} => Resolved(FutureOf(t))
  /\ \A t \in Tasks :
       /\ Current(t)
       /\ Predecessors(t[2]) # {}
       /\ \A p \in Predecessors(t[2]) : state[<<t[1], p>>] = "finished"
       => state[t] # "new"

\* What the caller waits for is of the first run, as long as that is all.
CallerGoesOn ==
  /\ ~wait => awaited[1] = {} /\ ended # "raised"
  /\ ~fallback => awaited[1] \subseteq {<<1, n>> : n \in 1..graph.size}

GoesOn == RunsGoOn /\ NodesGoOn /\ CallerGoesOn

\* What the thread of a node does up to its finally clause.
Works(t) == Begin(t) \/ Returns(t) \/ Raises(t) \/ Unsupported(t)

LEMMA WorksMoves ==
  ASSUME IInv, NEW t \in Tasks, Works(t)
  PROVE  /\ UNCHANGED <<graph, wait, fallback, opened, loop, opener, awaited, ended>>
         /\ state' = [state EXCEPT ![t] = state'[t]]
         /\ state[t] \in {"queued", "calling"}
         /\ \/ state'[t] \in {"leaving", "finished"}
            \/ state[t] = "queued" /\ state'[t] = "calling"
            \/ state[t] = "calling" /\ state'[t] = "falling"
         /\ state'[t] \in {"leaving", "finished"} /\ Current(t) => Resolved(FutureOf(t))'
         /\ Successors(t[2]) # {} => state'[t] # "finished"
<1>. USE DEF IInv
<1>0. FutureOf(t) \in Tasks /\ (t[1] = 1 /\ fallback => ~Current(t))
  BY FutureType, BoundsAreNat DEF Current
<1>1. UNCHANGED <<graph, wait, fallback, opened, loop, opener, awaited, ended>>
      /\ FutureOf(t)' = FutureOf(t)
  BY SameGraph DEF Works, Begin, Returns, Raises, Unsupported
<1>2. ASSUME Fails(t), state[t] \in {"queued", "calling"}
      PROVE  /\ state' = [state EXCEPT ![t] = state'[t]] /\ state'[t] \in {"leaving", "finished"}
             /\ Current(t) => Resolved(FutureOf(t))'
             /\ Successors(t[2]) # {} => state'[t] # "finished"
  <2>1. state' = [state EXCEPT ![t] = Last(t)]
    BY <1>2, FailsFutures
  <2>2. Resolved(FutureOf(t)) => Resolved(FutureOf(t))'
    BY <1>1, <1>2, FailsFutures DEF Resolved
  <2>3. ~Resolved(FutureOf(t)) /\ Current(t) => Resolved(FutureOf(t))'
    BY <1>0, <1>1, <1>2, FailsFutures DEF Resolved
  <2>. QED BY <2>1, <2>2, <2>3 DEF TypeOK, Last
<1>3. CASE Begin(t)
  <2>1. CASE Refused(t)
    BY <1>1, <1>2, <1>3, <2>1 DEF Begin
  <2>2. CASE ~Refused(t)
    BY <1>1, <1>3, <2>2 DEF Begin, Goto, TypeOK
  <2>. QED BY <2>1, <2>2
<1>4. CASE Returns(t)
  <2>1. Resolved(FutureOf(t))'
    BY <1>0, <1>1, <1>4 DEF Returns, Resolved, TypeOK
  <2>. QED BY <1>1, <1>4, <2>1 DEF Returns, Goto, TypeOK, Last
<1>5. CASE Raises(t)
  BY <1>1, <1>2, <1>5 DEF Raises
<1>6. CASE Unsupported(t)
  BY <1>1, <1>6 DEF Unsupported, Goto, TypeOK
<1>. QED BY <1>3, <1>4, <1>5, <1>6 DEF Works

\* The other steps in a pool's thread, and those of the loops.
LEMMA LeaveMoves ==
  ASSUME IInv, NEW t \in Tasks, Leave(t)
  PROVE  /\ UNCHANGED <<graph, wait, fallback, opened, loop, opener, awaited, ended, future>>
         /\ state[t] = "leaving" /\ state'[t] = "finished"
         /\ \A u \in Tasks : u # t =>
              \/ state'[u] = state[u]
              \/ state[u] = "new" /\ state'[u] = "queued"
BY TaskPair DEF IInv, Leave, Ready, InSubmits, Submitted, TypeOK

LEMMA FallBackMoves ==
  ASSUME IInv, NEW t \in Tasks, FallBack(t)
  PROVE  /\ UNCHANGED <<graph, wait, loop, awaited, ended, future>>
         /\ fallback' = TRUE /\ opened' = opened + 1 /\ opened \in Nat /\ opened >= 1
         /\ t = <<1, t[2]>> /\ t[2] \in Nodes
         /\ opener' = [opener EXCEPT ![opened + 1] = t[2]] /\ opened + 1 \in Runs
         /\ state[t] = "falling" /\ state' = [state EXCEPT ![t] = "looping"]
<1>1. t[1] = 1 /\ t = <<1, t[2]>> /\ t[2] \in Nodes
  BY TaskPair DEF FallBack, IInv, RunsOpened
<1>2. opened \in Nat /\ opened >= 1
  BY BoundsAreNat DEF IInv, TypeOK, Runs
<1>3. opened + 1 \in Runs
  <2>1. TypeOK'
    BY TypeStep DEF Next, TaskStep
  <2>. QED BY <2>1 DEF FallBack, TypeOK
<1>. QED BY <1>1, <1>2, <1>3 DEF FallBack, Goto

LEMMA LoopMoves ==
  ASSUME IInv, NEW k \in Runs, SubmitNext(k)
  PROVE  /\ UNCHANGED <<graph, wait, fallback, opened, opener, awaited, ended, future>>
         /\ loop' = [loop EXCEPT ![k] = loop[k] + 1] /\ loop[k] \in Nat /\ graph.size \in Nat
         /\ loop[k] < graph.size /\ loop[k] + 1 \in Nodes /\ k <= opened
         /\ \A u \in Tasks : state'[u] = state[u] \/ (state[u] = "new" /\ state'[u] = "queued")
         /\ loop[k] + 1 \in Roots => state'[<<k, loop[k] + 1>>] = "queued"
<1>. USE DEF IInv
<1>1. loop[k] \in Nat /\ graph.size \in Nodes /\ loop[k] + 1 \in Nodes /\ graph.size \in Nat
  BY GraphType, BoundsAreNat DEF SubmitNext, Looping, TypeOK, Nodes
<1>2. <<k, loop[k] + 1>> \in Tasks
  BY <1>1, PairTask
<1>3. loop[k] + 1 \in Roots => state[<<k, loop[k] + 1>>] = "new"
  BY <1>1 DEF SubmittedInOrder
<1>. QED BY <1>1, <1>2, <1>3 DEF SubmitNext, Looping, TypeOK

LEMMA FallbackMoves ==
  ASSUME IInv, NEW k \in Runs, FallbackSubmitted(k) \/ FallbackEnds(k)
  PROVE  LET t == <<1, opener[k]>> IN
         /\ UNCHANGED <<graph, wait, fallback, opened, loop, opener, ended, future>>
         /\ k \in 2..opened /\ t \in Tasks
         /\ awaited'[1] = awaited[1]
         /\ state' = [state EXCEPT ![t] = state'[t]]
         /\ \/ state[t] = "looping" /\ loop[k] = graph.size /\ state'[t] \in {"waiting", "leaving", "finished"}
            \/ state[t] = "waiting" /\ state'[t] \in {"leaving", "finished"}
         /\ Successors(opener[k]) # {} => state'[t] # "finished"
<1>. USE DEF IInv
<1>1. k \in 2..opened /\ k # 1 /\ opener[k] \in Nodes
  BY DEF FallbackSubmitted, FallbackEnds, RunsOpened
<1>2. <<1, opener[k]>> \in Tasks /\ <<1, opener[k]>>[2] = opener[k]
  BY <1>1, PairTask, BoundsAreNat
<1>3. awaited'[1] = awaited[1]
  BY <1>1, BoundsAreNat DEF FallbackSubmitted, FallbackEnds, TypeOK
<1>. QED BY <1>1, <1>2, <1>3 DEF FallbackSubmitted, FallbackEnds, Goto, Last, TypeOK

LEMMA CallerMoves ==
  ASSUME IInv, LoopEnds \/ WaitEnds
  PROVE  /\ UNCHANGED <<graph, wait, fallback, opened, loop, opener, state, future>>
         /\ ended = "no"
         /\ \/ /\ awaited[1] = {} /\ wait /\ ended' = ended
               /\ awaited' = [awaited EXCEPT ![1] = UserWait]
            \/ awaited[1] = {} /\ ~wait /\ ended' = "returned" /\ awaited' = awaited
            \/ awaited[1] # {} /\ ended' \in {"returned", "raised"} /\ awaited' = awaited
BY DEF LoopEnds, WaitEnds

LEMMA NextMoves ==
  ASSUME Next
  PROVE  \/ \E t \in Tasks : Works(t) \/ FallBack(t) \/ Leave(t)
         \/ \E k \in Runs : SubmitNext(k) \/ FallbackSubmitted(k) \/ FallbackEnds(k)
         \/ LoopEnds \/ WaitEnds
BY DEF Next, TaskStep, RunStep, CallerStep, Works

LEMMA GoesOnInit == Init => GoesOn
<1> SUFFICES ASSUME Init PROVE GoesOn
  OBVIOUS
<1>1. graph.size \in Nat /\ graph.size >= 1
  BY GraphType, BoundsAreNat DEF Init, Nodes
<1>2. RunsGoOn
  BY <1>1 DEF Init, RunsGoOn, Tasks
<1>3. NodesGoOn
  <2>1. \A k \in Runs, n \in Roots : ~(n <= loop[k])
    BY BoundsAreNat DEF Init, Roots, Nodes
  <2>2. ASSUME NEW t \in Tasks, Predecessors(t[2]) # {},
               \A p \in Predecessors(t[2]) : state[<<t[1], p>>] = "finished"
        PROVE  FALSE
    <3>1. PICK p \in Predecessors(t[2]) : TRUE
      BY <2>2
    <3>2. <<t[1], p>> \in Tasks
      BY <3>1, TaskPair, PairTask, GraphType DEF Init
    <3>. QED BY <2>2, <3>1, <3>2 DEF Init
  <2>. QED BY <2>1, <2>2 DEF Init, NodesGoOn
<1>4. CallerGoesOn
  BY BoundsAreNat DEF Init, CallerGoesOn
<1>. QED BY <1>2, <1>3, <1>4 DEF GoesOn

LEMMA FallbackStays ==
  ASSUME IInv, Next
  PROVE  /\ graph' = graph /\ wait' = wait
         /\ fallback => fallback'
         /\ \A t : Current(t)' => Current(t)
<1>1. graph' = graph /\ wait' = wait /\ (fallback' = fallback \/ fallback' = TRUE)
  BY NextMoves, WorksMoves, LeaveMoves, FallBackMoves, LoopMoves, FallbackMoves, CallerMoves
<1>. QED BY <1>1 DEF Current, IInv, TypeOK

LEMMA RunsGoOnStep ==
  ASSUME IInv, RunsGoOn, Next
  PROVE  RunsGoOn'
<1>0. /\ opened \in Nat /\ opened >= 1 /\ graph.size \in Nat /\ graph.size >= 1
      /\ \A k \in Runs : loop[k] \in Nat
      /\ \A k \in 2..opened : k \in Runs /\ opener[k] \in Nodes /\ <<1, opener[k]>> \in Tasks
  <2>1. opened \in Nat /\ opened >= 1 /\ 2..opened \subseteq Runs
    BY BoundsAreNat DEF IInv, TypeOK, Runs
  <2>2. \A k \in 2..opened : opener[k] \in Nodes
    BY DEF IInv, RunsOpened
  <2>3. \A k \in Runs : loop[k] \in Nat
    BY BoundsAreNat DEF IInv, TypeOK
  <2>. QED BY <2>1, <2>2, <2>3, PairTask, GraphType, BoundsAreNat DEF IInv, TypeOK, Nodes
<1>1. ASSUME UNCHANGED <<graph, fallback, opened, loop, opener>>,
             \A t \in Tasks : \/ state'[t] = state[t]
                              \/ state[t] \notin {"looping", "waiting", "leaving", "finished"}
                                 /\ state'[t] \notin {"looping", "waiting"}
                              \/ state[t] = "leaving" /\ state'[t] = "finished"
      PROVE  RunsGoOn'
  BY <1>0, <1>1 DEF RunsGoOn
<1>2. ASSUME NEW t \in Tasks, Works(t) PROVE RunsGoOn'
  BY <1>1, <1>2, WorksMoves DEF IInv, TypeOK
<1>3. ASSUME NEW t \in Tasks, Leave(t) PROVE RunsGoOn'
  BY <1>1, <1>3, LeaveMoves
<1>4. ASSUME LoopEnds \/ WaitEnds PROVE RunsGoOn'
  BY <1>1, <1>4, CallerMoves
<1>5. ASSUME NEW k \in Runs, SubmitNext(k) PROVE RunsGoOn'
  <2>1. /\ UNCHANGED <<graph, fallback, opened, opener>>
        /\ loop' = [loop EXCEPT ![k] = loop[k] + 1] /\ loop[k] < graph.size /\ k <= opened
        /\ \A u \in Tasks : state'[u] = state[u] \/ (state[u] = "new" /\ state'[u] = "queued")
    BY <1>5, LoopMoves
  <2>2. \A j \in Runs : loop'[j] <= graph.size /\ (j > opened => loop'[j] = 0)
    BY <1>0, <2>1 DEF RunsGoOn, IInv, TypeOK
  <2>3. \A j \in 2..opened : /\ state'[<<1, opener[j]>>] = state[<<1, opener[j]>>]
                             /\ loop'[j] < graph.size => loop[j] < graph.size
    BY <1>0, <2>1 DEF RunsGoOn, IInv, TypeOK
  <2>. QED BY <2>1, <2>2, <2>3 DEF RunsGoOn
<1>6. ASSUME NEW t \in Tasks, FallBack(t) PROVE RunsGoOn'
  <2>1. /\ UNCHANGED <<graph, loop>> /\ fallback' = TRUE /\ opened' = opened + 1
        /\ t = <<1, t[2]>> /\ t[2] \in Nodes
        /\ opener' = [opener EXCEPT ![opened + 1] = t[2]] /\ opened + 1 \in Runs
        /\ state[t] = "falling" /\ state' = [state EXCEPT ![t] = "looping"]
    BY <1>6, FallBackMoves
  <2>2. opener'[opened + 1] = t[2] /\ \A k \in 2..opened : opener'[k] = opener[k] /\ opener[k] # t[2]
    BY <1>0, <2>1 DEF RunsGoOn, IInv, TypeOK
  <2>3. state'[t] = "looping" /\ \A u \in Tasks : u # t => state'[u] = state[u]
    BY <2>1 DEF IInv, TypeOK
  <2>4. \A k \in 2..opened' :
           /\ state'[<<1, opener'[k]>>] \in {"looping", "waiting", "leaving", "finished"}
           /\ loop'[k] < graph.size => state'[<<1, opener'[k]>>] = "looping"
    <3> SUFFICES ASSUME NEW k \in 2..opened'
                 PROVE  /\ state'[<<1, opener'[k]>>] \in {"looping", "waiting", "leaving", "finished"}
                        /\ loop'[k] < graph.size => state'[<<1, opener'[k]>>] = "looping"
      OBVIOUS
    <3>1. CASE k = opened + 1
      BY <2>1, <2>2, <2>3, <3>1
    <3>2. CASE k # opened + 1
      <4>1. k \in 2..opened
        BY <1>0, <2>1, <3>2
      <4>2. <<1, opener[k]>> \in Tasks /\ <<1, opener[k]>> # t
        BY <1>0, <2>1, <2>2, <4>1
      <4>. QED BY <2>1, <2>2, <2>3, <4>1, <4>2 DEF RunsGoOn
    <3>. QED BY <3>1, <3>2
  <2>5. \A j, k \in 2..opened' : opener'[j] = opener'[k] => j = k
    <3>1. \A k \in 2..opened' : k = opened + 1 \/ k \in 2..opened
      BY <1>0, <2>1
    <3>. QED BY <2>2, <3>1 DEF RunsGoOn
  <2>6. \A u \in Tasks : state'[u] \in {"looping", "waiting"} => u[1] = 1
    BY <2>1, <2>3 DEF RunsGoOn
  <2>7. \A k \in Runs : loop[k] <= graph.size /\ (k > opened' => loop[k] = 0)
    BY <1>0, <2>1, BoundsAreNat DEF RunsGoOn
  <2>. QED BY <1>0, <2>1, <2>4, <2>5, <2>6, <2>7 DEF RunsGoOn
<1>7. ASSUME NEW k \in Runs, FallbackSubmitted(k) \/ FallbackEnds(k) PROVE RunsGoOn'
  <2>. DEFINE t == <<1, opener[k]>>
  <2>1. /\ UNCHANGED <<graph, fallback, opened, loop, opener>>
        /\ k \in 2..opened /\ t \in Tasks
        /\ state' = [state EXCEPT ![t] = state'[t]]
        /\ \/ state[t] = "looping" /\ loop[k] = graph.size /\ state'[t] \in {"waiting", "leaving", "finished"}
           \/ state[t] = "waiting" /\ state'[t] \in {"leaving", "finished"}
    BY <1>7, FallbackMoves
  <2>2. \A u \in Tasks : u # t => state'[u] = state[u]
    BY <2>1 DEF IInv, TypeOK
  <2>3. ~(loop[k] < graph.size)
    BY <1>0, <2>1 DEF RunsGoOn
  <2>4. \A j \in 2..opened : j # k => <<1, opener[j]>> # t /\ <<1, opener[j]>> \in Tasks
    BY <1>0, <2>1 DEF RunsGoOn
  <2>5. \A j \in 2..opened :
           /\ state'[<<1, opener[j]>>] \in {"looping", "waiting", "leaving", "finished"}
           /\ loop[j] < graph.size => state'[<<1, opener[j]>>] = "looping"
    <3> SUFFICES ASSUME NEW j \in 2..opened
                 PROVE  /\ state'[<<1, opener[j]>>] \in {"looping", "waiting", "leaving", "finished"}
                        /\ loop[j] < graph.size => state'[<<1, opener[j]>>] = "looping"
      OBVIOUS
    <3>1. CASE j = k
      BY <2>1, <2>3, <3>1
    <3>2. CASE j # k
      BY <2>2, <2>4, <3>2 DEF RunsGoOn
    <3>. QED BY <3>1, <3>2
  <2>6. \A u \in Tasks : state'[u] \in {"looping", "waiting"} => fallback /\ u[1] = 1
    BY <2>1, <2>2 DEF RunsGoOn
  <2>. QED BY <2>1, <2>5, <2>6 DEF RunsGoOn
<1>. QED
  BY <1>2, <1>3, <1>4, <1>5, <1>6, <1>7, NextMoves

LEMMA CallerGoesOnStep ==
  ASSUME IInv, CallerGoesOn, Next
  PROVE  CallerGoesOn'
<1>1. graph' = graph /\ (~fallback' => ~fallback)
  BY FallbackStays
<1>2. ASSUME wait' = wait, awaited'[1] = awaited[1], ended' = ended
      PROVE  CallerGoesOn'
  BY <1>1, <1>2 DEF CallerGoesOn
<1>3. ASSUME LoopEnds \/ WaitEnds PROVE CallerGoesOn'
  <2>1. UserWait \subseteq {<<1, n>> : n \in 1..graph.size} \/ fallback
    <3>1. ASSUME ~fallback, NEW t \in (1..opened) \X (1..graph.size)
          PROVE  FutureOf(t) \in {<<1, n>> : n \in 1..graph.size}
      <4>1. opened = 1
        BY <3>1 DEF IInv, RunsOpened
      <4>2. t = <<1, t[2]>> /\ t[2] \in 1..graph.size
        BY <3>1, <4>1
      <4>. QED BY <4>2 DEF FutureOf
    <3>. QED BY <3>1 DEF UserWait
  <2>2. /\ UNCHANGED <<graph, wait, fallback>>
        /\ \/ /\ awaited[1] = {} /\ wait /\ ended' = ended
              /\ awaited' = [awaited EXCEPT ![1] = UserWait]
           \/ awaited[1] = {} /\ ~wait /\ ended' = "returned" /\ awaited' = awaited
           \/ awaited[1] # {} /\ ended' \in {"returned", "raised"} /\ awaited' = awaited
    BY <1>3, CallerMoves
  <2>3. awaited'[1] \in {awaited[1], UserWait}
    BY <2>2, BoundsAreNat DEF IInv, TypeOK
  <2>. QED BY <2>1, <2>2, <2>3 DEF CallerGoesOn
<1>. QED
  BY <1>2, <1>3, NextMoves, WorksMoves, LeaveMoves, FallBackMoves, LoopMoves, FallbackMoves

LEMMA NodesGoOnStep ==
  ASSUME IInv, RunsGoOn, NodesGoOn, Next
  PROVE  NodesGoOn'
<1>0. /\ graph' = graph /\ (fallback => fallback') /\ \A t : Current(t)' => Current(t)
      /\ \A t : FutureOf(t)' = FutureOf(t)
      /\ Roots' = Roots /\ \A n : Predecessors(n)' = Predecessors(n)
  BY FallbackStays, SameGraph
<1>1. ASSUME NEW k \in Runs, NEW n \in Roots, n <= loop'[k] PROVE state'[<<k, n>>] # "new"
  <2>1. <<k, n>> \in Tasks /\ n \in Nat
    BY PairTask, BoundsAreNat DEF Roots
  <2>2. CASE n <= loop[k]
    BY <2>1, <2>2, StateMoves DEF NodesGoOn
  <2>3. CASE ~(n <= loop[k])
    <3>1. ASSUME NEW j \in Runs, SubmitNext(j) PROVE state'[<<k, n>>] # "new"
      <4>1. /\ loop' = [loop EXCEPT ![j] = loop[j] + 1] /\ loop[j] \in Nat
            /\ loop[j] + 1 \in Roots => state'[<<j, loop[j] + 1>>] = "queued"
        BY <3>1, LoopMoves
      <4>2. j = k /\ n = loop[j] + 1
        BY <1>1, <2>1, <2>3, <4>1 DEF IInv, TypeOK
      <4>. QED BY <4>1, <4>2
    <3>2. loop' # loop
      BY <1>1, <2>3
    <3>. QED BY <3>1, <3>2, NextMoves, WorksMoves, LeaveMoves, FallBackMoves, FallbackMoves, CallerMoves
  <2>. QED BY <2>2, <2>3
<1>2. ASSUME NEW t \in Tasks, Current(t)', state'[t] \in {"leaving", "finished"}
      PROVE  Resolved(FutureOf(t))'
  <2>1. Current(t) /\ FutureOf(t) \in Tasks /\ FutureOf(t)' = FutureOf(t)
    BY <1>0, <1>2, FutureType
  <2>2. CASE state[t] \in {"leaving", "finished"}
    BY <2>1, <2>2, ResolvedStays DEF NodesGoOn, Resolved, IInv
  <2>3. CASE state[t] \notin {"leaving", "finished"}
    <3>1. ASSUME NEW u \in Tasks, Works(u) PROVE Resolved(FutureOf(t))'
      <4>1. u = t
        BY <1>2, <2>3, <3>1, WorksMoves DEF IInv, TypeOK
      <4>. QED BY <1>2, <2>1, <3>1, <4>1, WorksMoves
    <3>2. ASSUME NEW u \in Tasks, Leave(u) PROVE FALSE
      BY <1>2, <2>3, <3>2, LeaveMoves
    <3>3. ASSUME NEW u \in Tasks, FallBack(u) PROVE FALSE
      BY <1>2, <2>3, <3>3, FallBackMoves DEF IInv, TypeOK
    <3>4. ASSUME NEW k \in Runs, SubmitNext(k) PROVE FALSE
      BY <1>2, <2>3, <3>4, LoopMoves
    <3>5. ASSUME NEW k \in Runs, FallbackSubmitted(k) \/ FallbackEnds(k) PROVE FALSE
      <4>1. t = <<1, opener[k]>> /\ state[t] \in {"looping", "waiting"}
        BY <1>2, <2>3, <3>5, FallbackMoves DEF IInv, TypeOK
      <4>. QED BY <2>1, <4>1 DEF RunsGoOn, Current
    <3>6. ASSUME LoopEnds \/ WaitEnds PROVE FALSE
      BY <1>2, <2>3, <3>6, CallerMoves
    <3>. QED BY <3>1, <3>2, <3>3, <3>4, <3>5, <3>6, NextMoves
  <2>. QED BY <2>2, <2>3
<1>3. ASSUME NEW t \in Tasks, Current(t)', Predecessors(t[2]) # {},
             \A p \in Predecessors(t[2]) : state'[<<t[1], p>>] = "finished"
      PROVE  state'[t] # "new"
  <2>1. Current(t) /\ \A p \in Predecessors(t[2]) :
           <<t[1], p>> \in Tasks /\ <<t[1], p>>[1] = t[1] /\ <<t[1], p>>[2] = p
           /\ t[2] \in Successors(p)
    <3>1. t[1] \in Runs /\ t[2] \in Nodes
      BY TaskPair
    <3>2. ASSUME NEW p \in Predecessors(t[2]) PROVE p \in Nodes /\ t[2] \in Successors(p)
      BY <3>1, <3>2 DEF Predecessors, Successors
    <3>. QED BY <1>0, <1>3, <3>1, <3>2, PairTask
  <2>2. CASE state[t] # "new"
    BY <2>2, StateMoves
  <2>3. CASE state[t] = "new" /\ \A p \in Predecessors(t[2]) : state[<<t[1], p>>] = "finished"
    BY <1>3, <2>1, <2>3 DEF NodesGoOn
  <2>4. CASE /\ state[t] = "new"
             /\ \E p \in Predecessors(t[2]) : state[<<t[1], p>>] # "finished"
    <3>1. PICK p \in Predecessors(t[2]) : state[<<t[1], p>>] # "finished"
      BY <2>4
    <3>. DEFINE u == <<t[1], p>>
    <3>2. u \in Tasks /\ u[1] = t[1] /\ u[2] = p /\ t[2] \in Successors(p)
          /\ state[u] # "finished" /\ state'[u] = "finished"
      BY <1>3, <2>1, <3>1
    <3>3. Leave(u)
      <4>1. ASSUME NEW v \in Tasks, Works(v) PROVE FALSE
        <5>1. v = u
          BY <3>2, <4>1, WorksMoves DEF IInv, TypeOK
        <5>. QED BY <3>2, <4>1, <5>1, WorksMoves
      <4>2. ASSUME NEW v \in Tasks, Leave(v) PROVE v = u
        BY <3>2, <4>2, LeaveMoves
      <4>3. ASSUME NEW v \in Tasks, FallBack(v) PROVE FALSE
        <5>1. state'[v] = "looping" /\ \A w \in Tasks : w # v => state'[w] = state[w]
          <6>1. state' = [state EXCEPT ![v] = "looping"]
            BY <4>3, FallBackMoves
          <6>. QED BY <6>1 DEF IInv, TypeOK
        <5>. QED BY <3>2, <5>1
      <4>4. ASSUME NEW k \in Runs, SubmitNext(k) PROVE FALSE
        BY <3>2, <4>4, LoopMoves
      <4>5. ASSUME NEW k \in Runs, FallbackSubmitted(k) \/ FallbackEnds(k) PROVE FALSE
        <5>1. u = <<1, opener[k]>>
          BY <3>2, <4>5, FallbackMoves DEF IInv, TypeOK
        <5>2. opener[k] = p
          BY <3>2, <5>1
        <5>. QED BY <3>2, <4>5, <5>1, <5>2, FallbackMoves
      <4>6. ASSUME LoopEnds \/ WaitEnds PROVE FALSE
        BY <3>2, <4>6, CallerMoves
      <4>. QED BY <4>1, <4>2, <4>3, <4>4, <4>5, <4>6, NextMoves
    <3>4. ASSUME NEW q \in Predecessors(t[2]) PROVE Done(<<t[1], q>>)
      <4>1. <<t[1], q>> \in Tasks /\ <<t[1], q>>[1] = t[1] /\ state'[<<t[1], q>>] = "finished"
        BY <1>3, <2>1
      <4>2. state[<<t[1], q>>] \in {"leaving", "finished"}
        BY <3>2, <3>3, <4>1, LeaveMoves
      <4>3. Current(<<t[1], q>>)
        BY <2>1, <4>1 DEF Current
      <4>. QED BY <4>1, <4>2, <4>3 DEF NodesGoOn, Done, Submitted
    <3>5. t[2] \in Ready(u) /\ t # u
      <4>1. t = <<t[1], t[2]>> /\ state[u] = "leaving"
        BY <3>2, <3>3, TaskPair, LeaveMoves
      <4>2. t # u
        BY <2>4, <4>1
      <4>3. ~InSubmits(<<t[1], t[2]>>)
        BY <2>4, <4>1 DEF InSubmits, Submitted
      <4>4. t[2] \in Ready(u)
        BY <3>2, <3>4, <4>3 DEF Ready
      <4>. QED BY <4>2, <4>4
    <3>. QED BY <3>2, <3>3, <3>5 DEF Leave
  <2>. QED BY <2>2, <2>3, <2>4
<1>. QED BY <1>0, <1>1, <1>2, <1>3 DEF NodesGoOn

LEMMA GoesOnStep ==
  ASSUME IInv, GoesOn, [Next]_vars
  PROVE  GoesOn'
<1>1. CASE Next
  BY <1>1, RunsGoOnStep, NodesGoOnStep, CallerGoesOnStep DEF GoesOn
<1>2. CASE UNCHANGED vars
  BY <1>2, SameGraph DEF vars, GoesOn, RunsGoOn, NodesGoOn, CallerGoesOn, Current, Resolved
<1>. QED BY <1>1, <1>2

-----------------------------------------------------------------------------
(* Where nobody can step                                                   *)

\* No thread of run k, and not the one that runs its loop, can go on.
RunStands(k) == ~Looping(k) /\ \A n \in Nodes : ~TaskGuard(<<k, n>>)

LEMMA NobodyActive ==
  ASSUME IInv, GoesOn, NEW k \in Runs, k > 1 \/ ~fallback, RunStands(k)
  PROVE  \A n \in Nodes : state[<<k, n>>] \in {"new", "finished"}
<1>1. \A n \in Nodes : <<k, n>> \in Tasks /\ <<k, n>>[1] = k /\ <<k, n>>[2] = n
  BY PairTask
<1>2. \A n \in Nodes : state[<<k, n>>] \in {"new", "queued", "finished"}
  BY <1>1, BoundsAreNat DEF IInv, TypeOK, GoesOn, RunsGoOn, RunStands, TaskGuard
<1>3. {n \in Nodes : state[<<k, n>>] \notin {"new", "queued", "finished"}} = {}
  BY <1>2
<1>4. ThreadFree(k)
  <2>1. NParallel \in Nat /\ NParallel # 0
    BY ExecuteAssumption
  <2>2. Cardinality({n \in Nodes : state[<<k, n>>] \notin {"new", "queued", "finished"}}) = 0
    BY <1>3, FS_EmptySet
  <2>. QED BY <2>1, <2>2 DEF ThreadFree
<1>. QED BY <1>1, <1>2, <1>4 DEF RunStands, TaskGuard

\* Then every node of the run has left: the first that has not, in the order
\* of the dag, is a root or its predecessors have.
LEMMA AllLeft ==
  ASSUME IInv, GoesOn, NEW k \in 1..opened, k > 1 \/ ~fallback, RunStands(k)
  PROVE  \A n \in 1..graph.size : state[<<k, n>>] = "finished" /\ Resolved(FutureOf(<<k, n>>))
<1>0. /\ k \in Runs /\ graph.size \in Nat /\ 1..graph.size \subseteq Nodes /\ loop[k] \in Nat
      /\ \A n \in Nodes : /\ <<k, n>> \in Tasks /\ <<k, n>>[1] = k /\ <<k, n>>[2] = n
                          /\ n \in Nat
  <2>1. opened \in Runs /\ graph \in Graphs
    BY DEF IInv, TypeOK
  <2>2. k \in Runs /\ graph.size \in Nodes
    BY <2>1, BoundsAreNat, GraphType DEF Runs
  <2>3. loop[k] \in Nat
    BY <2>2, BoundsAreNat DEF IInv, TypeOK
  <2>. QED BY <2>2, <2>3, PairTask, BoundsAreNat DEF Nodes
<1>1. \A n \in Nodes : state[<<k, n>>] \in {"new", "finished"}
  BY <1>0, NobodyActive
<1>2. loop[k] = graph.size
  <2>1. loop[k] <= graph.size
    BY <1>0 DEF GoesOn, RunsGoOn
  <2>2. CASE k = 1
    BY <1>0, <2>1, <2>2 DEF RunStands, Looping
  <2>3. CASE k > 1
    BY <1>0, <2>1, <2>3 DEF RunStands, Looping, GoesOn, RunsGoOn
  <2>. QED BY <1>0, <2>2, <2>3
<1>. DEFINE Rest == {n \in 1..graph.size : state[<<k, n>>] = "new"}
<1>3. Rest = {}
  <2> SUFFICES ASSUME Rest # {} PROVE FALSE
    OBVIOUS
  <2>1. Rest \in SUBSET Nodes
    BY <1>0
  <2>. DEFINE n == First(Rest)
  <2>2. n \in Rest /\ \A m \in Rest : n <= m
    BY <2>1, FirstIsLeast
  <2>3. n \in 1..graph.size /\ n \in Nodes /\ state[<<k, n>>] = "new"
    BY <1>0, <2>2
  <2>. HIDE DEF n
  <2>4. Predecessors(n) # {}
    <3>1. ASSUME Predecessors(n) = {} PROVE FALSE
      <4>1. n \in Roots
        BY <2>3, <3>1 DEF Roots
      <4>2. n <= loop[k]
        BY <1>0, <1>2, <2>3
      <4>. QED BY <1>0, <2>3, <4>1, <4>2 DEF GoesOn, NodesGoOn
    <3>. QED BY <3>1
  <2>5. ASSUME NEW p \in Predecessors(n) PROVE state[<<k, p>>] = "finished"
    <3>1. p \in Nodes /\ <<p, n>> \in graph.edges
      BY <2>5 DEF Predecessors
    <3>2. p \in 1..graph.size /\ p < n
      BY <3>1, ExecuteAssumption DEF IInv, TypeOK
    <3>3. p \notin Rest
      BY <1>0, <2>2, <2>3, <3>1, <3>2
    <3>. QED BY <1>1, <3>1, <3>2, <3>3
  <2>6. Current(<<k, n>>)
    BY <1>0, <2>3 DEF Current
  <2>7. state[<<k, n>>] # "new"
    BY <1>0, <2>3, <2>4, <2>5, <2>6 DEF GoesOn, NodesGoOn
  <2>. QED BY <2>3, <2>7
<1>4. \A n \in 1..graph.size : state[<<k, n>>] = "finished"
  BY <1>0, <1>1, <1>3
<1>5. \A n \in 1..graph.size : Current(<<k, n>>)
  BY <1>0 DEF Current
<1>. QED BY <1>0, <1>4, <1>5 DEF GoesOn, NodesGoOn

\* No thread of the dag has a step to make.
DagStands ==
  /\ \A t \in Tasks : ~TaskGuard(t)
  /\ \A k \in Runs : ~RunGuard(k)
  /\ ~CallerGuard

\* What was promised is then done; only a caller that waits for a dag that
\* fell back may be left waiting.
DagDone ==
  /\ \A n \in graph.results : Resolved(<<1, n>>)
  /\ (wait /\ fallback) \/ ended # "no"

LEMMA StandsDone ==
  ASSUME IInv, GoesOn, DagStands
  PROVE  DagDone
<1>0. /\ opened \in Nat /\ opened >= 1 /\ 1..opened \subseteq Runs /\ graph.size \in Nat
      /\ graph.results \subseteq 1..graph.size /\ 1..graph.size \subseteq Nodes
      /\ graph.size >= 1
  <2>1. opened \in Runs /\ graph \in Graphs
    BY DEF IInv, TypeOK
  <2>2. graph.size \in Nodes /\ graph.results \subseteq 1..graph.size
    BY <2>1, ExecuteAssumption
  <2>. QED BY <2>1, <2>2, BoundsAreNat DEF Runs, Nodes
<1>1. \A k \in 1..opened : RunStands(k)
  BY <1>0, PairTask DEF DagStands, RunGuard, RunStands
<1>2. PICK k \in 1..opened : /\ k > 1 \/ ~fallback
                             /\ ~fallback => k = 1
  BY <1>0 DEF GoesOn, RunsGoOn
<1>3. \A n \in 1..graph.size : Resolved(FutureOf(<<k, n>>))
  BY <1>1, <1>2, AllLeft
<1>4. \A n \in graph.results : Resolved(<<1, n>>)
  BY <1>0, <1>3 DEF FutureOf
<1>5. ASSUME ended = "no", ~(wait /\ fallback) PROVE FALSE
  <2>1. loop[1] = graph.size
    <3>1. loop[1] \in Nat /\ loop[1] <= graph.size
      BY BoundsAreNat DEF GoesOn, RunsGoOn, IInv, TypeOK
    <3>2. ~Looping(1)
      BY <1>0, <1>1 DEF RunStands
    <3>. QED BY <1>0, <3>1, <3>2 DEF Looping
  <2>2. awaited[1] # {}
    BY <1>5, <2>1 DEF DagStands, CallerGuard
  <2>3. wait /\ ~fallback
    BY <1>5, <2>2 DEF GoesOn, CallerGoesOn
  <2>4. \A f \in awaited[1] : Resolved(f)
    <3>1. \A n \in 1..graph.size : Resolved(<<1, n>>)
      BY <1>0, <1>2, <1>3, <2>3, FutureOfFirst
    <3>. QED BY <2>3, <3>1 DEF GoesOn, CallerGoesOn
  <2>. QED BY <1>5, <2>2, <2>4 DEF DagStands, CallerGuard
<1>. QED BY <1>4, <1>5 DEF DagDone

LEMMA DagGoesOn == Spec => []GoesOn
<1>1. Init => GoesOn
  BY GoesOnInit
<1>2. IInv /\ GoesOn /\ [Next]_vars => GoesOn'
  BY GoesOnStep
<1>. QED BY <1>1, <1>2, DagInvariant, PTL DEF Spec

(* Nobody is forgotten.  Wherever a dag, of any shape, with any number of    *)
(* threads and whatever its nodes did, has come to where no thread can go    *)
(* on, every future that was handed out is resolved, if need be by the first *)
(* fallback, and the caller has returned, unless it waits and a node fell    *)
(* back.  So the last of a node's predecessors to leave did submit it,       *)
(* although each looked only at what was done when it left.                  *)
THEOREM NoNodeIsForgotten == Spec => [](DagStands => DagDone)
<1>1. IInv /\ GoesOn => (DagStands => DagDone)
  BY StandsDone
<1>. QED BY <1>1, DagInvariant, DagGoesOn, PTL

-----------------------------------------------------------------------------
(* Delayed calls                                                           *)

\* The loop stands at a call while it attaches and relays one.
LoopAtCall ==
  /\ entries \subseteq graph.results
  /\ place \in {"attach", "test", "relay"} => at \in graph.results
  /\ place = "relay" => Resolved(<<1, at>>)

\* A callback runs for a future that is resolved.
CallbacksAfterFutures ==
  \A n \in Nodes :
    /\ relay[n] \in {"registered", "called"} => n \in graph.results
    /\ relay[n] = "called" => Resolved(<<1, n>>)

Relayed ==
  \A n \in graph.results :
    /\ UserResolved(n) => user[n] = future[<<1, n>>]
    /\ n \in entries <=> ~UserResolved(n)

ReturnedWithAll ==
  place = "returned" =>
    entries = {} /\ ~running /\ \A n \in graph.results : user[n] = "value"

UserTypeOK == user \in [Nodes -> {"pending", "running", "value", "error"}]

CallbackTypeOK == relay \in [Nodes -> {"none", "registered", "called", "over"}]

DelayUsed == place # "unused" => graph \in DelayGraphs

DelayInv ==
  /\ UserTypeOK /\ CallbackTypeOK /\ LoopAtCall /\ CallbacksAfterFutures
  /\ Relayed /\ ReturnedWithAll /\ DelayUsed

-----------------------------------------------------------------------------
LEMMA DelayStepsAreDagSteps ==
  ASSUME [DelayNext]_allVars
  PROVE  [Next]_vars
BY DEF DelayNext, DagStep, DelayStep, Callback, allVars

LEMMA DelayStarts == DelayInit => DelayInv
<1> SUFFICES ASSUME DelayInit PROVE DelayInv
  OBVIOUS
<1>1. graph.results \subseteq Nodes
  BY GraphType DEF DelayInit, Init
<1>. QED
  BY <1>1 DEF DelayInit, DelayInv, UserTypeOK, CallbackTypeOK, LoopAtCall, CallbacksAfterFutures,
     Relayed, ReturnedWithAll, UserResolved, DelayUsed

LEMMA DelayStepKeeps ==
  ASSUME IInv, DelayInv, DelayNext
  PROVE  DelayInv'
<1>. USE DEF IInv
<1>0. graph.results \subseteq Nodes /\ \A n \in Nodes : <<1, n>> \in Tasks
  BY GraphType, PairTask, BoundsAreNat DEF TypeOK
<1>1. ASSUME NEW n \in Nodes, Callback(n) PROVE DelayInv'
  <2>1. n \in graph.results /\ Resolved(<<1, n>>) /\ graph' = graph /\ future' = future
    BY <1>1 DEF DelayInv, CallbacksAfterFutures, Callback, vars
  <2>2. CASE UserResolved(n)
    <3>1. UNCHANGED <<graph, future, place, at, user, entries, running, delayed>>
      BY <1>1, <2>2 DEF Callback, vars
    <3>2. CallbackTypeOK' /\ CallbacksAfterFutures'
      BY <1>1, <2>1 DEF Callback, DelayInv, CallbackTypeOK, CallbacksAfterFutures, Resolved
    <3>. QED
      BY <3>1, <3>2 DEF DelayInv, UserTypeOK, LoopAtCall, Relayed, ReturnedWithAll,
         UserResolved, Resolved, DelayUsed
  <2>3. CASE ~UserResolved(n)
    <3>1. /\ UNCHANGED <<graph, future, place, at, running, delayed>>
          /\ user' = [user EXCEPT ![n] = future[<<1, n>>]] /\ entries' = entries \ {n}
      BY <1>1, <2>3 DEF Callback, vars, Relay, Removed
    <3>2. CallbackTypeOK' /\ CallbacksAfterFutures'
      BY <1>1, <2>1 DEF Callback, DelayInv, CallbackTypeOK, CallbacksAfterFutures, Resolved
    <3>3. place # "returned"
      BY <2>1, <2>3 DEF DelayInv, ReturnedWithAll, Relayed
    <3>4. UserTypeOK' /\ LoopAtCall'
      BY <2>1, <3>1 DEF DelayInv, UserTypeOK, LoopAtCall, Resolved
    <3>5. Relayed'
      BY <1>0, <2>1, <3>1 DEF DelayInv, UserTypeOK, Relayed, UserResolved, Resolved
    <3>. QED BY <3>1, <3>2, <3>3, <3>4, <3>5 DEF DelayInv, ReturnedWithAll, DelayUsed
  <2>. QED BY <2>2, <2>3
<1>2. ASSUME DagStep(Next) PROVE DelayInv'
  <2>1. /\ graph' = graph /\ UNCHANGED <<delayed, place, at, running, entries, user>>
        /\ \A n \in Nodes : Resolved(<<1, n>>) =>
             future'[<<1, n>>] = future[<<1, n>>] /\ Resolved(<<1, n>>)'
    BY <1>0, <1>2, StepKeepsGraph, ResolvedStays DEF DagStep, Resolved
  <2>2. CallbackTypeOK' /\ CallbacksAfterFutures'
    BY <1>2, <2>1 DEF DagStep, DelayInv, CallbackTypeOK, CallbacksAfterFutures, Resolved
  <2>3. UserTypeOK' /\ LoopAtCall' /\ ReturnedWithAll'
    BY <1>0, <2>1 DEF DelayInv, UserTypeOK, LoopAtCall, ReturnedWithAll
  <2>4. \A n \in graph.results : UserResolved(n) => Resolved(<<1, n>>)
    BY DEF DelayInv, Relayed, UserResolved, Resolved
  <2>5. Relayed'
    BY <1>0, <2>1, <2>4 DEF DelayInv, Relayed, UserResolved
  <2>. QED BY <2>1, <2>2, <2>3, <2>5 DEF DelayInv, DelayUsed
<1>3. ASSUME DelayStep PROVE DelayInv'
  <2>0. graph' = graph /\ future' = future
    BY <1>3 DEF DelayStep, vars
  <2>1. ASSUME Batched PROVE DelayInv'
    <3>1. First(graph.results) \in graph.results
      BY <1>0, <2>1, FirstIsLeast, DelayAssumption DEF Batched, DelayInv, DelayUsed
    <3>. QED
      BY <2>0, <2>1, <3>1 DEF Batched, DelayInv, UserTypeOK, CallbackTypeOK, LoopAtCall,
         CallbacksAfterFutures, Relayed, ReturnedWithAll, DelayUsed, UserResolved, Resolved
  <2>2. ASSUME Attach PROVE DelayInv'
    <3>1. at \in graph.results /\ at \in Nodes
      BY <1>0, <2>2 DEF Attach, DelayInv, LoopAtCall
    <3>2. CASE Resolved(<<1, at>>)
      <4>1. /\ UNCHANGED <<delayed, at, running, relay>> /\ place' = "test"
            /\ user' = [user EXCEPT ![at] = future[<<1, at>>]] /\ entries' = entries \ {at}
        BY <2>2, <3>2 DEF Attach, Relay, Removed
      <4>2. UserTypeOK' /\ LoopAtCall'
        BY <2>0, <2>2, <3>1, <3>2, <4>1
        DEF Attach, DelayInv, UserTypeOK, LoopAtCall, Resolved
      <4>3. Relayed'
        BY <1>0, <2>0, <3>1, <3>2, <4>1 DEF DelayInv, UserTypeOK, Relayed, UserResolved, Resolved
      <4>4. CallbackTypeOK' /\ CallbacksAfterFutures'
        BY <2>0, <4>1 DEF DelayInv, CallbackTypeOK, CallbacksAfterFutures, Resolved
      <4>. QED BY <2>0, <2>2, <4>1, <4>2, <4>3, <4>4
               DEF Attach, DelayInv, ReturnedWithAll, DelayUsed
    <3>3. CASE ~Resolved(<<1, at>>)
      <4>1. /\ UNCHANGED <<delayed, at, running, entries>> /\ place' = "test"
            /\ user' = [user EXCEPT ![at] = "running"]
            /\ relay' = [relay EXCEPT ![at] = "registered"]
        BY <2>2, <3>3 DEF Attach
      <4>2. ~UserResolved(at)
        BY <3>1, <3>3 DEF DelayInv, Relayed, UserResolved, Resolved
      <4>3. UserTypeOK' /\ LoopAtCall'
        BY <2>0, <3>1, <4>1 DEF DelayInv, UserTypeOK, LoopAtCall, Resolved
      <4>4. Relayed'
        BY <1>0, <2>0, <3>1, <4>1, <4>2 DEF DelayInv, UserTypeOK, Relayed, UserResolved
      <4>5. CallbackTypeOK' /\ CallbacksAfterFutures'
        BY <2>0, <3>1, <4>1 DEF DelayInv, CallbackTypeOK, CallbacksAfterFutures, Resolved
      <4>. QED BY <2>0, <2>2, <4>1, <4>3, <4>4, <4>5
               DEF Attach, DelayInv, ReturnedWithAll, DelayUsed
    <3>. QED BY <3>2, <3>3
  <2>3. ASSUME Advance, UNCHANGED <<delayed, running, relay, user, entries>>,
               place \in {"test", "relay"}
        PROVE  DelayInv'
    <3>1. at' \in graph.results \/ place' = "wait"
      BY <1>0, <2>3, FirstIsLeast DEF Advance
    <3>2. place' \in {"wait", "attach"}
      BY <2>3 DEF Advance
    <3>. QED
      BY <2>0, <2>3, <3>1, <3>2 DEF DelayInv, UserTypeOK, CallbackTypeOK, LoopAtCall,
         CallbacksAfterFutures, Relayed, ReturnedWithAll, DelayUsed, UserResolved, Resolved
  <2>4. ASSUME Test PROVE DelayInv'
    <3>1. CASE Resolved(<<1, at>>) /\ ~UserResolved(at)
      BY <2>0, <2>4, <3>1 DEF Test, DelayInv, UserTypeOK, CallbackTypeOK, LoopAtCall,
         CallbacksAfterFutures, Relayed, ReturnedWithAll, DelayUsed, UserResolved, Resolved
    <3>2. CASE ~(Resolved(<<1, at>>) /\ ~UserResolved(at))
      BY <2>3, <2>4, <3>2 DEF Test
    <3>. QED BY <3>1, <3>2
  <2>5. ASSUME RelayInCaller PROVE DelayInv'
    <3>1. at \in graph.results /\ at \in Nodes /\ Resolved(<<1, at>>)
      BY <1>0, <2>5 DEF RelayInCaller, DelayInv, LoopAtCall
    <3>2. CASE at \in entries
      <4>1. /\ UNCHANGED <<delayed, running, relay>> /\ Advance
            /\ user' = [user EXCEPT ![at] = future[<<1, at>>]] /\ entries' = entries \ {at}
        BY <2>5, <3>2 DEF RelayInCaller, Relay, Removed
      <4>2. /\ place' \in {"wait", "attach"} /\ place = "relay"
            /\ at' \in graph.results \/ place' = "wait"
        BY <1>0, <2>5, <4>1, FirstIsLeast DEF Advance, RelayInCaller
      <4>3. UserTypeOK' /\ LoopAtCall'
        BY <2>0, <3>1, <4>1, <4>2 DEF DelayInv, UserTypeOK, LoopAtCall, Resolved
      <4>4. Relayed'
        BY <1>0, <2>0, <3>1, <4>1 DEF DelayInv, UserTypeOK, Relayed, UserResolved, Resolved
      <4>5. CallbackTypeOK' /\ CallbacksAfterFutures'
        BY <2>0, <4>1 DEF DelayInv, CallbackTypeOK, CallbacksAfterFutures, Resolved
      <4>. QED BY <2>0, <4>2, <4>3, <4>4, <4>5 DEF DelayInv, ReturnedWithAll, DelayUsed
    <3>3. CASE at \notin entries
      BY <2>0, <2>5, <3>3 DEF RelayInCaller, DelayInv, UserTypeOK, CallbackTypeOK, LoopAtCall,
         CallbacksAfterFutures, Relayed, ReturnedWithAll, DelayUsed, UserResolved, Resolved
    <3>. QED BY <3>2, <3>3
  <2>6. ASSUME WaitForUser PROVE DelayInv'
    <3>1. entries = {}
      BY <2>6 DEF WaitForUser, DelayInv, LoopAtCall, Relayed
    <3>. QED
      BY <2>0, <2>6, <3>1 DEF WaitForUser, DelayInv, UserTypeOK, CallbackTypeOK, LoopAtCall,
         CallbacksAfterFutures, Relayed, ReturnedWithAll, DelayUsed, UserResolved, Resolved
  <2>. QED BY <1>3, <2>1, <2>2, <2>4, <2>5, <2>6 DEF DelayStep
<1>. QED
  BY <1>1, <1>2, <1>3 DEF DelayNext

-----------------------------------------------------------------------------
LEMMA DelayedDag == DelaySpec => []IInv
<1>1. DelayInit => IInv
  BY DagInit DEF DelayInit
<1>2. IInv /\ [DelayNext]_allVars => IInv'
  BY IInvStep, DelayStepsAreDagSteps
<1>. QED BY <1>1, <1>2, PTL DEF DelaySpec

LEMMA DelayInvariant == DelaySpec => []DelayInv
<1>1. IInv /\ DelayInv /\ [DelayNext]_allVars => DelayInv'
  <2> SUFFICES ASSUME IInv, DelayInv, [DelayNext]_allVars PROVE DelayInv'
    OBVIOUS
  <2>1. CASE UNCHANGED allVars
    BY <2>1 DEF allVars, vars, delayVars, DelayInv, UserTypeOK, CallbackTypeOK, LoopAtCall,
       CallbacksAfterFutures, Relayed, ReturnedWithAll, DelayUsed, UserResolved, Resolved
  <2>. QED BY <2>1, DelayStepKeeps
<1>. QED BY <1>1, DelayStarts, DelayedDag, PTL DEF DelaySpec

(* The user's futures tell what the engine's tell, although the caller and   *)
(* the callbacks relay them both, and execute returns with all of them.      *)
THEOREM RelaysTellTheTruth == DelaySpec => []RelaysAreTrue
<1>1. DelayInv => RelaysAreTrue
  BY DEF DelayInv, Relayed, ReturnedWithAll, RelaysAreTrue
<1>. QED BY DelayInvariant, <1>1, PTL

(* A dag that Delay executes calls its nodes in order too, and its futures   *)
(* tell what they did.                                                       *)
THEOREM DelayedDagInOrder == DelaySpec => [](CalledInOrder /\ OutcomesAreTrue)
<1>1. IInv => CalledInOrder /\ OutcomesAreTrue
  BY DEF IInv
<1>. QED BY DelayedDag, <1>1, PTL

-----------------------------------------------------------------------------
(* Delay.execute comes to an end                                           *)

\* Calls the loop over the futures has yet to attach a callback to.
Ahead(n) ==
  \/ place \in {"unused", "batch"}
  \/ place = "attach" /\ n >= at
  \/ place \in {"test", "relay"} /\ n > at

\* A call the loop has passed is relayed or will be, by its callback.
RelaysGoOn ==
  /\ \A n \in Nodes : Ahead(n) => relay[n] = "none"
  /\ \A n \in graph.results :
       Ahead(n) \/ place = "raised" \/ UserResolved(n) \/ relay[n] \in {"registered", "called"}
  /\ \A n \in Nodes : relay[n] = "registered" => ~Resolved(<<1, n>>)

PlacesGoOn ==
  /\ place \in {"unused", "batch", "attach", "test", "relay", "wait", "returned", "raised"}
  /\ at \in 0..N
  /\ delayed => ~wait /\ place # "unused"

DelayGoesOn == RelaysGoOn /\ PlacesGoOn

\* The next call of the loop, or the wait after the last.
LEMMA AdvanceMoves ==
  ASSUME IInv, Advance, at \in Nodes
  PROVE  /\ at' \in 0..N
         /\ \/ place' = "attach" /\ at' \in graph.results /\ at' > at
               /\ \A n \in graph.results : n > at => n >= at'
            \/ place' = "wait" /\ \A n \in graph.results : ~(n > at)
<1>. DEFINE rest == {n \in graph.results : n > at}
<1>1. rest \in SUBSET Nodes /\ Nodes \subseteq 0..N
  BY GraphType, BoundsAreNat DEF IInv, TypeOK, Nodes
<1>2. at' = First(rest) /\ place' = IF rest = {} THEN "wait" ELSE "attach"
  BY DEF Advance
<1>3. CASE rest = {}
  BY <1>2, <1>3, BoundsAreNat DEF First
<1>4. CASE rest # {}
  <2>1. First(rest) \in rest /\ \A m \in rest : First(rest) <= m
    BY <1>1, <1>4, FirstIsLeast
  <2>2. at \in Nat /\ \A m \in rest : m \in Nat
    BY <1>1, BoundsAreNat
  <2>. QED BY <1>1, <1>2, <1>4, <2>1, <2>2
<1>. QED BY <1>3, <1>4

LEMMA DelayGoesOnInit == DelayInit => DelayGoesOn
BY BoundsAreNat DEF DelayInit, DelayGoesOn, RelaysGoOn, PlacesGoOn, Ahead

LEMMA DelayGoesOnStep ==
  ASSUME IInv, GoesOn, DelayInv, DelayGoesOn, DelayNext
  PROVE  DelayGoesOn'
<1>0. /\ graph.results \subseteq Nodes /\ at \in Nat /\ N \in Nat
      /\ \A n \in Nodes : <<1, n>> \in Tasks /\ n \in Nat
      /\ user \in [Nodes -> {"pending", "running", "value", "error"}]
      /\ relay \in [Nodes -> {"none", "registered", "called", "over"}]
  BY GraphType, PairTask, BoundsAreNat
  DEF IInv, TypeOK, DelayGoesOn, PlacesGoOn, DelayInv, UserTypeOK, CallbackTypeOK
<1>1. ASSUME DagStep(Next) PROVE DelayGoesOn'
  <2>1. UNCHANGED <<graph, wait, delayed, place, at, user>>
    BY <1>1, FallbackStays DEF DagStep
  <2>2. \A n \in Nodes : relay'[n] = IF relay[n] = "registered" /\ Resolved(<<1, n>>)'
                                     THEN "called" ELSE relay[n]
    BY <1>1 DEF DagStep, Resolved
  <2>3. \A n \in Nodes : Resolved(<<1, n>>) => Resolved(<<1, n>>)'
    BY <1>0, <1>1, ResolvedStays DEF IInv, DagStep, Resolved
  <2>. QED BY <1>0, <2>1, <2>2, <2>3
           DEF DelayGoesOn, RelaysGoOn, PlacesGoOn, Ahead, UserResolved
<1>2. ASSUME NEW n \in Nodes, Callback(n) PROVE DelayGoesOn'
  <2>1. /\ UNCHANGED <<graph, wait, delayed, place, at, future>>
        /\ relay[n] = "called" /\ relay' = [relay EXCEPT ![n] = "over"]
    BY <1>2 DEF Callback, vars
  <2>2. UserResolved(n)'
    <3>1. Resolved(<<1, n>>)
      BY <2>1 DEF DelayInv, CallbacksAfterFutures
    <3>. QED BY <1>0, <1>2, <3>1 DEF Callback, Relay, UserResolved, Resolved
  <2>3. \A m \in Nodes : UserResolved(m) => UserResolved(m)'
    BY <1>0, <1>2, <2>2 DEF Callback, Relay, UserResolved
  <2>4. \A m \in Nodes : m # n => relay'[m] = relay[m]
    BY <1>0, <2>1
  <2>5. ~Ahead(n)
    BY <2>1 DEF DelayGoesOn, RelaysGoOn
  <2>6. relay'[n] = "over"
    BY <1>0, <2>1
  <2>. QED BY <1>0, <2>1, <2>2, <2>3, <2>4, <2>5, <2>6
           DEF DelayGoesOn, RelaysGoOn, PlacesGoOn, Ahead, Resolved
<1>3. ASSUME DelayStep PROVE DelayGoesOn'
  <2>0. UNCHANGED <<graph, wait, future>> /\ delayed' = delayed
    BY <1>3 DEF DelayStep, vars, Batched, Attach, Test, RelayInCaller, WaitForUser
  <2>1. CASE Batched
    <3>1. First(graph.results) \in graph.results /\ \A m \in graph.results : First(graph.results) <= m
      BY <1>0, <2>1, FirstIsLeast, DelayAssumption DEF Batched, DelayInv, DelayUsed
    <3>2. /\ place = "batch" /\ place' = "attach" /\ user' = user /\ relay' = relay
          /\ at' \in graph.results /\ \A m \in graph.results : at' <= m
      BY <2>1, <3>1 DEF Batched
    <3>3. at' \in 0..N /\ at' \in Nat
      BY <1>0, <3>2 DEF Nodes
    <3>. QED BY <1>0, <2>0, <3>2, <3>3
             DEF DelayGoesOn, RelaysGoOn, PlacesGoOn, Ahead, UserResolved, Resolved
  <2>2. CASE Attach
    <3>1. at \in graph.results /\ place = "attach" /\ place' = "test" /\ at' = at
      BY <2>2 DEF Attach, DelayInv, LoopAtCall
    <3>2. \A n \in Nodes : Ahead(n)' <=> (Ahead(n) /\ n # at)
      <4>1. \A n \in Nodes : (Ahead(n) <=> n >= at) /\ (Ahead(n)' <=> n > at)
        BY <3>1 DEF Ahead
      <4>2. \A n \in Nodes : n > at <=> (n >= at /\ n # at)
        BY <1>0, BoundsAreNat
      <4>. QED BY <4>1, <4>2
    <3>3. CASE Resolved(<<1, at>>)
      <4>1. user' = [user EXCEPT ![at] = future[<<1, at>>]] /\ relay' = relay
        BY <2>2, <3>3 DEF Attach, Relay
      <4>2. UserResolved(at)' /\ \A n \in Nodes : n # at => user'[n] = user[n]
        BY <1>0, <3>1, <3>3, <4>1 DEF UserResolved, Resolved
      <4>. QED BY <1>0, <2>0, <3>1, <3>2, <4>1, <4>2
               DEF DelayGoesOn, RelaysGoOn, PlacesGoOn, UserResolved, Resolved
    <3>4. CASE ~Resolved(<<1, at>>)
      <4>1. user' = [user EXCEPT ![at] = "running"] /\ relay' = [relay EXCEPT ![at] = "registered"]
        BY <2>2, <3>4 DEF Attach
      <4>2. \A n \in Nodes : /\ n # at => user'[n] = user[n] /\ relay'[n] = relay[n]
                             /\ n = at => relay'[n] = "registered"
        BY <1>0, <4>1
      <4>. QED BY <1>0, <2>0, <3>1, <3>2, <3>4, <4>2
               DEF DelayGoesOn, RelaysGoOn, PlacesGoOn, UserResolved, Resolved
    <3>. QED BY <3>3, <3>4
  <2>3. ASSUME Advance, relay' = relay, place \in {"test", "relay"},
               user'[at] \in {"value", "error"} \/ relay[at] \in {"registered", "called"},
               \A n \in Nodes : UserResolved(n) => UserResolved(n)'
        PROVE  DelayGoesOn'
    <3>1. at \in graph.results /\ at \in Nodes
      BY <1>0, <2>3 DEF DelayInv, LoopAtCall
    <3>2. /\ at' \in 0..N /\ at' \in Nat
          /\ \/ place' = "attach" /\ at' \in graph.results /\ at' > at
                /\ \A n \in graph.results : n > at => n >= at'
             \/ place' = "wait" /\ \A n \in graph.results : ~(n > at)
      BY <1>0, <2>3, <3>1, AdvanceMoves
    <3>3. \A n \in Nodes : (Ahead(n) <=> n > at) /\ (Ahead(n)' <=> place' = "attach" /\ n >= at')
      BY <2>3, <3>2 DEF Ahead
    <3>4. \A n \in Nodes : Ahead(n)' => Ahead(n)
      <4>1. \A n \in Nodes : place' = "attach" /\ n >= at' => n > at
        BY <1>0, <3>2, BoundsAreNat
      <4>. QED BY <3>3, <4>1
    <3>5. \A n \in graph.results : Ahead(n) => Ahead(n)'
      BY <1>0, <3>2, <3>3
    <3>6. ASSUME NEW n \in graph.results, ~Ahead(n)'
          PROVE  UserResolved(n)' \/ relay'[n] \in {"registered", "called"}
      <4>1. n = at => UserResolved(n)' \/ relay'[n] \in {"registered", "called"}
        BY <2>3 DEF UserResolved
      <4>2. ~Ahead(n) /\ n \in Nodes
        BY <1>0, <3>5, <3>6
      <4>. QED BY <2>3, <4>1, <4>2 DEF DelayGoesOn, RelaysGoOn
    <3>. QED BY <1>0, <2>0, <2>3, <3>2, <3>4, <3>6
             DEF DelayGoesOn, RelaysGoOn, PlacesGoOn, Resolved
  <2>4. CASE Test
    <3>1. CASE Resolved(<<1, at>>) /\ ~UserResolved(at)
      BY <2>0, <2>4, <3>1 DEF Test, DelayGoesOn, RelaysGoOn, PlacesGoOn, Ahead, UserResolved, Resolved
    <3>2. CASE ~(Resolved(<<1, at>>) /\ ~UserResolved(at))
      <4>1. place = "test" /\ user' = user /\ relay' = relay /\ Advance
        BY <2>4, <3>2 DEF Test
      <4>2. at \in graph.results /\ ~Ahead(at)
        BY <1>0, <4>1 DEF DelayInv, LoopAtCall, Ahead
      <4>3. UserResolved(at) \/ relay[at] \in {"registered", "called"}
        BY <4>1, <4>2 DEF DelayGoesOn, RelaysGoOn
      <4>. QED BY <2>3, <4>1, <4>3 DEF UserResolved
    <3>. QED BY <3>1, <3>2
  <2>5. CASE RelayInCaller
    <3>1. at \in graph.results /\ Resolved(<<1, at>>) /\ place = "relay" /\ relay' = relay
      BY <2>5 DEF RelayInCaller, DelayInv, LoopAtCall
    <3>2. CASE at \in entries
      <4>1. user' = [user EXCEPT ![at] = future[<<1, at>>]] /\ Advance
        BY <2>5, <3>2 DEF RelayInCaller, Relay
      <4>2. \A n \in Nodes : user'[n] = IF n = at THEN future[<<1, at>>] ELSE user[n]
        BY <1>0, <4>1
      <4>3. at \in Nodes /\ future[<<1, at>>] \in {"value", "error"}
        BY <1>0, <3>1 DEF Resolved
      <4>4. \A n \in Nodes : UserResolved(n) => UserResolved(n)'
        BY <4>2, <4>3 DEF UserResolved
      <4>. QED BY <2>3, <3>1, <4>1, <4>2, <4>3, <4>4
    <3>3. CASE at \notin entries
      BY <2>0, <2>5, <3>3 DEF RelayInCaller, DelayGoesOn, RelaysGoOn, PlacesGoOn, Ahead,
         UserResolved, Resolved
    <3>. QED BY <3>2, <3>3
  <2>6. CASE WaitForUser
    BY <2>0, <2>6 DEF WaitForUser, DelayGoesOn, RelaysGoOn, PlacesGoOn, Ahead,
       UserResolved, Resolved
  <2>. QED BY <1>3, <2>1, <2>2, <2>4, <2>5, <2>6 DEF DelayStep
<1>. QED BY <1>1, <1>2, <1>3 DEF DelayNext

\* What the proofs about ends rest on.
Going == IInv /\ GoesOn /\ DelayInv /\ DelayGoesOn

LEMMA GoingStep ==
  ASSUME Going, [DelayNext]_allVars
  PROVE  Going'
<1>1. IInv' /\ GoesOn'
  BY DelayStepsAreDagSteps, IInvStep, GoesOnStep DEF Going
<1>2. DelayInv'
  <2>1. CASE UNCHANGED allVars
    BY <2>1 DEF Going, allVars, vars, delayVars, DelayInv, UserTypeOK, CallbackTypeOK,
       LoopAtCall, CallbacksAfterFutures, Relayed, ReturnedWithAll, DelayUsed, UserResolved, Resolved
  <2>. QED BY <2>1, DelayStepKeeps DEF Going
<1>3. DelayGoesOn'
  <2>1. CASE UNCHANGED allVars
    BY <2>1 DEF Going, allVars, vars, delayVars, DelayGoesOn, RelaysGoOn, PlacesGoOn,
       Ahead, UserResolved, Resolved
  <2>. QED BY <2>1, DelayGoesOnStep DEF Going
<1>. QED BY <1>1, <1>2, <1>3 DEF Going

LEMMA GoingAlways == DelayInit /\ [][DelayNext]_allVars => []Going
<1>1. DelayInit => Going
  BY DagInit, GoesOnInit, DelayStarts, DelayGoesOnInit DEF DelayInit, Going
<1>2. Going /\ [DelayNext]_allVars => Going'
  BY GoingStep
<1>. QED BY <1>1, <1>2, PTL

\* Nobody has a step to make, neither a thread of the dag nor the caller of
\* Delay.execute nor a callback.
AllStands == DagStands /\ ~DelayGuard /\ \A n \in Nodes : ~CallbackGuard(n)

AllDone == DagDone /\ (delayed => place \in {"returned", "raised"})

LEMMA AllStandsDone ==
  ASSUME Going, AllStands
  PROVE  AllDone
<1>. USE DEF Going
<1>1. DagDone
  BY StandsDone DEF AllStands
<1>2. ASSUME delayed, place \notin {"returned", "raised"} PROVE FALSE
  <2>1. place \in {"batch", "wait"} /\ ~wait
    BY <1>2 DEF DelayGoesOn, PlacesGoOn, AllStands, DelayGuard
  <2>2. ended = "returned"
    BY <1>1, <2>1 DEF DagDone, GoesOn, CallerGoesOn, IInv, TypeOK
  <2>3. place = "wait"
    BY <2>1, <2>2 DEF AllStands, DelayGuard
  <2>4. \A n \in graph.results : UserResolved(n)
    <3> SUFFICES ASSUME NEW n \in graph.results PROVE UserResolved(n)
      OBVIOUS
    <3>1. n \in Nodes /\ ~Ahead(n) /\ Resolved(<<1, n>>)
      BY <1>1, <2>3, GraphType DEF IInv, TypeOK, Ahead, DagDone
    <3>2. relay[n] \notin {"registered", "called"}
      BY <3>1 DEF DelayGoesOn, RelaysGoOn, AllStands, CallbackGuard
    <3>. QED BY <2>3, <3>1, <3>2 DEF DelayGoesOn, RelaysGoOn
  <2>. QED BY <2>3, <2>4 DEF AllStands, DelayGuard
<1>. QED BY <1>1, <1>2 DEF AllDone

(* No call waits for ever for another: where nobody can go on, neither a     *)
(* thread of the dag nor the caller of Delay.execute nor a callback, execute *)
(* has returned or raised.  Above all, no callback is lost between the test  *)
(* for a future that is done and the registration of the callback.           *)
THEOREM NobodyWaitsForAnother == DelaySpec => [](AllStands => AllDone)
<1>1. Going => (AllStands => AllDone)
  BY AllStandsDone
<1>. QED BY <1>1, GoingAlways, PTL DEF DelaySpec

-----------------------------------------------------------------------------
(* Every step is one less to come                                          *)

\* How far a task is, and what is left of the tasks and of the loops.
Rank(s) ==
  IF s = "new" THEN 0 ELSE IF s = "queued" THEN 1 ELSE IF s = "calling" THEN 2
  ELSE IF s = "falling" THEN 3 ELSE IF s = "looping" THEN 4 ELSE IF s = "waiting" THEN 5
  ELSE IF s = "leaving" THEN 6 ELSE 7

TasksLeft == {x \in Tasks \X (1..7) : Rank(state[x[1]]) < x[2]}
LoopsLeft == {x \in Runs \X Nodes : loop[x[1]] < x[2]}

CallerLeft == IF ended # "no" THEN 0 ELSE IF awaited[1] = {} THEN 2 ELSE 1

\* The same for the callbacks and for the loop of Delay.execute.
RelayRank(r) == IF r = "over" THEN 2 ELSE IF r = "called" THEN 1 ELSE 0

RelaysLeft == {x \in Nodes \X (1..2) : RelayRank(relay[x[1]]) < x[2]}

PlaceLeft ==
  IF place \in {"unused", "batch"} THEN 3 * N + 4
  ELSE IF place = "attach" THEN 3 * (N - at) + 4
  ELSE IF place = "test" THEN 3 * (N - at) + 3
  ELSE IF place = "relay" THEN 3 * (N - at) + 2
  ELSE IF place = "wait" THEN 1
  ELSE 0

Work == Cardinality(TasksLeft) + Cardinality(LoopsLeft) + CallerLeft
          + Cardinality(RelaysLeft) + PlaceLeft

LEMMA LeftFinite ==
  ASSUME NEW S, S \subseteq Tasks \X (1..7) \/ S \subseteq Runs \X Nodes \/ S \subseteq Nodes \X (1..2)
  PROVE  /\ IsFiniteSet(S) /\ Cardinality(S) \in Nat
         /\ \A R \in SUBSET S : /\ Cardinality(R) \in Nat /\ Cardinality(R) <= Cardinality(S)
                                /\ R # S => Cardinality(R) < Cardinality(S)
<1>1. IsFiniteSet(Nodes) /\ IsFiniteSet(Runs) /\ IsFiniteSet(1..7) /\ IsFiniteSet(1..2)
  <2>1. \A m, n \in Nat : IsFiniteSet(m..n)
    BY FS_Interval
  <2>. QED BY <2>1, BoundsAreNat DEF Nodes, Runs
<1>2. IsFiniteSet(Tasks)
  BY <1>1, FS_Product DEF Tasks
<1>3. IsFiniteSet(Tasks \X (1..7)) /\ IsFiniteSet(Runs \X Nodes) /\ IsFiniteSet(Nodes \X (1..2))
  BY <1>1, <1>2, FS_Product
<1>4. IsFiniteSet(S) /\ Cardinality(S) \in Nat
  BY <1>3, FS_Subset, FS_CardinalityType
<1>5. ASSUME NEW R \in SUBSET S
      PROVE  /\ Cardinality(R) \in Nat /\ Cardinality(R) <= Cardinality(S)
             /\ R # S => Cardinality(R) < Cardinality(S)
  <2>1. Cardinality(R) \in Nat
    BY <1>4, FS_Subset, FS_CardinalityType
  <2>2. Cardinality(R) <= Cardinality(S) /\ (Cardinality(S) = Cardinality(R) => S = R)
    BY <1>4, FS_Subset
  <2>. QED BY <1>4, <2>1, <2>2
<1>. QED BY <1>4, <1>5

LEMMA WorkIsNat ==
  ASSUME Going
  PROVE  /\ Cardinality(TasksLeft) \in Nat /\ Cardinality(LoopsLeft) \in Nat
         /\ CallerLeft \in Nat /\ Cardinality(RelaysLeft) \in Nat /\ PlaceLeft \in Nat
         /\ Work \in Nat
<1>1. Cardinality(TasksLeft) \in Nat /\ Cardinality(LoopsLeft) \in Nat /\ Cardinality(RelaysLeft) \in Nat
  BY LeftFinite DEF TasksLeft, LoopsLeft, RelaysLeft
<1>2. N \in Nat /\ at \in 0..N
  BY BoundsAreNat DEF Going, DelayGoesOn, PlacesGoOn
<1>3. PlaceLeft \in Nat /\ CallerLeft \in Nat
  BY <1>2 DEF PlaceLeft, CallerLeft
<1>. QED BY <1>1, <1>3 DEF Work

\* A step of the dag brings a task, a loop or the caller on, and none back.
LEMMA DagGetsOn ==
  ASSUME IInv, GoesOn, Next
  PROVE  /\ \A t \in Tasks : Rank(state[t]) <= Rank(state'[t])
         /\ \A k \in Runs : loop[k] <= loop'[k]
         /\ CallerLeft' <= CallerLeft
         /\ \/ \E t \in Tasks : Rank(state[t]) < Rank(state'[t])
            \/ \E k \in Runs : loop[k] < loop'[k] /\ loop'[k] \in Nodes
            \/ CallerLeft' < CallerLeft
<1>0. /\ \A k \in Runs : loop[k] \in Nat
      /\ \A s : Rank(s) \in Nat
      /\ CallerLeft \in Nat
  BY BoundsAreNat DEF IInv, TypeOK, Rank, CallerLeft
<1>1. ASSUME NEW t \in Tasks, state' = [state EXCEPT ![t] = state'[t]],
             Rank(state[t]) < Rank(state'[t]),
             UNCHANGED <<loop, ended>>, awaited'[1] = awaited[1]
      PROVE  /\ \A u \in Tasks : Rank(state[u]) <= Rank(state'[u])
             /\ \A k \in Runs : loop[k] <= loop'[k]
             /\ CallerLeft' <= CallerLeft
  <2>1. \A u \in Tasks : u # t => state'[u] = state[u]
    BY <1>1 DEF IInv, TypeOK
  <2>. QED BY <1>0, <1>1, <2>1 DEF CallerLeft
<1>2. CASE \E t \in Tasks : Works(t)
  <2>1. PICK t \in Tasks : Works(t)
    BY <1>2
  <2>2. Rank(state[t]) < Rank(state'[t])
    BY <2>1, WorksMoves DEF Rank
  <2>. QED BY <1>1, <2>1, <2>2, WorksMoves
<1>3. CASE \E t \in Tasks : FallBack(t)
  <2>1. PICK t \in Tasks : FallBack(t)
    BY <1>3
  <2>2. state[t] = "falling" /\ state'[t] = "looping" /\ state' = [state EXCEPT ![t] = state'[t]]
        /\ UNCHANGED <<loop, ended, awaited>>
    <3>1. state[t] = "falling" /\ state' = [state EXCEPT ![t] = "looping"]
          /\ UNCHANGED <<loop, ended, awaited>>
      BY <2>1, FallBackMoves
    <3>2. state'[t] = "looping"
      BY <3>1 DEF IInv, TypeOK
    <3>. QED BY <3>1, <3>2
  <2>3. Rank(state[t]) < Rank(state'[t])
    BY <2>2 DEF Rank
  <2>. QED BY <1>1, <2>2, <2>3
<1>4. CASE \E t \in Tasks : Leave(t)
  <2>1. PICK t \in Tasks : Leave(t)
    BY <1>4
  <2>2. /\ UNCHANGED <<loop, awaited, ended>>
        /\ state[t] = "leaving" /\ state'[t] = "finished"
        /\ \A u \in Tasks : u # t => \/ state'[u] = state[u]
                                     \/ state[u] = "new" /\ state'[u] = "queued"
    BY <2>1, LeaveMoves
  <2>3. Rank("leaving") = 6 /\ Rank("finished") = 7 /\ Rank("new") = 0 /\ Rank("queued") = 1
    BY DEF Rank
  <2>. QED BY <1>0, <2>2, <2>3 DEF CallerLeft
<1>5. CASE \E k \in Runs : SubmitNext(k)
  <2>1. PICK k \in Runs : SubmitNext(k)
    BY <1>5
  <2>2. /\ UNCHANGED <<awaited, ended>>
        /\ loop' = [loop EXCEPT ![k] = loop[k] + 1] /\ loop[k] + 1 \in Nodes
        /\ \A u \in Tasks : state'[u] = state[u] \/ (state[u] = "new" /\ state'[u] = "queued")
    BY <2>1, LoopMoves
  <2>3. Rank("new") = 0 /\ Rank("queued") = 1
    BY DEF Rank
  <2>4. loop'[k] = loop[k] + 1 /\ \A j \in Runs : j # k => loop'[j] = loop[j]
    BY <2>2 DEF IInv, TypeOK
  <2>5. loop[k] < loop'[k] /\ loop'[k] \in Nodes /\ \A j \in Runs : loop[j] <= loop'[j]
    BY <1>0, <2>2, <2>4
  <2>. QED BY <1>0, <2>2, <2>3, <2>5 DEF CallerLeft
<1>6. CASE \E k \in Runs : FallbackSubmitted(k) \/ FallbackEnds(k)
  <2>1. PICK k \in Runs : FallbackSubmitted(k) \/ FallbackEnds(k)
    BY <1>6
  <2>. DEFINE t == <<1, opener[k]>>
  <2>2. /\ UNCHANGED <<loop, ended>> /\ awaited'[1] = awaited[1] /\ t \in Tasks
        /\ state' = [state EXCEPT ![t] = state'[t]]
        /\ \/ state[t] = "looping" /\ state'[t] \in {"waiting", "leaving", "finished"}
           \/ state[t] = "waiting" /\ state'[t] \in {"leaving", "finished"}
    BY <2>1, FallbackMoves
  <2>. HIDE DEF t
  <2>3. Rank(state[t]) < Rank(state'[t])
    BY <2>2 DEF Rank
  <2>. QED BY <1>1, <2>2, <2>3
<1>7. CASE LoopEnds \/ WaitEnds
  <2>1. /\ UNCHANGED <<loop, state>> /\ ended = "no"
        /\ \/ /\ awaited[1] = {} /\ ended' = ended
              /\ awaited' = [awaited EXCEPT ![1] = UserWait]
           \/ ended' \in {"returned", "raised"}
    BY <1>7, CallerMoves
  <2>2. UserWait # {}
    <3>1. <<1, 1>> \in (1..opened) \X (1..graph.size)
      BY GraphType DEF IInv, TypeOK, Runs, Nodes
    <3>. QED BY <3>1 DEF UserWait
  <2>3. CallerLeft' < CallerLeft
    <3>1. ended' = ended /\ awaited' = [awaited EXCEPT ![1] = UserWait] => awaited'[1] = UserWait
      BY BoundsAreNat DEF IInv, TypeOK
    <3>. QED BY <2>1, <2>2, <3>1 DEF CallerLeft
  <2>4. \A s : Rank(s) <= Rank(s)
    BY <1>0
  <2>5. \A k \in Runs : loop[k] <= loop'[k]
    BY <1>0, <2>1
  <2>6. CallerLeft' <= CallerLeft
    BY <1>0, <2>3 DEF CallerLeft
  <2>. QED BY <2>1, <2>3, <2>4, <2>5, <2>6
<1>. QED BY <1>2, <1>3, <1>4, <1>5, <1>6, <1>7, NextMoves

LEMMA DagShortens ==
  ASSUME IInv, GoesOn, Next
  PROVE  /\ Cardinality(TasksLeft') <= Cardinality(TasksLeft) /\ Cardinality(TasksLeft') \in Nat
         /\ Cardinality(LoopsLeft') <= Cardinality(LoopsLeft) /\ Cardinality(LoopsLeft') \in Nat
         /\ CallerLeft' <= CallerLeft /\ CallerLeft' \in Nat
         /\ \/ Cardinality(TasksLeft') < Cardinality(TasksLeft)
            \/ Cardinality(LoopsLeft') < Cardinality(LoopsLeft)
            \/ CallerLeft' < CallerLeft
<1>0. /\ \A s : Rank(s) \in 0..7
      /\ \A k \in Runs : loop[k] \in Nat /\ loop'[k] \in Nat
      /\ \A n \in Nodes : n \in Nat
      /\ CallerLeft' \in Nat
  <2>1. TypeOK' /\ TypeOK
    BY TypeStep DEF IInv
  <2>. QED BY <2>1, BoundsAreNat DEF TypeOK, Rank, CallerLeft
<1>1. TasksLeft' \in SUBSET TasksLeft
  <2> SUFFICES ASSUME NEW x \in TasksLeft' PROVE x \in TasksLeft
    OBVIOUS
  <2>1. x \in Tasks \X (1..7) /\ Rank(state'[x[1]]) < x[2]
    BY DEF TasksLeft
  <2>2. x[1] \in Tasks /\ x[2] \in Nat
    BY <2>1
  <2>3. Rank(state[x[1]]) <= Rank(state'[x[1]])
    BY <2>2, DagGetsOn
  <2>. QED BY <1>0, <2>1, <2>2, <2>3 DEF TasksLeft
<1>2. LoopsLeft' \in SUBSET LoopsLeft
  <2> SUFFICES ASSUME NEW x \in LoopsLeft' PROVE x \in LoopsLeft
    OBVIOUS
  <2>1. x \in Runs \X Nodes /\ loop'[x[1]] < x[2]
    BY DEF LoopsLeft
  <2>2. x[1] \in Runs /\ x[2] \in Nodes
    BY <2>1
  <2>3. loop[x[1]] <= loop'[x[1]]
    BY <2>2, DagGetsOn
  <2>. QED BY <1>0, <2>1, <2>2, <2>3 DEF LoopsLeft
<1>3. TasksLeft \subseteq Tasks \X (1..7) /\ LoopsLeft \subseteq Runs \X Nodes
  BY DEF TasksLeft, LoopsLeft
<1>4. ASSUME NEW t \in Tasks, Rank(state[t]) < Rank(state'[t]) PROVE TasksLeft' # TasksLeft
  <2>. DEFINE x == <<t, Rank(state'[t])>>
  <2>1. Rank(state'[t]) \in 1..7 /\ Rank(state'[t]) \in Nat
    BY <1>0, <1>4
  <2>2. x \in Tasks \X (1..7) /\ x[1] = t /\ x[2] = Rank(state'[t])
    BY <2>1
  <2>3. x \in TasksLeft
    BY <1>4, <2>2 DEF TasksLeft
  <2>4. ~(x \in TasksLeft')
    BY <2>1, <2>2 DEF TasksLeft
  <2>. QED BY <2>3, <2>4
<1>5. ASSUME NEW k \in Runs, loop[k] < loop'[k], loop'[k] \in Nodes PROVE LoopsLeft' # LoopsLeft
  <2>. DEFINE x == <<k, loop'[k]>>
  <2>1. x \in Runs \X Nodes /\ x[1] = k /\ x[2] = loop'[k]
    BY <1>5
  <2>2. x \in LoopsLeft
    BY <1>5, <2>1 DEF LoopsLeft
  <2>3. ~(x \in LoopsLeft')
    BY <1>0, <2>1 DEF LoopsLeft
  <2>. QED BY <2>2, <2>3
<1>6. /\ Cardinality(TasksLeft') \in Nat /\ Cardinality(TasksLeft') <= Cardinality(TasksLeft)
      /\ TasksLeft' # TasksLeft => Cardinality(TasksLeft') < Cardinality(TasksLeft)
  BY <1>1, <1>3, LeftFinite
<1>7. /\ Cardinality(LoopsLeft') \in Nat /\ Cardinality(LoopsLeft') <= Cardinality(LoopsLeft)
      /\ LoopsLeft' # LoopsLeft => Cardinality(LoopsLeft') < Cardinality(LoopsLeft)
  BY <1>2, <1>3, LeftFinite
<1>. QED BY <1>0, <1>4, <1>5, <1>6, <1>7, DagGetsOn

LEMMA RelaysLeftShrink ==
  ASSUME \A n \in Nodes : RelayRank(relay[n]) <= RelayRank(relay'[n])
  PROVE  /\ Cardinality(RelaysLeft') <= Cardinality(RelaysLeft) /\ Cardinality(RelaysLeft') \in Nat
         /\ \A n \in Nodes : RelayRank(relay[n]) < RelayRank(relay'[n])
              => Cardinality(RelaysLeft') < Cardinality(RelaysLeft)
<1>0. \A r : RelayRank(r) \in 0..2
  BY DEF RelayRank
<1>1. RelaysLeft' \in SUBSET RelaysLeft
  <2> SUFFICES ASSUME NEW x \in RelaysLeft' PROVE x \in RelaysLeft
    OBVIOUS
  <2>1. x \in Nodes \X (1..2) /\ RelayRank(relay'[x[1]]) < x[2]
    BY DEF RelaysLeft
  <2>2. x[1] \in Nodes /\ x[2] \in Nat
    BY <2>1
  <2>3. RelayRank(relay[x[1]]) <= RelayRank(relay'[x[1]])
    BY <2>2
  <2>. QED BY <1>0, <2>1, <2>2, <2>3 DEF RelaysLeft
<1>2. ASSUME NEW n \in Nodes, RelayRank(relay[n]) < RelayRank(relay'[n])
      PROVE  RelaysLeft' # RelaysLeft
  <2>. DEFINE x == <<n, RelayRank(relay'[n])>>
  <2>1. RelayRank(relay'[n]) \in 1..2 /\ RelayRank(relay'[n]) \in Nat
    BY <1>0, <1>2
  <2>2. x \in Nodes \X (1..2) /\ x[1] = n /\ x[2] = RelayRank(relay'[n])
    BY <2>1
  <2>3. x \in RelaysLeft
    BY <1>2, <2>2 DEF RelaysLeft
  <2>4. ~(x \in RelaysLeft')
    BY <2>1, <2>2 DEF RelaysLeft
  <2>. QED BY <2>3, <2>4
<1>3. RelaysLeft \subseteq Nodes \X (1..2)
  BY DEF RelaysLeft
<1>. QED BY <1>1, <1>2, <1>3, LeftFinite

LEMMA StepShortens ==
  ASSUME Going, DelayNext
  PROVE  Work' < Work
<1>. USE DEF Going
<1>0. /\ Cardinality(TasksLeft) \in Nat /\ Cardinality(LoopsLeft) \in Nat
      /\ CallerLeft \in Nat /\ Cardinality(RelaysLeft) \in Nat /\ PlaceLeft \in Nat
      /\ relay \in [Nodes -> {"none", "registered", "called", "over"}]
  BY WorkIsNat DEF DelayInv, CallbackTypeOK
<1>1. CASE DagStep(Next)
  <2>1. PlaceLeft' = PlaceLeft
    BY <1>1 DEF DagStep, PlaceLeft
  <2>2. \A n \in Nodes : RelayRank(relay[n]) <= RelayRank(relay'[n])
    <3>1. \A n \in Nodes : relay'[n] \in {relay[n], "called"} /\ (relay'[n] # relay[n] => relay[n] = "registered")
      BY <1>1 DEF DagStep
    <3>. QED BY <3>1 DEF RelayRank
  <2>3. /\ Cardinality(TasksLeft') <= Cardinality(TasksLeft) /\ Cardinality(TasksLeft') \in Nat
        /\ Cardinality(LoopsLeft') <= Cardinality(LoopsLeft) /\ Cardinality(LoopsLeft') \in Nat
        /\ CallerLeft' <= CallerLeft /\ CallerLeft' \in Nat
        /\ \/ Cardinality(TasksLeft') < Cardinality(TasksLeft)
           \/ Cardinality(LoopsLeft') < Cardinality(LoopsLeft)
           \/ CallerLeft' < CallerLeft
    BY <1>1, DagShortens DEF DagStep
  <2>4. Cardinality(RelaysLeft') <= Cardinality(RelaysLeft) /\ Cardinality(RelaysLeft') \in Nat
    BY <2>2, RelaysLeftShrink
  <2>. QED BY <1>0, <2>1, <2>3, <2>4 DEF Work
<1>2. ASSUME UNCHANGED vars
      PROVE  TasksLeft' = TasksLeft /\ LoopsLeft' = LoopsLeft /\ CallerLeft' = CallerLeft
  BY <1>2 DEF vars, TasksLeft, LoopsLeft, CallerLeft
<1>3. CASE \E n \in Nodes : Callback(n)
  <2>1. PICK n \in Nodes : Callback(n)
    BY <1>3
  <2>2. /\ UNCHANGED vars /\ UNCHANGED <<place, at>>
        /\ relay[n] = "called" /\ relay' = [relay EXCEPT ![n] = "over"]
    BY <2>1 DEF Callback
  <2>3. PlaceLeft' = PlaceLeft
    BY <2>2 DEF PlaceLeft
  <2>4. relay'[n] = "over" /\ \A m \in Nodes : m # n => relay'[m] = relay[m]
    BY <1>0, <2>2
  <2>5. /\ \A m \in Nodes : RelayRank(relay[m]) <= RelayRank(relay'[m])
        /\ RelayRank(relay[n]) < RelayRank(relay'[n])
    <3>1. \A m \in Nodes : m = n \/ relay'[m] = relay[m]
      BY <2>4
    <3>2. RelayRank(relay[n]) = 1 /\ RelayRank(relay'[n]) = 2
      BY <2>2, <2>4 DEF RelayRank
    <3>3. \A m \in Nodes : relay'[m] = relay[m] => RelayRank(relay[m]) <= RelayRank(relay'[m])
      BY DEF RelayRank
    <3>. QED BY <3>1, <3>2, <3>3
  <2>6. Cardinality(RelaysLeft') < Cardinality(RelaysLeft) /\ Cardinality(RelaysLeft') \in Nat
    BY <2>5, RelaysLeftShrink
  <2>. QED BY <1>0, <1>2, <2>2, <2>3, <2>6 DEF Work
<1>4. CASE DelayStep
  <2>1. UNCHANGED vars
    BY <1>4 DEF DelayStep
  <2>2. /\ N \in Nat /\ at \in 0..N /\ at \in Nat /\ N - at \in Nat
        /\ \A n \in graph.results : n \in Nat /\ n <= N /\ n >= 1 /\ n \in Nodes
    BY GraphType, BoundsAreNat DEF DelayGoesOn, PlacesGoOn, IInv, TypeOK, Nodes
  <2>3. \A n \in Nodes : RelayRank(relay'[n]) = RelayRank(relay[n])
    <3>1. CASE relay' = relay
      BY <3>1
    <3>2. CASE Attach /\ relay' # relay
      <4>1. place = "attach" /\ relay' = [relay EXCEPT ![at] = "registered"]
        BY <3>2 DEF Attach
      <4>2. \A n \in Nodes : relay'[n] = IF n = at THEN "registered" ELSE relay[n]
        BY <1>0, <4>1
      <4>3. at \in Nodes => relay[at] = "none"
        BY <2>2, <4>1 DEF DelayGoesOn, RelaysGoOn, Ahead
      <4>4. RelayRank("registered") = RelayRank("none")
        BY DEF RelayRank
      <4>. QED BY <4>2, <4>3, <4>4
    <3>. QED BY <1>4, <3>1, <3>2 DEF DelayStep, Batched, Test, RelayInCaller, WaitForUser
  <2>4. RelaysLeft' = RelaysLeft
    BY <2>3 DEF RelaysLeft
  <2>5. PlaceLeft' < PlaceLeft
    <3>1. CASE Batched
      <4>1. First(graph.results) \in graph.results
        BY <2>2, <3>1, FirstIsLeast, DelayAssumption, GraphType
        DEF Batched, DelayInv, DelayUsed, IInv, TypeOK
      <4>2. place = "batch" /\ place' = "attach" /\ at' \in graph.results
        BY <3>1, <4>1 DEF Batched
      <4>. QED BY <2>2, <4>2 DEF PlaceLeft
    <3>2. CASE Attach
      BY <2>2, <3>2 DEF Attach, PlaceLeft
    <3>3. ASSUME Advance, place \in {"test", "relay"} PROVE PlaceLeft' < PlaceLeft
      <4>1. at \in Nodes
        BY <2>2, <3>3 DEF DelayInv, LoopAtCall
      <4>2. /\ at' \in 0..N
            /\ (place' = "attach" /\ at' > at) \/ place' = "wait"
        BY <3>3, <4>1, AdvanceMoves
      <4>3. PlaceLeft = 3 * (N - at) + 3 \/ PlaceLeft = 3 * (N - at) + 2
        BY <3>3 DEF PlaceLeft
      <4>4. CASE place' = "wait"
        <5>1. PlaceLeft' = 1
          BY <4>4 DEF PlaceLeft
        <5>. QED BY <2>2, <4>3, <5>1
      <4>5. CASE place' = "attach" /\ at' > at
        <5>1. PlaceLeft' = 3 * (N - at') + 4
          BY <4>5 DEF PlaceLeft
        <5>2. at' \in Nat /\ N - at' <= N - at - 1 /\ N - at' \in Nat
          <6>1. \A m \in 0..N : m > at => m \in Nat /\ N - m <= N - at - 1 /\ N - m \in Nat
            BY <2>2
          <6>. QED BY <4>2, <4>5, <6>1
        <5>3. \A x, y \in Nat : y <= x - 1 => 3 * y + 4 < 3 * x + 2 /\ 3 * y + 4 < 3 * x + 3
          OBVIOUS
        <5>. QED BY <2>2, <4>3, <5>1, <5>2, <5>3
      <4>. QED BY <4>2, <4>4, <4>5
    <3>4. CASE Test
      BY <2>2, <3>3, <3>4 DEF Test, PlaceLeft
    <3>5. CASE RelayInCaller
      BY <2>2, <3>3, <3>5 DEF RelayInCaller, PlaceLeft
    <3>6. CASE WaitForUser
      BY <3>6 DEF WaitForUser, PlaceLeft
    <3>. QED BY <1>4, <3>1, <3>2, <3>4, <3>5, <3>6 DEF DelayStep
  <2>6. PlaceLeft' \in Nat
    <3>1. Going'
      BY GoingStep
    <3>2. N \in Nat /\ at' \in 0..N
      BY <3>1, BoundsAreNat DEF DelayGoesOn, PlacesGoOn
    <3>3. N - at' \in Nat
      <4>1. \A m \in 0..N : N - m \in Nat
        BY <3>2
      <4>. QED BY <3>2, <4>1
    <3>4. \A x \in Nat : 3 * x + 4 \in Nat /\ 3 * x + 3 \in Nat /\ 3 * x + 2 \in Nat
      OBVIOUS
    <3>. QED BY <3>2, <3>3, <3>4 DEF PlaceLeft
  <2>. QED BY <1>0, <1>2, <2>1, <2>4, <2>5, <2>6 DEF Work
<1>. QED BY <1>1, <1>3, <1>4 DEF DelayNext

(* Every step, of whichever thread, brings an execution nearer to its end:   *)
(* no mixture of nodes that fail, fall back or are refused sends a thread    *)
(* back to where it was, and an execution has no more steps than its dag,    *)
(* its runs and its callbacks allow.                                         *)
THEOREM StepsRunOut == DelaySpec => [][Work' < Work]_allVars
<1>1. Going /\ [DelayNext]_allVars => [Work' < Work]_allVars
  BY StepShortens
<1>. QED BY <1>1, GoingAlways, PTL DEF DelaySpec

\* There is a next step, or nobody has one to make.
Progress == <><<Work' < Work>>_allVars \/ AllStands

LEMMA ShorterMoves ==
  ASSUME Going, Work' < Work
  PROVE  ~UNCHANGED allVars
<1>1. ASSUME UNCHANGED allVars PROVE Work' = Work
  BY <1>1 DEF Work, TasksLeft, LoopsLeft, CallerLeft, RelaysLeft, PlaceLeft, allVars, vars, delayVars
<1>2. Work \in Nat
  BY WorkIsNat
<1>. QED BY <1>1, <1>2

\* Who is fairly treated, has a step to make and can make it, makes it, unless
\* others go on.
LEMMA MovesOn ==
  ASSUME Going, [DelayNext]_allVars
  PROVE  /\ Work' < Work \/ UNCHANGED allVars
         /\ Work' < Work => ~UNCHANGED allVars
BY StepShortens, ShorterMoves

LEMMA TaskGoesOn ==
  ASSUME NEW t \in Tasks
  PROVE  []Going /\ []GuardsSuffice /\ [][DelayNext]_allVars /\ FairTask(t)
         => (TaskGuard(t) => Progress)
<1>. DEFINE Shorter == Work' < Work
            Guard == TaskGuard(t)
<1>1. GuardsSuffice => TaskCan(t)
  BY DEF GuardsSuffice
<1>2. ASSUME Going, [DelayNext]_allVars
      PROVE  /\ Shorter \/ (Guard => Guard')
             /\ <<DagStep(TaskStep(t))>>_allVars => Shorter
  BY <1>2, MovesOn DEF TaskGuard, ThreadFree, allVars, vars, delayVars
<1>3. ASSUME Going, Shorter PROVE ~UNCHANGED allVars
  BY <1>3, ShorterMoves
<1>4. Progress <=> <><<Shorter>>_allVars \/ AllStands
  BY DEF Progress
<1>5. Guard <=> TaskGuard(t)
  OBVIOUS
<1>. HIDE DEF Shorter, Guard
<1>. QED BY <1>1, <1>2, <1>3, <1>4, <1>5, PTL DEF TaskCan, FairTask

LEMMA RunGoesOn ==
  ASSUME NEW k \in Runs
  PROVE  []Going /\ []GuardsSuffice /\ [][DelayNext]_allVars /\ FairRun(k)
         => (RunGuard(k) => Progress)
<1>. DEFINE Shorter == Work' < Work
            Guard == RunGuard(k)
<1>1. GuardsSuffice => RunCan(k)
  BY DEF GuardsSuffice
<1>2. ASSUME Going, [DelayNext]_allVars
      PROVE  /\ Shorter \/ (Guard => Guard')
             /\ <<DagStep(RunStep(k))>>_allVars => Shorter
  BY <1>2, MovesOn DEF RunGuard, Looping, Resolved, allVars, vars, delayVars
<1>3. ASSUME Going, Shorter PROVE ~UNCHANGED allVars
  BY <1>3, ShorterMoves
<1>4. Progress <=> <><<Shorter>>_allVars \/ AllStands
  BY DEF Progress
<1>5. Guard <=> RunGuard(k)
  OBVIOUS
<1>. HIDE DEF Shorter, Guard
<1>. QED BY <1>1, <1>2, <1>3, <1>4, <1>5, PTL DEF RunCan, FairRun

LEMMA CallerStepsOn ==
  []Going /\ []GuardsSuffice /\ [][DelayNext]_allVars /\ FairCaller
         => (CallerGuard => Progress)
<1>. DEFINE Shorter == Work' < Work
            Guard == CallerGuard
<1>1. GuardsSuffice => CallerCan
  BY DEF GuardsSuffice
<1>2. ASSUME Going, [DelayNext]_allVars
      PROVE  /\ Shorter \/ (Guard => Guard')
             /\ <<DagStep(CallerStep)>>_allVars => Shorter
  BY <1>2, MovesOn DEF CallerGuard, Resolved, allVars, vars, delayVars
<1>3. ASSUME Going, Shorter PROVE ~UNCHANGED allVars
  BY <1>3, ShorterMoves
<1>4. Progress <=> <><<Shorter>>_allVars \/ AllStands
  BY DEF Progress
<1>5. Guard <=> CallerGuard
  OBVIOUS
<1>. HIDE DEF Shorter, Guard
<1>. QED BY <1>1, <1>2, <1>3, <1>4, <1>5, PTL DEF CallerCan, FairCaller

LEMMA DelayStepsOn ==
  []Going /\ []GuardsSuffice /\ [][DelayNext]_allVars /\ FairDelay
         => (DelayGuard => Progress)
<1>. DEFINE Shorter == Work' < Work
            Guard == DelayGuard
<1>1. GuardsSuffice => DelayCan
  BY DEF GuardsSuffice
<1>2. ASSUME Going, [DelayNext]_allVars
      PROVE  /\ Shorter \/ (Guard => Guard')
             /\ <<DelayStep>>_allVars => Shorter
  BY <1>2, MovesOn DEF DelayGuard, UserResolved, allVars, vars, delayVars
<1>3. ASSUME Going, Shorter PROVE ~UNCHANGED allVars
  BY <1>3, ShorterMoves
<1>4. Progress <=> <><<Shorter>>_allVars \/ AllStands
  BY DEF Progress
<1>5. Guard <=> DelayGuard
  OBVIOUS
<1>. HIDE DEF Shorter, Guard
<1>. QED BY <1>1, <1>2, <1>3, <1>4, <1>5, PTL DEF DelayCan, FairDelay

LEMMA CallbackGoesOn ==
  ASSUME NEW n \in Nodes
  PROVE  []Going /\ []GuardsSuffice /\ [][DelayNext]_allVars /\ FairCallback(n)
         => (CallbackGuard(n) => Progress)
<1>. DEFINE Shorter == Work' < Work
            Guard == CallbackGuard(n)
<1>1. GuardsSuffice => CallbackCan(n)
  BY DEF GuardsSuffice
<1>2. ASSUME Going, [DelayNext]_allVars
      PROVE  /\ Shorter \/ (Guard => Guard')
             /\ <<Callback(n)>>_allVars => Shorter
  BY <1>2, MovesOn DEF CallbackGuard, allVars, vars, delayVars
<1>3. ASSUME Going, Shorter PROVE ~UNCHANGED allVars
  BY <1>3, ShorterMoves
<1>4. Progress <=> <><<Shorter>>_allVars \/ AllStands
  BY DEF Progress
<1>5. Guard <=> CallbackGuard(n)
  OBVIOUS
<1>. HIDE DEF Shorter, Guard
<1>. QED BY <1>1, <1>2, <1>3, <1>4, <1>5, PTL DEF CallbackCan, FairCallback

LEMMA SomebodyGoesOn ==
  []Going /\ []GuardsSuffice /\ [][DelayNext]_allVars /\ Fairness => Progress
<1>. DEFINE Set == []Going /\ []GuardsSuffice /\ [][DelayNext]_allVars
<1>1. \A t \in Tasks : Set /\ FairTask(t) => (TaskGuard(t) => Progress)
  BY TaskGoesOn
<1>2. \A k \in Runs : Set /\ FairRun(k) => (RunGuard(k) => Progress)
  BY RunGoesOn
<1>3. Set /\ FairCaller => (CallerGuard => Progress)
  BY CallerStepsOn
<1>4. Set /\ FairDelay => (DelayGuard => Progress)
  BY DelayStepsOn
<1>5. \A n \in Nodes : Set /\ FairCallback(n) => (CallbackGuard(n) => Progress)
  BY CallbackGoesOn
<1>6. AllStands => Progress
  BY PTL DEF Progress
<1>7. \/ AllStands
      \/ \E t \in Tasks : TaskGuard(t)
      \/ \E k \in Runs : RunGuard(k)
      \/ CallerGuard \/ DelayGuard
      \/ \E n \in Nodes : CallbackGuard(n)
  BY DEF AllStands, DagStands
<1>. HIDE DEF Set
<1>8. Set /\ Fairness => Progress
  BY <1>1, <1>2, <1>3, <1>4, <1>5, <1>6, <1>7 DEF Fairness
<1>. QED BY <1>8 DEF Set

LEMMA ProgressAlways ==
  []Going /\ []GuardsSuffice /\ [][DelayNext]_allVars /\ []Fairness => []Progress
BY SomebodyGoesOn, PTL

\* No natural number that nothing raises falls again and again.  This holds of
\* every behaviour and of any state function in the place of Work; that it does
\* is induction over the steps of a behaviour, which is out of the provers' reach.
NoEndlessDescent ==
  [](Work \in Nat) => ~(<>[][Work' <= Work]_allVars /\ []<><<Work' < Work>>_allVars)

\* What the theorems about ends are given of the behaviour: who may step can,
\* what is fair stays fair, and no natural number falls for ever.  Fairness is
\* about the tail of a behaviour; but that "for every task" may change places
\* with "always" is not known to the provers.
Given == []GuardsSuffice /\ []Fairness /\ NoEndlessDescent

LEMMA AllEnds == DelaySpec /\ Given => <>AllDone
<1>. DEFINE Shorter == Work' < Work
            NotLonger == Work' <= Work
            Natural == Work \in Nat
<1>1. Going => Natural
  BY WorkIsNat
<1>2. ASSUME Going, Going', [DelayNext]_allVars PROVE NotLonger \/ UNCHANGED allVars
  <2>1. CASE Shorter
    <3>1. Work \in Nat
      BY <1>2, WorkIsNat
    <3>2. Natural'
      BY <1>1, <1>2, PTL
    <3>. QED BY <2>1, <3>1, <3>2
  <2>. QED BY <1>2, <2>1, MovesOn
<1>3. DelaySpec => []Going /\ [][DelayNext]_allVars
  BY GoingAlways, PTL DEF DelaySpec
<1>4. DelaySpec /\ Given => []Progress
  BY <1>3, ProgressAlways, PTL DEF Given
<1>5. []Progress <=> [](<><<Shorter>>_allVars \/ AllStands)
  BY PTL DEF Progress
<1>6. NoEndlessDescent <=>
        ([]Natural => ~(<>[][NotLonger]_allVars /\ []<><<Shorter>>_allVars))
  BY DEF NoEndlessDescent
<1>7. Going => (AllStands => AllDone)
  BY AllStandsDone
<1>. HIDE DEF Shorter, NotLonger, Natural
<1>. QED BY <1>1, <1>2, <1>3, <1>4, <1>5, <1>6, <1>7, PTL DEF Given

(* A direct execution returns, unless it waits and a node fell back, and     *)
(* Delay.execute returns or raises always: for dags of any shape, however    *)
(* their nodes end and whichever threads relay.                              *)
THEOREM CallsDoEnd == DelaySpec /\ Given => CallsEnd
<1>. DEFINE Wait == wait
            Delayed == delayed
            Ended == ended # "no"
            Placed == place = "returned" \/ place = "raised"
<1>1. ASSUME Going, [DelayNext]_allVars PROVE (Wait' <=> Wait) /\ (Delayed' <=> Delayed)
  <2>1. CASE UNCHANGED allVars
    BY <2>1 DEF allVars, vars, delayVars
  <2>2. CASE DagStep(Next)
    BY <1>1, <2>2, FallbackStays DEF DagStep, Going
  <2>3. CASE DelayStep \/ \E n \in Nodes : Callback(n)
    BY <2>3 DEF DelayStep, Callback, Batched, Attach, Test, RelayInCaller, WaitForUser, vars
  <2>. QED BY <1>1, <2>1, <2>2, <2>3 DEF DelayNext
<1>2. AllDone => ((Wait /\ fallback) \/ Ended) /\ (Delayed => Placed)
  BY DEF AllDone, DagDone
<1>3. DelaySpec => []Going /\ [][DelayNext]_allVars
  BY GoingAlways, PTL DEF DelaySpec
<1>4. CallsEnd <=> /\ []GuardsSuffice
                   /\ (Wait /\ <>fallback) \/ <>Ended
                   /\ Delayed => <>Placed
  BY DEF CallsEnd
<1>. HIDE DEF Wait, Delayed, Ended, Placed
<1>. QED BY <1>1, <1>2, <1>3, <1>4, AllEnds, PTL DEF Given

(* And every future handed out is resolved in the end, also when the node    *)
(* it belongs to falls back: an execution implements Promises.               *)
THEOREM PromisesAreKept == DelaySpec /\ Given => PromisesKept
<1>1. DelaySpec => P!Safety
  <2>1. DelayInit => P!Init
    BY PromisesInit DEF DelayInit
  <2>2. Going /\ [DelayNext]_allVars => [P!Next]_Promised
    <3> SUFFICES ASSUME Going, [DelayNext]_allVars PROVE P!Next \/ Promised' = Promised
      OBVIOUS
    <3>1. CASE UNCHANGED vars
      BY <3>1 DEF vars, Promised, Resolved
    <3>. QED BY <3>1, PromisesStep, DelayStepsAreDagSteps DEF Going
  <2>. QED BY <2>1, <2>2, GoingAlways, PTL DEF DelaySpec, P!Safety
<1>2. ASSUME NEW n \in Nodes PROVE DelaySpec /\ Given => <>(Promised[n] # "pending")
  <2>1. AllDone => Promised[n] # "pending"
    BY DEF AllDone, DagDone, Promised, Resolved
  <2>. QED BY <2>1, AllEnds, PTL
<1>. QED BY <1>1, <1>2 DEF PromisesKept, P!Spec, P!Resolution
=============================================================================
