------------------------- MODULE StreamUploadProofs -------------------------
(***************************************************************************)
(* Theorems about threads that share a stream upload session               *)
(* (StreamUpload), for any number of threads, rows, retries and changes of *)
(* the service's routes.                                                   *)
(***************************************************************************)
EXTENDS StreamUpload, TLAPS

-----------------------------------------------------------------------------
(* The inductive invariant                                                 *)

Places == {"idle", "put", "reply", "route", "reset", "lock", "try_lock", "get", "parse"}

Typed ==
  /\ pc \in [Writers -> Places]
  /\ purpose \in [Writers -> {"none", "retry", "reset", "query"}]
  /\ rows \in [Writers -> 0..MaxRows]
  /\ buffer \in [Writers -> SUBSET (Writers \X (1..MaxRows))]
  /\ changes \in Nat /\ listed \in Nat
  /\ since \in [Writers -> Nat]
  /\ snapshot \in [Writers -> [servers : Seq(Nat), change : Nat]]
  /\ routes \in Seq(Nat)

\* A writer has rows of its own, and no other row is anywhere.
OwnRows ==
  /\ \A w \in Writers : \A r \in buffer[w] : r[1] = w /\ r[2] <= rows[w]
  /\ stored \cup moved \subseteq Written

\* The service has answered, and the buffer is not reset yet.
Answered(w) == pc[w] \in {"reply", "reset"} \/ purpose[w] = "reset"

\* What is about to leave a buffer is stored, or lost by a 308.
SafeToReset == \A w \in Writers : Answered(w) => buffer[w] \subseteq stored \cup moved

\* What is about to be sent was not stored, unless that could not be known.
NotStoredYet == \A w \in Writers : ~Answered(w) => stored \cap buffer[w] \subseteq repeatable

\* Where a reload belongs to.
Purposes ==
  \A w \in Writers :
    /\ purpose[w] # "none" => pc[w] \in {"lock", "try_lock", "get", "parse", "route", "reset"}
    /\ pc[w] = "reset" => purpose[w] = "reset"
    /\ pc[w] = "route" => purpose[w] = "retry"
    /\ pc[w] = "lock" => purpose[w] \in {"retry", "reset"}
    /\ pc[w] = "try_lock" => purpose[w] = "query"
    /\ pc[w] \in {"get", "parse"} => purpose[w] # "none"

RowInv == OwnRows /\ SafeToReset /\ NotStoredYet /\ Purposes /\ RowsReachTable

\* One thread at a time is between the question and the new list.
Locked == \A w \in Writers : pc[w] \in {"get", "parse"} <=> reloading = w

\* Answers are not older than the question, nor than the list they replace.
Fresh ==
  /\ listed <= changes
  /\ \A w \in Writers : since[w] <= changes
  /\ \A w \in Writers : pc[w] = "parse" =>
       /\ snapshot[w].change <= changes
       /\ since[w] <= snapshot[w].change /\ listed <= snapshot[w].change

FreshInv == Locked /\ Fresh /\ ForcedReloadIsFresh

-----------------------------------------------------------------------------
USE DEF session, uploads, retries, reloads, service, writing, vars

LEMMA InitInv == Init => Typed /\ RowInv /\ FreshInv
<1> SUFFICES ASSUME Init PROVE Typed /\ RowInv /\ FreshInv
  OBVIOUS
<1>. USE StreamAssumption DEF Init, StreamAssumption
<1>1. Typed
  BY DEF Typed, Places, NoSnapshot
<1>2. \A w \in Writers : pc[w] = "idle" /\ buffer[w] = {} /\ purpose[w] = "none" /\ rows[w] = 0
  OBVIOUS
<1>3. Written = {}
  BY <1>2 DEF Written
<1>4. UNION {buffer[w] : w \in Writers} = {}
  BY <1>2
<1>5. RowInv
  BY <1>2, <1>3, <1>4 DEF RowInv, OwnRows, SafeToReset, NotStoredYet, Answered, Purposes,
     RowsReachTable
<1>6. FreshInv
  BY <1>2 DEF FreshInv, Locked, Fresh, ForcedReloadIsFresh
<1>. QED BY <1>1, <1>5, <1>6

\* What the end of a call does, by each name.
LEMMA CallEnds ==
  ASSUME Typed, NEW w \in Writers, EndCall(w)
  PROVE  /\ pc'[w] = "idle" /\ purpose'[w] = "none" /\ since'[w] = 0
         /\ \A v \in Writers \ {w} :
              /\ pc'[v] = pc[v] /\ purpose'[v] = purpose[v] /\ since'[v] = since[v]
              /\ snapshot'[v] = snapshot[v]
         /\ pc' \in [Writers -> Places]
         /\ purpose' \in [Writers -> {"none", "retry", "reset", "query"}]
         /\ since' \in [Writers -> Nat]
         /\ snapshot' \in [Writers -> [servers : Seq(Nat), change : Nat]]
BY DEF EndCall, Goto, Typed, Places, NoSnapshot

LEMMA RetryEnds ==
  ASSUME Typed, NEW w \in Writers, NEW kind, RetryOrRaise(w, kind)
  PROVE  /\ pc'[w] \in {"put", "idle"} /\ purpose'[w] = "none" /\ since'[w] = 0
         /\ \A v \in Writers \ {w} :
              /\ pc'[v] = pc[v] /\ purpose'[v] = purpose[v] /\ since'[v] = since[v]
              /\ snapshot'[v] = snapshot[v]
         /\ pc' \in [Writers -> Places]
         /\ purpose' \in [Writers -> {"none", "retry", "reset", "query"}]
         /\ since' \in [Writers -> Nat]
         /\ snapshot' \in [Writers -> [servers : Seq(Nat), change : Nat]]
<1>1. CASE EndCall(w)
  BY <1>1, CallEnds
<1>2. CASE ~EndCall(w)
  <2>1. /\ pc' = [pc EXCEPT ![w] = "put"]
        /\ purpose' = [purpose EXCEPT ![w] = "none"]
        /\ snapshot' = [snapshot EXCEPT ![w] = NoSnapshot]
        /\ since' = [since EXCEPT ![w] = 0]
    BY <1>2, Zenon DEF RetryOrRaise, Fail, Goto
  <2>. QED BY <2>1 DEF Typed, Places, NoSnapshot
<1>. QED BY <1>1, <1>2

LEMMA ReloadForced ==
  ASSUME Typed, NEW w \in Writers, NEW what \in {"retry", "reset"}, ForceReload(w, what)
  PROVE  /\ pc'[w] = "lock" /\ purpose'[w] = what /\ since'[w] = changes
         /\ \A v \in Writers \ {w} :
              /\ pc'[v] = pc[v] /\ purpose'[v] = purpose[v] /\ since'[v] = since[v]
              /\ snapshot'[v] = snapshot[v]
         /\ pc' \in [Writers -> Places]
         /\ purpose' \in [Writers -> {"none", "retry", "reset", "query"}]
         /\ since' \in [Writers -> Nat]
         /\ snapshot' \in [Writers -> [servers : Seq(Nat), change : Nat]]
BY DEF ForceReload, Goto, Typed, Places

\* Only thread w moves, and what it leaves is of the right type.
Moves(w) ==
  /\ \A v \in Writers \ {w} :
       /\ pc'[v] = pc[v] /\ purpose'[v] = purpose[v] /\ since'[v] = since[v]
       /\ snapshot'[v] = snapshot[v]
  /\ pc' \in [Writers -> Places]
  /\ purpose' \in [Writers -> {"none", "retry", "reset", "query"}]
  /\ since' \in [Writers -> Nat]
  /\ snapshot' \in [Writers -> [servers : Seq(Nat), change : Nat]]

LEMMA ReloadRaisesEnds ==
  ASSUME Typed, NEW w \in Writers, ReloadRaises(w)
  PROVE  Moves(w) /\ pc'[w] \in {"put", "idle"} /\ purpose'[w] = "none" /\ since'[w] = 0
<1>1. RetryOrRaise(w, "gateway") \/ EndCall(w)
  BY Zenon DEF ReloadRaises, Fail
<1>. QED BY <1>1, RetryEnds, CallEnds DEF Moves

LEMMA RequestFailsEnds ==
  ASSUME Typed, NEW w \in Writers, RequestFails(w)
  PROVE  /\ Moves(w)
         /\ \/ pc'[w] \in {"put", "idle"} /\ purpose'[w] = "none" /\ since'[w] = 0
            \/ pc'[w] = "lock" /\ purpose'[w] = "retry" /\ since'[w] = changes
<1>1. PICK kind \in {"gateway", "server", "no_answer", "client", "throttled"} : AfterError(w, kind)
  BY DEF RequestFails
<1>2. ForceReload(w, "retry") \/ RetryOrRaise(w, kind)
  BY <1>1, Zenon DEF AfterError
<1>. QED BY <1>2, RetryEnds, ReloadForced DEF Moves

LEMMA ParseEnds ==
  ASSUME Typed, NEW w \in Writers, Parse(w)
  PROVE  /\ Moves(w)
         /\ \/ purpose[w] = "query" /\ pc'[w] = "idle" /\ purpose'[w] = "none" /\ since'[w] = 0
            \/ /\ purpose[w] # "query" /\ purpose'[w] = purpose[w] /\ since'[w] = since[w]
               /\ pc'[w] = IF purpose[w] = "retry" THEN "route" ELSE "reset"
<1>1. CASE purpose[w] = "query"
  <2>1. EndCall(w)
    BY <1>1 DEF Parse
  <2>. QED BY <1>1, <2>1, CallEnds DEF Moves
<1>2. CASE purpose[w] # "query"
  <2>1. /\ pc' = [pc EXCEPT ![w] = IF purpose[w] = "retry" THEN "route" ELSE "reset"]
        /\ snapshot' = [snapshot EXCEPT ![w] = NoSnapshot]
        /\ UNCHANGED <<purpose, since>>
    BY <1>2 DEF Parse, Goto
  <2>. QED BY <1>2, <2>1 DEF Moves, Typed, Places, NoSnapshot
<1>. QED BY <1>1, <1>2

LEMMA UploadReturnsEnds ==
  ASSUME Typed, NEW w \in Writers, UploadReturns(w)
  PROVE  /\ Moves(w)
         /\ \/ /\ pc'[w] = "lock" /\ purpose'[w] = "reset" /\ since'[w] = changes
               /\ UNCHANGED <<buffer, repeatable>>
            \/ pc'[w] = "idle" /\ purpose'[w] = "none" /\ since'[w] = 0 /\ Flushed(w)
<1>1. (ForceReload(w, "reset") /\ UNCHANGED <<buffer, repeatable>>) \/ Flushed(w)
  BY Zenon DEF UploadReturns
<1>2. CASE ForceReload(w, "reset") /\ UNCHANGED <<buffer, repeatable>>
  BY <1>2, ReloadForced DEF Moves
<1>3. CASE Flushed(w)
  BY <1>3, CallEnds DEF Moves, Flushed
<1>. QED BY <1>1, <1>2, <1>3

\* The other steps of a thread.
LEMMA PlainMoves ==
  ASSUME Typed, NEW w \in Writers
  PROVE  /\ Write(w) => Moves(w) /\ pc'[w] \in {"idle", "put"} /\ UNCHANGED <<purpose, since>>
         /\ Close(w) => Moves(w) /\ pc'[w] = "put" /\ UNCHANGED <<purpose, since>>
         /\ Query(w) => Moves(w) /\ pc'[w] = "try_lock" /\ purpose'[w] = "query" /\ UNCHANGED since
         /\ SkipReload(w) \/ Reset(w) => Moves(w) /\ pc'[w] = "idle" /\ purpose'[w] = "none" /\ since'[w] = 0
         /\ TakeRoute(w) => Moves(w) /\ pc'[w] \in {"put", "idle"} /\ purpose'[w] = "none" /\ since'[w] = 0
         /\ Lock(w) => Moves(w) /\ pc'[w] = "get" /\ UNCHANGED <<purpose, since>>
         /\ ReloadAnswered(w) => /\ Moves(w) /\ pc'[w] = "parse" /\ UNCHANGED <<purpose, since>>
                                 /\ snapshot'[w] = [servers |-> routes, change |-> changes]
         /\ Serve(w) \/ Reassigned(w) => Moves(w) /\ pc'[w] = "reply" /\ UNCHANGED <<purpose, since>>
<1>. USE DEF Moves, Typed, Places, Goto
<1>1. Write(w) => Moves(w) /\ pc'[w] \in {"idle", "put"} /\ UNCHANGED <<purpose, since>>
  BY DEF Write
<1>2. Close(w) => Moves(w) /\ pc'[w] = "put" /\ UNCHANGED <<purpose, since>>
  BY DEF Close
<1>3. Query(w) => Moves(w) /\ pc'[w] = "try_lock" /\ purpose'[w] = "query" /\ UNCHANGED since
  BY DEF Query
<1>4. SkipReload(w) \/ Reset(w) => Moves(w) /\ pc'[w] = "idle" /\ purpose'[w] = "none" /\ since'[w] = 0
  BY CallEnds DEF SkipReload, Reset, Flushed
<1>5. TakeRoute(w) => Moves(w) /\ pc'[w] \in {"put", "idle"} /\ purpose'[w] = "none" /\ since'[w] = 0
  BY RetryEnds DEF TakeRoute
<1>6. Lock(w) => Moves(w) /\ pc'[w] = "get" /\ UNCHANGED <<purpose, since>>
  BY DEF Lock
<1>7. ReloadAnswered(w) => /\ Moves(w) /\ pc'[w] = "parse" /\ UNCHANGED <<purpose, since>>
                           /\ snapshot'[w] = [servers |-> routes, change |-> changes]
  BY DEF ReloadAnswered
<1>8. Serve(w) \/ Reassigned(w) => Moves(w) /\ pc'[w] = "reply" /\ UNCHANGED <<purpose, since>>
  BY DEF Serve, Reassigned, Answer
<1>. QED BY <1>1, <1>2, <1>3, <1>4, <1>5, <1>6, <1>7, <1>8

ThreadStep(w) == Write(w) \/ Close(w) \/ Query(w) \/ Lock(w) \/ Continues(w)

LEMMA StepMoves ==
  ASSUME Typed, NEW w \in Writers, ThreadStep(w)
  PROVE  Moves(w)
<1>1. CASE Parse(w)
  BY <1>1, ParseEnds
<1>2. CASE ReloadRaises(w)
  BY <1>2, ReloadRaisesEnds
<1>3. CASE RequestFails(w)
  BY <1>3, RequestFailsEnds
<1>4. CASE UploadReturns(w)
  BY <1>4, UploadReturnsEnds
<1>5. CASE \/ Write(w) \/ Close(w) \/ Query(w) \/ SkipReload(w) \/ Reset(w) \/ TakeRoute(w)
            \/ Lock(w) \/ ReloadAnswered(w) \/ Serve(w) \/ Reassigned(w)
  BY <1>5, PlainMoves
<1>. QED BY <1>1, <1>2, <1>3, <1>4, <1>5, Zenon DEF ThreadStep, Continues

-----------------------------------------------------------------------------
(* Types                                                                   *)

\* What the threads' steps do to the rows they hold.
LEMMA BufferMoves ==
  ASSUME NEW w \in Writers, ThreadStep(w)
  PROVE  Write(w) \/ (Flushed(w) /\ UNCHANGED rows) \/ UNCHANGED <<rows, buffer>>
<1>1. CASE UploadReturns(w)
  <2>1. UNCHANGED buffer \/ Flushed(w)
    BY <1>1, Zenon DEF UploadReturns
  <2>. QED BY <1>1, <2>1 DEF UploadReturns
<1>2. CASE Reset(w)
  BY <1>2 DEF Reset
<1>3. CASE \/ Close(w) \/ Query(w) \/ SkipReload(w) \/ TakeRoute(w) \/ Lock(w) \/ ReloadAnswered(w)
            \/ Serve(w) \/ Reassigned(w) \/ Parse(w) \/ ReloadRaises(w) \/ RequestFails(w)
  BY <1>3 DEF Close, Query, SkipReload, TakeRoute, Lock, ReloadAnswered, Serve, Reassigned, Answer,
     Parse, ReloadRaises, RequestFails
<1>. QED BY <1>1, <1>2, <1>3, Zenon DEF ThreadStep, Continues

LEMMA RowsTyped ==
  ASSUME Typed, NEW w \in Writers, ThreadStep(w)
  PROVE  /\ rows' \in [Writers -> 0..MaxRows]
         /\ buffer' \in [Writers -> SUBSET (Writers \X (1..MaxRows))]
<1>. USE StreamAssumption DEF Typed, StreamAssumption
<1>1. CASE Write(w)
  <2>1. rows[w] \in 0..MaxRows /\ rows[w] < MaxRows
    BY <1>1 DEF Write
  <2>2. rows' = [rows EXCEPT ![w] = @ + 1]
    BY <1>1 DEF Write
  <2>3. rows' \in [Writers -> 0..MaxRows] /\ rows'[w] = rows[w] + 1
    BY <2>1, <2>2
  <2>4. <<w, rows'[w]>> \in Writers \X (1..MaxRows)
    BY <2>1, <2>3
  <2>5. buffer' = [buffer EXCEPT ![w] = @ \cup {<<w, rows'[w]>>}]
    BY <1>1 DEF Write
  <2>. QED BY <2>3, <2>4, <2>5
<1>2. CASE Flushed(w) /\ UNCHANGED rows
  BY <1>2 DEF Flushed, FreshBuffer
<1>3. CASE UNCHANGED <<rows, buffer>>
  BY <1>3
<1>. QED BY <1>1, <1>2, <1>3, BufferMoves

LEMMA RoutesTyped ==
  ASSUME Typed, ChangeRoutes
  PROVE  changes' = changes + 1 /\ routes' \in Seq(Nat)
<1>. USE DEF Typed
<1>1. changes' = changes + 1 /\ changes' \in Nat
  BY DEF ChangeRoutes
<1>2. CASE \E i \in DOMAIN routes : routes' = [routes EXCEPT ![i] = changes']
  BY <1>1, <1>2
<1>3. CASE \E n \in (1..MaxSlots) \ {Len(routes)} :
             routes' = [i \in 1..n |-> IF i \in DOMAIN routes THEN routes[i] ELSE changes']
  <2>1. PICK n \in (1..MaxSlots) \ {Len(routes)} :
               routes' = [i \in 1..n |-> IF i \in DOMAIN routes THEN routes[i] ELSE changes']
    BY <1>3
  <2>2. n \in Nat /\ \A i \in DOMAIN routes : routes[i] \in Nat
    BY <2>1, StreamAssumption DEF StreamAssumption
  <2>. QED BY <1>1, <2>1, <2>2
<1>. QED BY <1>1, <1>2, <1>3 DEF ChangeRoutes

LEMMA TypedStep ==
  ASSUME Typed, [Next]_vars
  PROVE  Typed'
<1>1. CASE \E w \in Writers : ThreadStep(w)
  <2>1. PICK w \in Writers : ThreadStep(w)
    BY <1>1
  <2>2. UNCHANGED <<routes, changes>> /\ listed' \in Nat
    <3>1. CASE Parse(w)
      BY <3>1 DEF Parse, Typed
    <3>2. CASE ~Parse(w)
      BY <2>1, <3>2 DEF ThreadStep, Continues, Write, Close, Query, Lock, TakeRoute, UploadReturns,
         Reset, SkipReload, ReloadAnswered, ReloadRaises, Serve, Reassigned, Answer, RequestFails, Typed
    <3>. QED BY <3>1, <3>2
  <2>3. Moves(w)
    BY <2>1, StepMoves
  <2>4. rows' \in [Writers -> 0..MaxRows] /\ buffer' \in [Writers -> SUBSET (Writers \X (1..MaxRows))]
    BY <2>1, RowsTyped
  <2>. QED BY <2>2, <2>3, <2>4 DEF Typed, Moves
<1>2. CASE ChangeRoutes
  <2>1. changes' = changes + 1 /\ routes' \in Seq(Nat)
    BY <1>2, RoutesTyped
  <2>2. UNCHANGED <<pc, purpose, rows, buffer, listed, since, snapshot>>
    BY <1>2 DEF ChangeRoutes
  <2>. QED BY <2>1, <2>2 DEF Typed
<1>3. CASE UNCHANGED vars
  BY <1>3 DEF Typed
<1>. QED BY <1>1, <1>2, <1>3, Zenon DEF Next, ThreadStep

-----------------------------------------------------------------------------
(* Rows                                                                    *)

\* What the actions ask of the thread that takes them.
LEMMA Guards ==
  ASSUME NEW w \in Writers
  PROVE  /\ Write(w) \/ Close(w) \/ Query(w) => pc[w] = "idle"
         /\ TakeRoute(w) => pc[w] = "route"
         /\ UploadReturns(w) => pc[w] = "reply"
         /\ Reset(w) => pc[w] = "reset"
         /\ SkipReload(w) => pc[w] = "try_lock"
         /\ Lock(w) => pc[w] \in {"lock", "try_lock"}
         /\ ReloadAnswered(w) => pc[w] = "get"
         /\ Parse(w) => pc[w] = "parse"
         /\ ReloadRaises(w) => pc[w] \in {"get", "parse"}
         /\ Serve(w) \/ Reassigned(w) \/ RequestFails(w) => pc[w] = "put"
BY DEF Write, Close, Query, TakeRoute, UploadReturns, Reset, SkipReload, Lock, ReloadAnswered, Parse,
   ReloadRaises, Serve, Reassigned, RequestFails

LEMMA PurposesStep ==
  ASSUME Typed, Purposes, [Next]_vars
  PROVE  Purposes'
<1>1. CASE \E w \in Writers : ThreadStep(w)
  <2>1. PICK w \in Writers : ThreadStep(w)
    BY <1>1
  <2>2. Moves(w)
    BY <2>1, StepMoves
  <2>3. Typed /\ purpose[w] \in {"none", "retry", "reset", "query"}
    BY DEF Typed
  <2> DEFINE Fits(p, q) ==
        /\ q # "none" => p \in {"lock", "try_lock", "get", "parse", "route", "reset"}
        /\ p = "reset" => q = "reset"
        /\ p = "route" => q = "retry"
        /\ p = "lock" => q \in {"retry", "reset"}
        /\ p = "try_lock" => q = "query"
        /\ p \in {"get", "parse"} => q # "none"
  <2>4. Fits(pc[w], purpose[w])
    BY DEF Purposes
  <2>5. pc'[w] \in {"idle", "put"} /\ purpose'[w] = "none" => Fits(pc'[w], purpose'[w])
    OBVIOUS
  <2>6. Fits(pc'[w], purpose'[w])
    <3>1. CASE Parse(w)
      BY <2>3, <2>4, <2>5, <3>1, ParseEnds, Guards
    <3>2. CASE ReloadRaises(w)
      BY <2>5, <3>2, ReloadRaisesEnds
    <3>3. CASE RequestFails(w)
      BY <2>5, <3>3, RequestFailsEnds
    <3>4. CASE UploadReturns(w)
      BY <2>5, <3>4, UploadReturnsEnds
    <3>5. CASE Write(w) \/ Close(w)
      BY <2>4, <2>5, <3>5, PlainMoves, Guards
    <3>6. CASE SkipReload(w) \/ Reset(w) \/ TakeRoute(w)
      BY <2>5, <3>6, PlainMoves
    <3>7. CASE Query(w) \/ Lock(w) \/ ReloadAnswered(w) \/ Serve(w) \/ Reassigned(w)
      BY <2>4, <3>7, PlainMoves, Guards
    <3>. QED BY <2>1, <3>1, <3>2, <3>3, <3>4, <3>5, <3>6, <3>7, Zenon DEF ThreadStep, Continues
  <2>7. \A v \in Writers \ {w} : pc'[v] = pc[v] /\ purpose'[v] = purpose[v]
    BY <2>2 DEF Moves
  <2>. QED BY <2>6, <2>7 DEF Purposes
<1>2. CASE ChangeRoutes \/ UNCHANGED vars
  BY <1>2 DEF ChangeRoutes, Purposes
<1>. QED BY <1>1, <1>2, Zenon DEF Next, ThreadStep

\* The rows of two writers are different.
LEMMA RowsApart ==
  ASSUME OwnRows, NEW v \in Writers, NEW w \in Writers, v # w
  PROVE  buffer[v] \cap buffer[w] = {}
BY DEF OwnRows

\* The rows that are in buffers.
Held(b) == UNION {b[v] : v \in Writers}

LEMMA HeldIs ==
  ASSUME NEW b, NEW q
  PROVE  q \in Held(b) <=> \E v \in Writers : q \in b[v]
BY DEF Held

\* The parts of RowInv that relate the rows to where a thread is.
Rows == OwnRows /\ SafeToReset /\ NotStoredYet /\ RowsReachTable

\* Steps that leave the rows where they are.
LEMMA RowsStay ==
  ASSUME Typed, Rows, NEW w \in Writers, Moves(w),
         UNCHANGED <<rows, buffer, stored, moved, twice>>,
         repeatable \subseteq repeatable',
         Answered(w)' => Answered(w),
         Answered(w) => Answered(w)' \/ buffer[w] \subseteq repeatable'
  PROVE  Rows'
<1>1. OwnRows' /\ RowsReachTable'
  BY DEF Rows, OwnRows, RowsReachTable, Written
<1>2. \A v \in Writers \ {w} : Answered(v)' <=> Answered(v)
  BY DEF Moves, Answered
<1>3. SafeToReset'
  BY <1>2 DEF Rows, SafeToReset
<1>4. NotStoredYet'
  <2> SUFFICES ASSUME NEW v \in Writers, ~Answered(v)'
               PROVE  (stored \cap buffer[v] \subseteq repeatable)'
    BY DEF NotStoredYet
  <2>1. CASE ~Answered(v)
    BY <2>1 DEF Rows, NotStoredYet
  <2>2. CASE Answered(v)
    <3>1. v = w
      BY <1>2, <2>2
    <3>. QED BY <2>2, <3>1
  <2>. QED BY <2>1, <2>2
<1>. QED BY <1>1, <1>3, <1>4 DEF Rows

LEMMA RowsWritten ==
  ASSUME Typed, Rows, NEW w \in Writers, Write(w), ~Answered(w)
  PROVE  Rows'
<1>. USE StreamAssumption DEF StreamAssumption
<1> DEFINE r == <<w, rows[w] + 1>>
<1>1. /\ rows[w] \in 0..MaxRows /\ rows[w] < MaxRows
      /\ rows' = [rows EXCEPT ![w] = rows[w] + 1]
      /\ buffer' = [buffer EXCEPT ![w] = buffer[w] \cup {<<w, rows'[w]>>}]
  BY DEF Write, Typed
<1>2. /\ rows'[w] = rows[w] + 1 /\ \A v \in Writers \ {w} : rows'[v] = rows[v]
  BY <1>1 DEF Typed
<1>3. /\ buffer'[w] = buffer[w] \cup {r} /\ \A v \in Writers \ {w} : buffer'[v] = buffer[v]
  BY <1>1, <1>2 DEF Typed
<1>4. UNCHANGED <<stored, moved, twice, repeatable>>
  BY DEF Write
<1>5. Written' = Written \cup {r} /\ r \notin Written
  <2>1. rows \in [Writers -> 0..MaxRows]
    BY DEF Typed
  <2>. QED BY <1>1, <1>2, <2>1 DEF Written
<1>6. OwnRows'
  <2>1. \A v \in Writers : \A q \in buffer'[v] : q[1] = v /\ q[2] <= rows'[v]
    <3>1. SUFFICES ASSUME NEW v \in Writers, NEW q \in buffer'[v]
                   PROVE  q[1] = v /\ q[2] <= rows'[v]
      OBVIOUS
    <3>2. CASE v = w /\ q = r
      BY <1>1, <1>2, <3>2
    <3>3. CASE v = w /\ q \in buffer[w]
      <4>1. q[1] = w /\ q[2] <= rows[w]
        BY <3>3 DEF Rows, OwnRows
      <4>2. q[2] \in Nat /\ rows[w] \in Nat
        BY <1>1, <3>3 DEF Typed
      <4>. QED BY <1>2, <3>3, <4>1, <4>2
    <3>4. CASE v # w
      BY <1>2, <1>3, <3>1, <3>4 DEF Rows, OwnRows
    <3>. QED BY <1>3, <3>1, <3>2, <3>3, <3>4
  <2>2. (stored \cup moved)' \subseteq Written'
    BY <1>4, <1>5 DEF Rows, OwnRows
  <2>. QED BY <2>1, <2>2 DEF OwnRows
<1>7. Moves(w) /\ ~Answered(w)'
  BY PlainMoves, Guards DEF Answered
<1>8. \A v \in Writers \ {w} : Answered(v)' <=> Answered(v)
  BY <1>7 DEF Moves, Answered
<1>9. SafeToReset'
  BY <1>3, <1>4, <1>7, <1>8 DEF Rows, SafeToReset
<1>10. r \notin stored
  BY <1>5 DEF Rows, OwnRows
<1>11. NotStoredYet'
  BY <1>3, <1>4, <1>8, <1>10 DEF Rows, NotStoredYet
<1>12. Held(buffer') = Held(buffer) \cup {r}
  <2>1. \A q : q \in Held(buffer') <=> \E v \in Writers : q \in buffer'[v]
    BY HeldIs, Zenon
  <2>2. \A q : q \in Held(buffer) <=> \E v \in Writers : q \in buffer[v]
    BY HeldIs, Zenon
  <2>3. \A q : (\E v \in Writers : q \in buffer'[v]) <=> ((\E v \in Writers : q \in buffer[v]) \/ q = r)
    BY <1>3
  <2>. QED BY <2>1, <2>2, <2>3
<1>13. RowsReachTable'
  <2>1. Written = stored \cup moved \cup Held(buffer) /\ twice = {}
    BY DEF Rows, RowsReachTable, Held
  <2>2. Written' = stored' \cup moved' \cup Held(buffer')
    BY <1>4, <1>5, <1>12, <2>1
  <2>. QED BY <1>4, <2>1, <2>2 DEF RowsReachTable, Held
<1>. QED BY <1>6, <1>9, <1>11, <1>13 DEF Rows

LEMMA RowsFlushed ==
  ASSUME Typed, Rows, NEW w \in Writers, Flushed(w), Answered(w),
         UNCHANGED <<rows, stored, moved, twice>>
  PROVE  Rows'
<1>1. buffer'[w] = {} /\ \A v \in Writers \ {w} : buffer'[v] = buffer[v]
  BY DEF Flushed, FreshBuffer, Typed
<1>2. repeatable' = repeatable \ buffer[w]
  BY DEF Flushed
<1>3. buffer[w] \subseteq stored \cup moved
  BY DEF Rows, SafeToReset
<1>4. OwnRows'
  BY <1>1 DEF Rows, OwnRows, Written
<1>5. \A v \in Writers \ {w} : Answered(v)' <=> Answered(v)
  BY CallEnds DEF Flushed, Answered
<1>6. SafeToReset'
  BY <1>1, <1>5 DEF Rows, SafeToReset
<1>7. NotStoredYet'
  <2> SUFFICES ASSUME NEW v \in Writers \ {w}, ~Answered(v)'
               PROVE  stored \cap buffer[v] \subseteq repeatable'
    BY <1>1 DEF NotStoredYet
  <2>1. stored \cap buffer[v] \subseteq repeatable
    BY <1>5 DEF Rows, NotStoredYet
  <2>2. buffer[v] \cap buffer[w] = {}
    BY RowsApart DEF Rows
  <2>. QED BY <1>2, <2>1, <2>2
<1>8. Held(buffer') \cup buffer[w] = Held(buffer)
  <2>1. \A q : q \in Held(buffer') <=> \E v \in Writers : q \in buffer'[v]
    BY HeldIs, Zenon
  <2>2. \A q : q \in Held(buffer) <=> \E v \in Writers : q \in buffer[v]
    BY HeldIs, Zenon
  <2>3. \A q : ((\E v \in Writers : q \in buffer'[v]) \/ q \in buffer[w]) <=> \E v \in Writers : q \in buffer[v]
    BY <1>1
  <2>. QED BY <2>1, <2>2, <2>3
<1>9. RowsReachTable'
  <2>1. Written' = Written
    BY DEF Written
  <2>2. Written = stored \cup moved \cup Held(buffer) /\ twice = {}
    BY DEF Rows, RowsReachTable, Held
  <2>3. Written' = stored' \cup moved' \cup Held(buffer')
    BY <1>3, <1>8, <2>1, <2>2
  <2>. QED BY <2>2, <2>3 DEF RowsReachTable, Held
<1>. QED BY <1>4, <1>6, <1>7, <1>9 DEF Rows

LEMMA RowsStored ==
  ASSUME Typed, Rows, NEW w \in Writers, Moves(w), Store(w), ~Answered(w),
         UNCHANGED <<rows, buffer>>,
         \/ Answered(w)' /\ UNCHANGED repeatable
         \/ repeatable' = repeatable \cup buffer[w] /\ ~Answered(w)'
  PROVE  Rows'
<1>1. /\ stored' = stored \cup buffer[w]
      /\ twice' = twice \cup ((stored \cap buffer[w]) \ repeatable)
      /\ moved' = moved \ buffer[w]
  BY DEF Store
<1>2. \A v \in Writers \ {w} : Answered(v)' <=> Answered(v)
  BY DEF Moves, Answered
<1>3. stored' \cup moved' = stored \cup moved \cup buffer[w]
  BY <1>1
<1>4. buffer[w] \subseteq Written
  BY DEF Rows, RowsReachTable
<1>5. OwnRows'
  BY <1>3, <1>4 DEF Rows, OwnRows, Written
<1>6. SafeToReset'
  BY <1>1, <1>2, <1>3 DEF Rows, SafeToReset
<1>7. NotStoredYet'
  <2> SUFFICES ASSUME NEW v \in Writers, ~Answered(v)'
               PROVE  stored' \cap buffer[v] \subseteq repeatable'
    BY DEF NotStoredYet
  <2>1. CASE v = w
    BY <2>1
  <2>2. CASE v # w
    <3>1. stored \cap buffer[v] \subseteq repeatable
      BY <1>2, <2>2 DEF Rows, NotStoredYet
    <3>2. buffer[v] \cap buffer[w] = {}
      BY <2>2, RowsApart DEF Rows
    <3>. QED BY <1>1, <3>1, <3>2
  <2>. QED BY <2>1, <2>2
<1>8. twice' = {}
  BY <1>1 DEF Rows, NotStoredYet, RowsReachTable
<1>9. RowsReachTable'
  BY <1>3, <1>8 DEF Rows, RowsReachTable, Written
<1>. QED BY <1>5, <1>6, <1>7, <1>9 DEF Rows

LEMMA RowsReassigned ==
  ASSUME Typed, Rows, NEW w \in Writers, Reassigned(w)
  PROVE  Rows'
<1>1. /\ moved' = (moved \cup buffer[w]) \ stored
      /\ UNCHANGED <<stored, twice, rows, buffer, repeatable>>
  BY DEF Reassigned, Answer
<1>2. Moves(w) /\ Answered(w)'
  BY PlainMoves DEF Answered
<1>3. \A v \in Writers \ {w} : Answered(v)' <=> Answered(v)
  BY <1>2 DEF Moves, Answered
<1>4. stored' \cup moved' = stored \cup moved \cup buffer[w]
  BY <1>1
<1>5. buffer[w] \subseteq Written
  BY DEF Rows, RowsReachTable
<1>6. OwnRows'
  BY <1>1, <1>4, <1>5 DEF Rows, OwnRows, Written
<1>7. SafeToReset'
  BY <1>1, <1>3, <1>4 DEF Rows, SafeToReset
<1>8. NotStoredYet'
  BY <1>1, <1>2, <1>3 DEF Rows, NotStoredYet
<1>9. RowsReachTable'
  BY <1>1, <1>4, <1>5 DEF Rows, RowsReachTable, Written
<1>. QED BY <1>6, <1>7, <1>8, <1>9 DEF Rows

LEMMA RowStep ==
  ASSUME Typed, RowInv, [Next]_vars
  PROVE  RowInv'
<1>0. Rows /\ Purposes
  BY DEF RowInv, Rows
<1>1. CASE \E w \in Writers : ThreadStep(w)
  <2>1. PICK w \in Writers : ThreadStep(w)
    BY <1>1
  <2>2. Moves(w)
    BY <2>1, StepMoves
  <2>3. pc[w] \in {"idle", "put", "route", "try_lock"} => ~Answered(w)
    BY <1>0 DEF Purposes, Answered
  <2>4. pc'[w] \in {"idle", "put", "try_lock"} /\ purpose'[w] \in {"none", "query"} => ~Answered(w)'
    BY DEF Answered
  <2>5. Rows'
    <3>1. CASE Write(w)
      BY <1>0, <2>3, <3>1, RowsWritten, Guards
    <3>2. CASE Close(w) \/ Query(w)
      <4>1. pc[w] = "idle" /\ purpose[w] = "none"
        BY <1>0, <3>2, Guards DEF Purposes
      <4>2. ~Answered(w)'
        BY <2>4, <3>2, <4>1, PlainMoves
      <4>3. UNCHANGED <<rows, buffer, stored, moved, twice, repeatable>>
        BY <3>2 DEF Close, Query
      <4>. QED BY <1>0, <2>2, <2>3, <4>1, <4>2, <4>3, RowsStay
    <3>3. CASE TakeRoute(w) \/ SkipReload(w)
      <4>1. ~Answered(w) /\ ~Answered(w)'
        BY <2>3, <2>4, <3>3, Guards, PlainMoves
      <4>2. UNCHANGED <<rows, buffer, stored, moved, twice, repeatable>>
        BY <3>3 DEF TakeRoute, SkipReload
      <4>. QED BY <1>0, <2>2, <4>1, <4>2, RowsStay
    <3>4. CASE UploadReturns(w)
      <4>1. Answered(w) /\ UNCHANGED <<rows, stored, moved, twice>>
        BY <3>4, Guards DEF Answered, UploadReturns
      <4>2. \/ Answered(w)' /\ UNCHANGED <<buffer, repeatable>>
            \/ Flushed(w)
        BY <3>4, UploadReturnsEnds DEF Answered
      <4>. QED BY <1>0, <2>2, <4>1, <4>2, RowsStay, RowsFlushed
    <3>5. CASE Reset(w)
      <4>1. Answered(w) /\ Flushed(w) /\ UNCHANGED <<rows, stored, moved, twice>>
        BY <3>5, Guards DEF Answered, Reset
      <4>. QED BY <1>0, <4>1, RowsFlushed
    <3>6. CASE Lock(w) \/ ReloadAnswered(w) \/ Parse(w)
      <4>1. UNCHANGED <<rows, buffer, stored, moved, twice, repeatable>>
        BY <3>6 DEF Lock, ReloadAnswered, Parse
      <4>2. Answered(w)' <=> Answered(w)
        <5>1. CASE Parse(w)
          BY <1>0, <5>1, ParseEnds, Guards DEF Answered, Purposes, Typed
        <5>2. CASE Lock(w) \/ ReloadAnswered(w)
          BY <5>2, PlainMoves, Guards DEF Answered
        <5>. QED BY <3>6, <5>1, <5>2
      <4>. QED BY <1>0, <2>2, <4>1, <4>2, RowsStay
    <3>7. CASE ReloadRaises(w)
      <4>1. ~Answered(w)'
        BY <2>4, <3>7, ReloadRaisesEnds
      <4>2. UNCHANGED <<rows, buffer, stored, moved, twice>>
        BY <3>7 DEF ReloadRaises
      <4>3. \/ UNCHANGED repeatable /\ purpose[w] \in {"retry", "query"}
            \/ repeatable' = IF purpose[w] = "reset" THEN repeatable \cup buffer[w] ELSE repeatable
        BY <3>7 DEF ReloadRaises
      <4>4. Answered(w) => purpose[w] = "reset"
        BY <3>7, Guards DEF Answered
      <4>. QED BY <1>0, <2>2, <4>1, <4>2, <4>3, <4>4, RowsStay
    <3>8. CASE Serve(w)
      <4>1. ~Answered(w) /\ Answered(w)'
        BY <2>3, <3>8, Guards, PlainMoves DEF Answered
      <4>2. Store(w) /\ UNCHANGED <<rows, buffer, repeatable>>
        BY <3>8 DEF Serve, Answer
      <4>. QED BY <1>0, <2>2, <4>1, <4>2, RowsStored
    <3>9. CASE Reassigned(w)
      BY <1>0, <3>9, RowsReassigned
    <3>10. CASE RequestFails(w)
      <4>1. ~Answered(w) /\ ~Answered(w)'
        BY <2>3, <3>10, Guards, RequestFailsEnds DEF Answered
      <4>2. \/ Store(w) /\ repeatable' = repeatable \cup buffer[w]
            \/ UNCHANGED <<stored, twice, moved, repeatable>>
        BY <3>10 DEF RequestFails
      <4>3. UNCHANGED <<rows, buffer>>
        BY <3>10 DEF RequestFails
      <4>. QED BY <1>0, <2>2, <4>1, <4>2, <4>3, RowsStored, RowsStay
    <3>. QED BY <2>1, <3>1, <3>2, <3>3, <3>4, <3>5, <3>6, <3>7, <3>8, <3>9, <3>10, Zenon
         DEF ThreadStep, Continues
  <2>. QED BY <1>0, <2>5, PurposesStep DEF RowInv, Rows
<1>2. CASE ChangeRoutes \/ UNCHANGED vars
  <2>1. UNCHANGED <<pc, purpose, rows, buffer, stored, moved, twice, repeatable>>
    BY <1>2 DEF ChangeRoutes
  <2>. QED BY <2>1 DEF RowInv, OwnRows, SafeToReset, NotStoredYet, Answered, Purposes, RowsReachTable, Written
<1>. QED BY <1>1, <1>2, Zenon DEF Next, ThreadStep

-----------------------------------------------------------------------------
(* Reloads                                                                 *)

\* Steps of thread w outside a reload.
Elsewhere(w) ==
  /\ pc[w] \notin {"get", "parse"} /\ pc'[w] \notin {"get", "parse", "route", "reset"}
  /\ since'[w] \in {since[w], 0, changes}
  /\ UNCHANGED <<reloading, listed, changes>>

LEMMA ReloadSteps ==
  ASSUME Typed, NEW w \in Writers, ThreadStep(w)
  PROVE  Lock(w) \/ ReloadAnswered(w) \/ Parse(w) \/ ReloadRaises(w) \/ Elsewhere(w)
<1>1. CASE Write(w) \/ Close(w) \/ Query(w) \/ SkipReload(w) \/ TakeRoute(w) \/ Reset(w)
           \/ Serve(w) \/ Reassigned(w)
  <2>1. UNCHANGED <<reloading, listed, changes>>
    BY <1>1 DEF Write, Close, Query, SkipReload, TakeRoute, Reset, Serve, Reassigned, Answer
  <2>2. pc'[w] \in {"idle", "put", "try_lock", "reply"} /\ since'[w] \in {since[w], 0}
    BY <1>1, PlainMoves
  <2>3. pc[w] \notin {"get", "parse"}
    BY <1>1, Guards
  <2>. QED BY <2>1, <2>2, <2>3 DEF Elsewhere
<1>2. CASE UploadReturns(w)
  <2>1. UNCHANGED <<reloading, listed, changes>>
    BY <1>2 DEF UploadReturns
  <2>. QED BY <1>2, <2>1, UploadReturnsEnds, Guards DEF Elsewhere
<1>3. CASE RequestFails(w)
  <2>1. UNCHANGED <<reloading, listed, changes>>
    BY <1>3 DEF RequestFails
  <2>. QED BY <1>3, <2>1, RequestFailsEnds, Guards DEF Elsewhere
<1>. QED BY <1>1, <1>2, <1>3, Zenon DEF ThreadStep, Continues

LEMMA FreshStep ==
  ASSUME Typed, Purposes, FreshInv, [Next]_vars
  PROVE  FreshInv'
<1>. USE StreamAssumption DEF StreamAssumption
<1>0. /\ changes \in Nat /\ listed \in Nat /\ \A v \in Writers : since[v] \in Nat /\ snapshot[v].change \in Nat
  BY DEF Typed
<1>1. CASE \E w \in Writers : ThreadStep(w)
  <2>1. PICK w \in Writers : ThreadStep(w)
    BY <1>1
  <2>2. /\ Moves(w) 
        /\ \A v \in Writers \ {w} : pc'[v] = pc[v] /\ since'[v] = since[v] /\ snapshot'[v] = snapshot[v]
    BY <2>1, StepMoves DEF Moves
  <2>3. CASE Lock(w)
    <3>1. /\ reloading = Nobody /\ reloading' = w /\ pc'[w] = "get"
          /\ UNCHANGED <<since, listed, changes, snapshot>>
      BY <2>3, PlainMoves DEF Lock, LockIsFree
    <3>. QED BY <2>2, <3>1 DEF FreshInv, Locked, Fresh, ForcedReloadIsFresh
  <2>4. CASE ReloadAnswered(w)
    <3>1. /\ pc[w] = "get" /\ pc'[w] = "parse" /\ snapshot'[w].change = changes
          /\ UNCHANGED <<since, reloading, listed, changes>>
      <4>1. pc'[w] = "parse" /\ snapshot'[w] = [servers |-> routes, change |-> changes]
        BY <2>4, PlainMoves
      <4>. QED BY <2>4, <4>1 DEF ReloadAnswered
    <3>. QED BY <1>0, <2>2, <3>1 DEF FreshInv, Locked, Fresh, ForcedReloadIsFresh
  <2>5. CASE Parse(w)
    <3>1. pc[w] = "parse" /\ listed' = snapshot[w].change /\ reloading' = Nobody /\ changes' = changes
      BY <2>5 DEF Parse, FreedLock
    <3>2. pc'[w] \in {"idle", "route", "reset"} /\ since'[w] \in {since[w], 0}
      BY <2>5, ParseEnds
    <3>3. \A v \in Writers \ {w} : pc[v] \notin {"get", "parse"}
      BY <3>1 DEF FreshInv, Locked
    <3>4. Locked'
      BY <2>2, <3>1, <3>2, <3>3 DEF Locked
    <3>5. since[w] <= listed' /\ listed <= listed' /\ listed' <= changes
      BY <3>1 DEF FreshInv, Fresh
    <3>6. Fresh'
      BY <1>0, <2>2, <3>1, <3>2, <3>3, <3>5 DEF FreshInv, Fresh
    <3>7. ForcedReloadIsFresh'
      BY <1>0, <2>2, <3>1, <3>2, <3>5 DEF FreshInv, ForcedReloadIsFresh
    <3>. QED BY <3>4, <3>6, <3>7 DEF FreshInv
  <2>6. CASE ReloadRaises(w)
    <3>1. /\ pc[w] \in {"get", "parse"} /\ pc'[w] \in {"put", "idle"} /\ since'[w] = 0
          /\ reloading' = Nobody /\ UNCHANGED <<listed, changes>>
      BY <2>6, ReloadRaisesEnds DEF ReloadRaises, FreedLock
    <3>2. \A v \in Writers \ {w} : pc[v] \notin {"get", "parse"}
      BY <3>1 DEF FreshInv, Locked
    <3>. QED BY <1>0, <2>2, <3>1, <3>2 DEF FreshInv, Locked, Fresh, ForcedReloadIsFresh
  <2>7. CASE Elsewhere(w)
    BY <1>0, <2>2, <2>7 DEF Elsewhere, FreshInv, Locked, Fresh, ForcedReloadIsFresh
  <2>. QED BY <2>1, <2>3, <2>4, <2>5, <2>6, <2>7, ReloadSteps
<1>2. CASE ChangeRoutes
  <2>1. changes' = changes + 1 /\ UNCHANGED <<pc, reloading, listed, since, snapshot>>
    BY <1>2 DEF ChangeRoutes
  <2>. QED BY <1>0, <2>1 DEF FreshInv, Locked, Fresh, ForcedReloadIsFresh
<1>3. CASE UNCHANGED vars
  BY <1>3 DEF FreshInv, Locked, Fresh, ForcedReloadIsFresh
<1>. QED BY <1>1, <1>2, <1>3, Zenon DEF Next, ThreadStep

-----------------------------------------------------------------------------
(* The theorems                                                            *)

LEMMA Invariant == Spec => [](Typed /\ RowInv /\ FreshInv)
<1>1. Init => Typed /\ RowInv /\ FreshInv
  BY InitInv
<1>2. Typed /\ RowInv /\ FreshInv /\ [Next]_vars => (Typed /\ RowInv /\ FreshInv)'
  BY TypedStep, RowStep, FreshStep DEF RowInv
<1>. QED BY <1>1, <1>2, PTL DEF Spec

(* Whatever the service fails, refuses, reroutes or answers 308, and        *)
(* however the threads' uploads and reloads interleave, every row written   *)
(* is in the table, lost by a 308, or still in its writer's buffer, and a   *)
(* row is stored twice only when the client could not know it was stored.   *)
THEOREM NoRowVanishes == Spec => []RowsReachTable
<1>1. RowInv => RowsReachTable
  BY DEF RowInv
<1>. QED BY <1>1, Invariant, PTL

(* A thread that goes on after a forced reload finds a list of slots that   *)
(* was asked for after its own call, whichever threads reloaded meanwhile.  *)
THEOREM ReloadsAreFresh == Spec => []ForcedReloadIsFresh
<1>1. FreshInv => ForcedReloadIsFresh
  BY DEF FreshInv
<1>. QED BY <1>1, Invariant, PTL
-----------------------------------------------------------------------------
(* Progress: every step of a call takes it nearer to its end               *)

Most == IF MaxRetries >= RetryTimes THEN MaxRetries ELSE RetryTimes

\* Attempts are counted up to the most that is retried; and what belongs to a
\* reload is there only during it.
Counting ==
  /\ attempt \in [Writers -> 1..(Most + 1)]
  /\ \A w \in Writers :
       /\ pc[w] \in {"idle", "put", "reply", "try_lock"} => since[w] = 0
       /\ pc[w] # "parse" => snapshot[w] = NoSnapshot

Stage(l) ==
  CASE l = "put" -> 6 [] l = "reply" -> 5 [] l \in {"lock", "try_lock"} -> 4
    [] l = "get" -> 3 [] l = "parse" -> 2 [] l \in {"route", "reset"} -> 1 [] OTHER -> 0

\* How far a call is from its end.
Work(w) == IF pc[w] = "idle" THEN 0 ELSE 8 * (Most + 1 - attempt[w]) + Stage(pc[w])

LEMMA Stages ==
  /\ Stage("put") = 6 /\ Stage("reply") = 5 /\ Stage("lock") = 4 /\ Stage("try_lock") = 4
  /\ Stage("get") = 3 /\ Stage("parse") = 2 /\ Stage("route") = 1 /\ Stage("reset") = 1
  /\ Stage("idle") = 0
BY DEF Stage

LEMMA MostIs ==
  Most \in Nat /\ MaxRetries <= Most /\ RetryTimes <= Most /\ Most \in {MaxRetries, RetryTimes}
BY StreamAssumption DEF StreamAssumption, Most

LEMMA CountedIs ==
  ASSUME NEW n \in 1..(Most + 1)
  PROVE  /\ Counted(n) \in {n, n + 1} /\ Counted(n) \in 1..(Most + 1)
         /\ n <= MaxRetries \/ n <= RetryTimes => Counted(n) = n + 1
<1>1. MayRetry("server", n) <=> n <= MaxRetries
  BY DEF MayRetry
<1>2. MayRetry("no_answer", n) <=> n <= RetryTimes
  BY DEF MayRetry
<1>3. MaxRetries \in Nat /\ RetryTimes \in Nat
  BY StreamAssumption DEF StreamAssumption
<1>4. Counted(n) = IF n <= MaxRetries \/ n <= RetryTimes THEN n + 1 ELSE n
  BY <1>1, <1>2 DEF Counted
<1>. QED BY <1>3, <1>4, MostIs

\* A thread ends its call, goes on with this attempt, or starts the next.
Nearer(w) ==
  /\ attempt' \in [Writers -> 1..(Most + 1)]
  /\ \A v \in Writers \ {w} : attempt'[v] = attempt[v]
  /\ pc'[w] \in Places
  /\ \/ pc'[w] = "idle"
     \/ attempt'[w] = attempt[w] /\ Stage(pc'[w]) < Stage(pc[w])
     \/ attempt'[w] = attempt[w] + 1 /\ pc'[w] = "put"

LEMMA EndIsNearer ==
  ASSUME Typed, Counting, NEW w \in Writers, EndCall(w)
  PROVE  Nearer(w)
<1>1. attempt' = [attempt EXCEPT ![w] = 1] /\ pc'[w] = "idle"
  BY DEF EndCall, Goto, Typed
<1>. QED BY <1>1, MostIs DEF Nearer, Counting, Places

LEMMA RetryIsNearer ==
  ASSUME Typed, Counting, NEW w \in Writers, NEW kind, RetryOrRaise(w, kind)
  PROVE  \/ Nearer(w)
         \/ /\ kind \notin {"gateway", "server", "no_answer"}
            /\ attempt' = attempt /\ pc' = [pc EXCEPT ![w] = "put"]
            /\ purpose' = [purpose EXCEPT ![w] = "none"]
            /\ snapshot' = [snapshot EXCEPT ![w] = NoSnapshot]
            /\ since' = [since EXCEPT ![w] = 0] /\ UNCHANGED <<reply, ended>>
<1>1. CASE MayRetry(kind, attempt[w])
  <2>1. /\ pc' = [pc EXCEPT ![w] = "put"]
        /\ attempt' = [attempt EXCEPT ![w] = Counted(attempt[w])]
        /\ purpose' = [purpose EXCEPT ![w] = "none"]
        /\ snapshot' = [snapshot EXCEPT ![w] = NoSnapshot]
        /\ since' = [since EXCEPT ![w] = 0] /\ UNCHANGED <<reply, ended>>
    BY <1>1 DEF RetryOrRaise, Goto
  <2>2. attempt[w] \in 1..(Most + 1) /\ attempt \in [Writers -> 1..(Most + 1)] /\ pc'[w] = "put"
    BY <2>1 DEF Counting, Typed
  <2>3. CASE Counted(attempt[w]) = attempt[w] + 1
    BY <2>1, <2>2, <2>3, CountedIs DEF Nearer, Places
  <2>4. CASE Counted(attempt[w]) = attempt[w]
    <3>1. kind \notin {"gateway", "server", "no_answer"}
      BY <1>1, <2>2, <2>4, CountedIs DEF MayRetry
    <3>2. attempt' = attempt
      BY <2>1, <2>2, <2>4
    <3>. QED BY <2>1, <3>1, <3>2
  <2>. QED BY <2>2, <2>3, <2>4, CountedIs
<1>2. CASE ~MayRetry(kind, attempt[w])
  BY <1>2, EndIsNearer DEF RetryOrRaise, Fail
<1>. QED BY <1>1, <1>2

\* What a step that counts nothing leaves.
LEMMA PlainIsNearer ==
  ASSUME Typed, Counting, NEW w \in Writers, UNCHANGED attempt,
         NEW l \in Places, pc'[w] = l, Stage(l) < Stage(pc[w])
  PROVE  Nearer(w)
BY DEF Nearer, Counting

LEMMA CallIsNearer ==
  ASSUME Typed, Purposes, Counting, NEW w \in Writers, Continues(w) \/ Lock(w)
  PROVE  Nearer(w) \/ UNCHANGED vars
<1>0. DOMAIN pc = Writers
  BY DEF Typed
<1>1. ASSUME TakeRoute(w) PROVE Nearer(w)
  <2>1. RetryOrRaise(w, "gateway")
    BY <1>1 DEF TakeRoute
  <2>. QED BY <2>1, RetryIsNearer
<1>2. ASSUME UploadReturns(w) PROVE Nearer(w)
  <2>1. pc[w] = "reply" /\ (Flushed(w) \/ (ForceReload(w, "reset") /\ UNCHANGED retries))
    BY <1>2, Zenon DEF UploadReturns
  <2>2. CASE Flushed(w)
    BY <2>2, EndIsNearer DEF Flushed
  <2>3. CASE ForceReload(w, "reset") /\ UNCHANGED retries
    <3>1. pc'[w] = "lock" /\ UNCHANGED attempt
      BY <1>0, <2>3 DEF ForceReload, Goto
    <3>. QED BY <2>1, <3>1, Stages, PlainIsNearer DEF Places
  <2>. QED BY <2>1, <2>2, <2>3
<1>3. ASSUME Reset(w) \/ SkipReload(w) PROVE Nearer(w)
  BY <1>3, EndIsNearer DEF Reset, Flushed, SkipReload
<1>4. ASSUME Lock(w) \/ ReloadAnswered(w) \/ Serve(w) \/ Reassigned(w) PROVE Nearer(w)
  <2>1. UNCHANGED attempt
    BY <1>4 DEF Lock, ReloadAnswered, Serve, Reassigned, Answer
  <2>2. Stage(pc'[w]) < Stage(pc[w])
    BY <1>4, Guards, PlainMoves, Stages
  <2>3. pc'[w] \in Places
    BY <1>4, PlainMoves DEF Places
  <2>. QED BY <2>1, <2>2, <2>3, PlainIsNearer
<1>5. ASSUME Parse(w) PROVE Nearer(w)
  <2>1. pc[w] = "parse"
    BY <1>5 DEF Parse
  <2>2. CASE purpose[w] = "query"
    BY <1>5, <2>2, EndIsNearer DEF Parse
  <2>3. CASE purpose[w] # "query"
    <3>1. UNCHANGED attempt /\ pc'[w] \in {"route", "reset"}
      BY <1>0, <1>5, <2>3 DEF Parse, Goto
    <3>. QED BY <2>1, <3>1, Stages, PlainIsNearer DEF Places
  <2>. QED BY <2>2, <2>3
<1>6. ASSUME ReloadRaises(w) PROVE Nearer(w)
  <2>1. RetryOrRaise(w, "gateway") \/ EndCall(w)
    BY <1>6, Zenon DEF ReloadRaises, Fail
  <2>. QED BY <2>1, RetryIsNearer, EndIsNearer
<1>7. ASSUME RequestFails(w) PROVE Nearer(w) \/ UNCHANGED vars
  <2>1. PICK kind \in {"gateway", "server", "no_answer", "client", "throttled"} :
          /\ AfterError(w, kind)
          /\ \/ kind \in {"gateway", "server", "no_answer"}
             \/ UNCHANGED <<stored, twice, moved, repeatable>>
    BY <1>7, Zenon DEF RequestFails
  <2>2. pc[w] = "put" /\ UNCHANGED <<session, uploads, routes, changes, buffer, rows>>
    BY <1>7 DEF RequestFails
  <2>3. CASE kind = "gateway"
    <3>1. pc'[w] = "lock" /\ UNCHANGED attempt
      BY <1>0, <2>1, <2>3 DEF AfterError, ForceReload, Goto
    <3>. QED BY <2>2, <3>1, Stages, PlainIsNearer DEF Places
  <2>4. CASE kind # "gateway"
    <3>1. RetryOrRaise(w, kind)
      BY <2>1, <2>4 DEF AfterError
    <3>2. CASE /\ kind \notin {"gateway", "server", "no_answer"}
               /\ attempt' = attempt /\ pc' = [pc EXCEPT ![w] = "put"]
               /\ purpose' = [purpose EXCEPT ![w] = "none"]
               /\ snapshot' = [snapshot EXCEPT ![w] = NoSnapshot]
               /\ since' = [since EXCEPT ![w] = 0] /\ UNCHANGED <<reply, ended>>
      <4>1. purpose[w] = "none" /\ since[w] = 0 /\ snapshot[w] = NoSnapshot
        BY <2>2 DEF Purposes, Counting, Typed
      <4>2. pc' = pc /\ purpose' = purpose /\ since' = since /\ snapshot' = snapshot
        BY <2>2, <3>2, <4>1 DEF Typed
      <4>3. UNCHANGED <<stored, twice, moved, repeatable>>
        BY <2>1, <3>2
      <4>. QED BY <2>2, <3>2, <4>2, <4>3
    <3>. QED BY <3>1, <3>2, RetryIsNearer
  <2>. QED BY <2>3, <2>4
<1>. QED BY <1>1, <1>2, <1>3, <1>4, <1>5, <1>6, <1>7, Zenon DEF Continues
\* Who is in no call of its own, or in another thread's step, is not moved.
LEMMA CountingStep ==
  ASSUME Typed, Purposes, Counting, [Next]_vars
  PROVE  Counting'
<1>1. ASSUME NEW w \in Writers, ThreadStep(w) PROVE Counting'
  <2>0. Moves(w) /\ Typed
    BY <1>1, StepMoves
  <2>1. attempt' \in [Writers -> 1..(Most + 1)]
    <3>1. CASE Write(w) \/ Close(w) \/ Query(w)
      BY <3>1 DEF Write, Close, Query, Counting
    <3>2. CASE Continues(w) \/ Lock(w)
      BY <3>2, CallIsNearer DEF Nearer, Counting
    <3>. QED BY <1>1, <3>1, <3>2 DEF ThreadStep
  <2>2. ASSUME pc'[w] \in {"idle", "put", "reply", "try_lock"} PROVE since'[w] = 0
    <3>1. CASE Write(w) \/ Close(w) \/ Query(w)
      BY <3>1, PlainMoves, Guards DEF Counting
    <3>2. CASE Serve(w) \/ Reassigned(w)
      BY <3>2, PlainMoves, Guards DEF Counting
    <3>3. CASE SkipReload(w) \/ Reset(w) \/ TakeRoute(w) \/ Lock(w) \/ ReloadAnswered(w)
      BY <2>2, <3>3, PlainMoves
    <3>4. CASE Parse(w) \/ ReloadRaises(w) \/ RequestFails(w) \/ UploadReturns(w)
      BY <2>2, <3>4, ParseEnds, ReloadRaisesEnds, RequestFailsEnds, UploadReturnsEnds
    <3>. QED BY <1>1, <3>1, <3>2, <3>3, <3>4, Zenon DEF ThreadStep, Continues
  <2>3. ASSUME pc'[w] # "parse" PROVE snapshot'[w] = NoSnapshot
    <3>1. CASE EndCall(w)
      BY <3>1 DEF EndCall, Typed
    <3>2. CASE \E kind \in {"gateway", "server", "no_answer", "client", "throttled"} : RetryOrRaise(w, kind)
      <4>1. EndCall(w) \/ snapshot' = [snapshot EXCEPT ![w] = NoSnapshot]
        BY <3>2, Zenon DEF RetryOrRaise, Fail
      <4>. QED BY <3>1, <4>1 DEF Typed
    <3>3. CASE UNCHANGED snapshot /\ pc[w] # "parse"
      BY <3>3 DEF Counting
    <3>4. CASE Write(w) \/ Close(w) \/ Query(w) \/ Lock(w) \/ Serve(w) \/ Reassigned(w)
      <4>1. UNCHANGED snapshot
        BY <3>4 DEF Write, Close, Query, Lock, Serve, Reassigned, Answer
      <4>2. pc[w] # "parse"
        BY <3>4, Guards
      <4>. QED BY <3>3, <4>1, <4>2
    <3>5. CASE SkipReload(w) \/ Reset(w)
      BY <3>1, <3>5 DEF SkipReload, Reset, Flushed
    <3>6. CASE TakeRoute(w)
      BY <3>2, <3>6 DEF TakeRoute
    <3>7. CASE ReloadAnswered(w)
      BY <2>3, <3>7, PlainMoves
    <3>8. CASE Parse(w)
      <4>1. EndCall(w) \/ snapshot' = [snapshot EXCEPT ![w] = NoSnapshot]
        BY <3>8, Zenon DEF Parse
      <4>. QED BY <3>1, <4>1 DEF Typed
    <3>9. CASE ReloadRaises(w)
      <4>1. EndCall(w) \/ RetryOrRaise(w, "gateway")
        BY <3>9, Zenon DEF ReloadRaises, Fail
      <4>. QED BY <3>1, <3>2, <4>1
    <3>10. CASE RequestFails(w)
      <4>1. PICK kind \in {"gateway", "server", "no_answer", "client", "throttled"} : AfterError(w, kind)
        BY <3>10 DEF RequestFails
      <4>2. RetryOrRaise(w, kind) \/ UNCHANGED snapshot
        BY <4>1, Zenon DEF AfterError, ForceReload
      <4>. QED BY <3>2, <3>3, <3>10, <4>2, Guards
    <3>11. CASE UploadReturns(w)
      <4>1. EndCall(w) \/ UNCHANGED snapshot
        BY <3>11, Zenon DEF UploadReturns, ForceReload, Flushed
      <4>. QED BY <3>1, <3>3, <3>11, <4>1, Guards
    <3>. QED BY <1>1, <3>4, <3>5, <3>6, <3>7, <3>8, <3>9, <3>10, <3>11, Zenon DEF ThreadStep, Continues
  <2>. QED BY <2>0, <2>1, <2>2, <2>3 DEF Counting, Moves
<1>2. CASE ChangeRoutes \/ UNCHANGED vars
  BY <1>2 DEF ChangeRoutes, Counting
<1>. QED BY <1>1, <1>2, Zenon DEF Next, ThreadStep

LEMMA InitCounting == Init => Counting
BY MostIs DEF Init, Counting

\* The lock has a thread for its owner, if any.
Owned == reloading \in Writers \cup {Nobody}

LEMMA OwnedStep ==
  ASSUME Typed, Owned, [Next]_vars
  PROVE  Owned'
<1>1. ASSUME NEW w \in Writers, ThreadStep(w) PROVE Owned'
  <2>1. CASE Lock(w)
    BY <2>1 DEF Lock, Owned
  <2>2. CASE Parse(w) \/ ReloadRaises(w)
    BY <2>2 DEF Parse, ReloadRaises, FreedLock, Owned
  <2>3. CASE ReloadAnswered(w) \/ Elsewhere(w)
    BY <2>3 DEF ReloadAnswered, Elsewhere, Owned
  <2>. QED BY <1>1, <2>1, <2>2, <2>3, ReloadSteps
<1>2. CASE ChangeRoutes \/ UNCHANGED vars
  BY <1>2 DEF ChangeRoutes, Owned
<1>. QED BY <1>1, <1>2, Zenon DEF Next, ThreadStep

Sound == Typed /\ RowInv /\ FreshInv /\ Counting /\ Owned

LEMMA SoundAlways == Spec => []Sound
<1>1. Init => Counting /\ Owned
  BY InitCounting DEF Init, Owned
<1>2. Typed /\ RowInv /\ FreshInv /\ Counting /\ Owned /\ [Next]_vars => Counting' /\ Owned'
  BY CountingStep, OwnedStep DEF RowInv
<1>. QED BY <1>1, <1>2, Invariant, PTL DEF Spec, Sound

LEMMA StageBounds ==
  ASSUME NEW l \in Places
  PROVE  Stage(l) \in 0..6 /\ (l # "idle" => Stage(l) \in 1..6)
BY DEF Stage, Places

\* An attempt weighs more than all its stages.
LEMMA Weights ==
  ASSUME NEW k \in Nat, NEW n \in 1..(k + 1), NEW m \in 1..(k + 1), NEW s \in 1..6, NEW r \in 0..6
  PROVE  /\ 0 < 8 * (k + 1 - n) + s
         /\ 8 * (k + 1 - n) + r \in Nat
         /\ r < s => 8 * (k + 1 - n) + r < 8 * (k + 1 - n) + s
         /\ m = n + 1 => 8 * (k + 1 - m) + r < 8 * (k + 1 - n) + s
OBVIOUS

LEMMA WorkIsNat ==
  ASSUME Typed, Counting, NEW w \in Writers
  PROVE  Work(w) \in Nat
<1>1. PICK n \in 1..(Most + 1) : n = attempt[w]
  BY DEF Counting
<1>2. Stage(pc[w]) \in 0..6
  BY StageBounds DEF Typed
<1>3. 8 * (Most + 1 - n) + Stage(pc[w]) \in Nat
  BY <1>1, <1>2, MostIs, Weights
<1>. QED BY <1>1, <1>3 DEF Work

\* A step during a call does not lengthen it, and a step of the call shortens it.
LEMMA CallShortens ==
  ASSUME Sound, [Next]_vars, NEW w \in Writers, pc[w] # "idle"
  PROVE  /\ Work(w)' <= Work(w)
         /\ Continues(w) \/ Lock(w) => Work(w)' < Work(w) \/ UNCHANGED vars
         /\ ~(Continues(w) \/ Lock(w)) => pc'[w] = pc[w]
<1>0. Typed /\ Purposes /\ Counting /\ Work(w) \in Nat
  BY WorkIsNat DEF Sound, RowInv
<1>1. CASE Continues(w) \/ Lock(w)
  <2>1. CASE UNCHANGED vars
    <3>1. Work(w)' = Work(w)
      BY <2>1 DEF Work
    <3>. QED BY <1>0, <1>1, <2>1, <3>1
  <2>2. CASE Nearer(w)
    <3>1. PICK n \in 1..(Most + 1), m \in 1..(Most + 1) : n = attempt[w] /\ m = attempt'[w]
      BY <1>0, <2>2 DEF Counting, Nearer
    <3>2. Work(w) = 8 * (Most + 1 - n) + Stage(pc[w])
      BY <3>1 DEF Work
    <3>3. Work(w)' = IF pc'[w] = "idle" THEN 0 ELSE 8 * (Most + 1 - m) + Stage(pc'[w])
      BY <3>1 DEF Work, Stage
    <3>4. Stage(pc[w]) \in 1..6 /\ Stage(pc'[w]) \in 0..6
      BY <1>0, <2>2, StageBounds DEF Typed, Nearer
    <3>5. \/ pc'[w] = "idle"
          \/ m = n /\ Stage(pc'[w]) < Stage(pc[w])
          \/ m = n + 1
      BY <2>2, <3>1 DEF Nearer
    <3>6. \E s \in 1..6, r \in 0..6 : s = Stage(pc[w]) /\ r = Stage(pc'[w])
      BY <3>4
    <3>7. PICK s \in 1..6, r \in 0..6 : s = Stage(pc[w]) /\ r = Stage(pc'[w])
      BY <3>6
    <3>8. Work(w) = 8 * (Most + 1 - n) + s
      BY <3>2, <3>7
    <3>9. Work(w)' = 0 \/ Work(w)' = 8 * (Most + 1 - m) + r
      BY <3>3, <3>7
    <3>10. Work(w)' < Work(w)
      <4>1. 0 < 8 * (Most + 1 - n) + s
        BY MostIs, Weights
      <4>2. m = n /\ r < s => 8 * (Most + 1 - m) + r < 8 * (Most + 1 - n) + s
        BY MostIs, Weights
      <4>3. m = n + 1 => 8 * (Most + 1 - m) + r < 8 * (Most + 1 - n) + s
        BY MostIs, Weights
      <4>4. pc'[w] = "idle" => Work(w)' = 0
        BY <3>3
      <4>. QED BY <3>5, <3>7, <3>8, <3>9, <4>1, <4>2, <4>3, <4>4
    <3>11. Work(w)' \in Nat
      <4>1. 8 * (Most + 1 - m) + r \in Nat
        BY MostIs, Weights
      <4>. QED BY <3>9, <4>1
    <3>. QED BY <1>0, <1>1, <3>10, <3>11
  <2>. QED BY <1>0, <1>1, <2>1, <2>2, CallIsNearer
<1>2. CASE ~(Continues(w) \/ Lock(w))
  <2>1. pc'[w] = pc[w] /\ attempt'[w] = attempt[w]
    <3>1. ASSUME NEW v \in Writers, ThreadStep(v) PROVE pc'[w] = pc[w] /\ attempt'[w] = attempt[w]
      <4>1. CASE v = w
        BY <1>2, <3>1, <4>1, Guards DEF ThreadStep
      <4>2. CASE v # w
        <5>1. pc'[w] = pc[w]
          BY <1>0, <3>1, <4>2, StepMoves DEF Moves
        <5>2. CASE Continues(v) \/ Lock(v)
          BY <1>0, <4>2, <5>1, <5>2, CallIsNearer DEF Nearer
        <5>3. CASE Write(v) \/ Close(v) \/ Query(v)
          BY <5>1, <5>3 DEF Write, Close, Query
        <5>. QED BY <3>1, <5>2, <5>3 DEF ThreadStep
      <4>. QED BY <4>1, <4>2
    <3>2. CASE ChangeRoutes \/ UNCHANGED vars
      BY <3>2 DEF ChangeRoutes
    <3>. QED BY <3>1, <3>2, Zenon DEF Next, ThreadStep
  <2>2. Work(w)' = Work(w)
    BY <2>1 DEF Work
  <2>. QED BY <1>0, <1>2, <2>1, <2>2
<1>. QED BY <1>1, <1>2

(* No step during a call sets it back, and every step of the call itself    *)
(* brings it nearer to its end: reroutes, reloads of other threads, retries *)
(* and failures never make a flush go round in circles.  The exception is   *)
(* the answer 429, which the code retries for ever: once the attempts are   *)
(* used up such a step changes nothing.                                     *)
THEOREM CallsRunDown ==
  Spec => [][\A w \in Writers : pc[w] # "idle" =>
                Work(w)' <= Work(w) /\ (Continues(w) \/ Lock(w) => Work(w)' < Work(w))]_vars
<1>. DEFINE Down == \A w \in Writers : pc[w] # "idle" =>
                      Work(w)' <= Work(w) /\ (Continues(w) \/ Lock(w) => Work(w)' < Work(w))
<1>1. Sound /\ [Next]_vars => [Down]_vars
  <2>1. ASSUME Sound, [Next]_vars, ~UNCHANGED vars PROVE Down
    BY <2>1, CallShortens
  <2>. QED BY <2>1
<1>. HIDE DEF Down
<1>2. Spec => [][Down]_vars
  BY <1>1, SoundAlways, PTL DEF Spec
<1>. QED BY <1>2 DEF Down
-----------------------------------------------------------------------------
(* Progress: every call returns                                            *)

(* A thread that waits for the lock waits for one that is inside its        *)
(* reload; of ENABLED, which the provers do not compute, the theorem is     *)
(* given that a thread can step where the guards of its actions hold.       *)
THEOREM NobodyIsStuck == Spec /\ []GuardsSuffice => []CallNotStuck
<1>1. ASSUME Sound, reloading # Nobody PROVE reloading \in Writers /\ CallGuard(reloading)
  <2>1. PICK u \in Writers : u = reloading
    BY <1>1 DEF Sound, Owned
  <2>2. pc[u] \in {"get", "parse"}
    BY <1>1, <2>1 DEF Sound, FreshInv, Locked
  <2>. QED BY <2>1, <2>2 DEF CallGuard
<1>2. Sound /\ GuardsSuffice => CallNotStuck
  BY <1>1 DEF CallNotStuck
<1>. QED BY <1>2, SoundAlways, PTL DEF Spec

HolderLetsGo(u) == reloading = u ~> reloading = Nobody

\* Whoever has the lock gives it back.
LEMMA LockReturns ==
  ASSUME NEW u \in Writers
  PROVE  []Sound /\ []GuardsSuffice /\ [][Next]_vars /\ FairTo(u) => HolderLetsGo(u)
<1>. DEFINE Holds == reloading = u
            Free == reloading = Nobody
            Asks == Holds /\ pc[u] = "get"
            Parses == Holds /\ pc[u] = "parse"
<1>1. ASSUME Sound, GuardsSuffice
      PROVE  /\ Holds => Asks \/ Parses
             /\ Asks \/ Parses => CallGuard(u)
             /\ CallerCan(u)
  BY <1>1 DEF Sound, FreshInv, Locked, CallGuard, GuardsSuffice
<1>2. ASSUME Sound, Holds, Next
      PROVE  /\ Continues(u) => Free' \/ (Asks /\ Parses')
             /\ Free' \/ (Asks /\ Parses') \/ (UNCHANGED pc[u] /\ Holds')
  <2>0. /\ Typed /\ pc[u] \in {"get", "parse"} /\ u # Nobody
        /\ \A v \in Writers \ {u} : pc[v] \notin {"get", "parse"}
    BY <1>2, StreamAssumption DEF Sound, FreshInv, Locked, StreamAssumption
  <2>1. ASSUME Continues(u) PROVE Free' \/ (Asks /\ Parses')
    <3>1. CASE ReloadAnswered(u)
      BY <1>2, <2>0, <3>1, PlainMoves DEF ReloadAnswered
    <3>2. CASE Parse(u) \/ ReloadRaises(u)
      BY <3>2 DEF Parse, ReloadRaises, FreedLock
    <3>. QED BY <2>0, <2>1, <3>1, <3>2, Guards DEF Continues
  <2>2. ASSUME NEW v \in Writers, ThreadStep(v)
        PROVE  Free' \/ (Asks /\ Parses') \/ (UNCHANGED pc[u] /\ Holds')
    <3>1. CASE v = u
      BY <2>0, <2>1, <2>2, <3>1, Guards DEF ThreadStep
    <3>2. CASE v # u
      <4>1. ~Lock(v) /\ ~ReloadAnswered(v) /\ ~Parse(v) /\ ~ReloadRaises(v)
        BY <1>2, <2>0, <3>2, Guards DEF Lock, LockIsFree
      <4>2. UNCHANGED reloading
        BY <2>0, <2>2, <4>1, ReloadSteps DEF Elsewhere
      <4>. QED BY <1>2, <2>0, <2>2, <3>2, <4>2, StepMoves DEF Moves
    <3>. QED BY <3>1, <3>2
  <2>3. CASE ChangeRoutes
    BY <1>2, <2>1, <2>3 DEF ChangeRoutes
  <2>. QED BY <1>2, <2>1, <2>2, <2>3, Zenon DEF Next, ThreadStep
<1>3. ASSUME Sound, [Next]_vars
      PROVE  /\ Asks => Asks' \/ Parses' \/ Free'
             /\ Parses => Parses' \/ Free'
             /\ Parses /\ <<Continues(u)>>_vars => Free'
             /\ Asks /\ <<Continues(u)>>_vars => Parses' \/ Free'
  <2>1. Continues(u) => Next
    BY DEF Next
  <2>2. UNCHANGED vars => (Asks => Asks') /\ (Parses => Parses')
    OBVIOUS
  <2>. QED BY <1>2, <1>3, <2>1, <2>2
<1>4. HolderLetsGo(u) <=> (Holds ~> Free)
  BY DEF HolderLetsGo
<1>. HIDE DEF Holds, Free, Asks, Parses
<1>. QED BY <1>1, <1>3, <1>4, PTL DEF CallerCan, FairTo

LockComesFree == <>(reloading = Nobody)

\* The lock is free at some time, from the step on which this is said of.
LEMMA LockFreeSoon ==
  []Sound /\ []GuardsSuffice /\ [][Next]_vars /\ Fairness => LockComesFree
<1>. DEFINE Ready == []Sound /\ []GuardsSuffice /\ [][Next]_vars
            Free == reloading = Nobody
            Holds(u) == reloading = u
<1>1. \A u \in Writers : Ready /\ FairTo(u) => HolderLetsGo(u)
  BY LockReturns
<1>2. ASSUME NEW u \in Writers PROVE HolderLetsGo(u) /\ Holds(u) => LockComesFree
  BY PTL DEF HolderLetsGo, LockComesFree
<1>3. Free => LockComesFree
  BY PTL DEF LockComesFree
<1>4. Sound => Free \/ \E u \in Writers : Holds(u)
  BY DEF Sound, Owned
<1>5. Ready => Sound
  BY PTL
<1>. HIDE DEF Ready, Free, Holds
<1>6. Ready /\ Fairness => LockComesFree
  BY <1>1, <1>2, <1>3, <1>4, <1>5 DEF Fairness
<1>. QED BY <1>6 DEF Ready

LEMMA LockFreeAgain ==
  []Sound /\ []GuardsSuffice /\ [][Next]_vars /\ []Fairness => []LockComesFree
BY LockFreeSoon, PTL

\* No natural number that nothing raises falls again and again.  This holds of
\* every behaviour and of any state function in the place of Work(w); that it
\* does is induction over the steps of a behaviour, which is out of the provers'
\* reach.
NoEndlessDescent(w) ==
  [](Work(w) \in Nat) => ~(<>[][Work(w)' <= Work(w)]_vars /\ []<><<Work(w)' < Work(w)>>_vars)

LEMMA CallDoesReturn ==
  ASSUME NEW w \in Writers
  PROVE  /\ []Sound /\ []GuardsSuffice /\ [][Next]_vars /\ []LockComesFree
         /\ FairTo(w) /\ NoEndlessDescent(w)
         => CallReturns(w)
<1>. DEFINE Busy == pc[w] # "idle"
            Idle == pc[w] = "idle"
            Free == reloading = Nobody
            Waits == pc[w] \in {"lock", "try_lock"}
            Natural == Work(w) \in Nat
            Shorter == Work(w)' < Work(w)
            NotLonger == Work(w)' <= Work(w)
            Stays == (CallGuard(w) => CallGuard(w)') /\ (Waits => Waits')
<1>1. ASSUME Sound, GuardsSuffice
      PROVE  /\ Busy => CallGuard(w) \/ Waits
             /\ Waits /\ Free => LockGuard(w)
             /\ CallerCan(w) /\ Natural
  BY <1>1, WorkIsNat DEF Sound, Typed, Places, CallGuard, LockGuard, GuardsSuffice
<1>2. ASSUME Sound, Busy, [Next]_vars
      PROVE  /\ NotLonger
             /\ <<Continues(w)>>_vars \/ <<Lock(w)>>_vars => Shorter
             /\ <<Continues(w)>>_vars \/ <<Lock(w)>>_vars \/ Stays
  <2>1. CASE UNCHANGED vars
    BY <1>2, <2>1, CallShortens DEF CallGuard
  <2>2. CASE ~UNCHANGED vars
    BY <1>2, <2>2, CallShortens DEF CallGuard
  <2>. QED BY <2>1, <2>2
<1>3. NoEndlessDescent(w) <=>
        ([]Natural => ~(<>[][NotLonger]_vars /\ []<><<Shorter>>_vars))
  BY DEF NoEndlessDescent
<1>4. (CallReturns(w) <=> (Busy ~> Idle)) /\ (Busy <=> ~Idle)
  BY DEF CallReturns
<1>5. []LockComesFree <=> []<>Free
  BY PTL DEF LockComesFree
<1>6. Continues(w) \/ Lock(w) => Next
  BY DEF Next
<1>. HIDE DEF Busy, Idle, Free, Waits, Natural, Shorter, NotLonger, Stays
<1>. QED BY <1>1, <1>2, <1>3, <1>4, <1>5, <1>6, PTL DEF CallerCan, FairTo, Stays

(* Every call returns: the lock is given back on every path, and retries    *)
(* end.  Of the behaviour the theorem is given, besides that who may step   *)
(* can, that what is fair stays fair (fairness is about the tail of a       *)
(* behaviour; but that "for every thread" may change places with "always"   *)
(* is not known to the provers).                                            *)
THEOREM CallsDoReturn ==
  Spec /\ []GuardsSuffice /\ []Fairness /\ (\A w \in Writers : NoEndlessDescent(w)) => CallsReturn
<1>. DEFINE Ready == []Sound /\ []GuardsSuffice /\ [][Next]_vars /\ []LockComesFree
<1>1. Spec /\ []GuardsSuffice /\ []Fairness => Ready /\ Fairness
  BY SoundAlways, LockFreeAgain, PTL DEF Spec
<1>2. \A w \in Writers : Ready /\ FairTo(w) /\ NoEndlessDescent(w) => CallReturns(w)
  BY CallDoesReturn
<1>. HIDE DEF Ready
<1>3. Ready /\ Fairness /\ (\A w \in Writers : NoEndlessDescent(w)) => \A w \in Writers : CallReturns(w)
  BY <1>2 DEF Fairness
<1>. QED BY <1>1, <1>3, PTL DEF CallsReturn
=============================================================================
