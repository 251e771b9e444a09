---------------------------- MODULE StreamUpload ----------------------------
(***************************************************************************)
(* A TableStreamUploadSession of odps/tunnel/tabletunnel.py that several   *)
(* threads share, each with a StreamRecordWriter of its own, and the       *)
(* TunnelRetryHandler (odps/tunnel/retry.py) that sends their buffers.     *)
(* The session keeps a list of Slot objects, each with the server it is    *)
(* routed to.  A reload, under the lock `_reloading`, puts a list of new   *)
(* objects in its place; a writer keeps the object it was opened with, and *)
(* sends to the server noted when it was opened or last rerouted.          *)
(*                                                                         *)
(* Which slot next() and current() choose is left open: the round robin    *)
(* only spreads the load.  A server is the number of the change in the     *)
(* service that put a slot there.                                          *)
(*                                                                         *)
(* The service is outside the repository.  It is taken to store a buffer   *)
(* that comes to its slot's server; one that comes elsewhere is passed on, *)
(* refused as by a gateway, or answered 308.  An answer names the slot's   *)
(* server and the number of slots.  A request may fail, stored or not.     *)
(*                                                                         *)
(* A caller writes no more rows to a writer that is closed or one of whose *)
(* calls has raised, but may close it again while it holds rows.           *)
(***************************************************************************)
EXTENDS Naturals, Sequences

CONSTANTS
  Writers,      \* the threads, and their writers
  MaxRetries,   \* retries of 408 and 5xx (7 in retry.py)
  RetryTimes,   \* options.retry_times: retries of a request without an answer
  MaxSlots,     \* slots of the new session; bound: it never has more
  MaxRows,      \* bound: rows written to one writer
  MaxChanges    \* bound: changes of the service's routes

Detached == 0
Nobody == "nobody"

ASSUME StreamAssumption ==
  /\ Nobody \notin Writers
  /\ MaxRetries \in Nat /\ RetryTimes \in Nat /\ MaxSlots \in Nat \ {0}
  /\ MaxRows \in Nat /\ MaxChanges \in Nat

VARIABLES
  servers,    \* the session's `slots`: the server of each
  reloading,  \* who holds the lock `_reloading`
  pc,         \* where each thread is
  slot,       \* the writer's slot: its place in `slots`, or Detached
  at,         \* the slot id its uploads carry
  route,      \* the server its uploads carry
  buffer,     \* its rows
  ended,      \* it was closed, or a call of it has raised
  attempt,    \* of the retry handler; not counted on once it forbids a retry
  reply,      \* the answer to its upload, if it is no error
  purpose,    \* what a reload is part of
  snapshot,   \* the answer to its reload, not yet parsed
  routes,     \* the service: the server of each slot
  changes,    \* the service: number of changes so far
  stored,     \* the service: the rows of the table
  listed,     \* history: the change `servers` was last loaded after
  since,      \* history: the change a thread's forced reload was called after
  rows,       \* history: number of rows written to each writer
  repeatable, \* history: rows of a buffer stored by a request or a flush that failed
  twice,      \* history: other rows that the service has stored again
  moved       \* history: rows answered 308 and not stored

session == <<servers, reloading, listed>>
uploads == <<slot, at, route>>
retries == <<attempt, reply>>
reloads == <<purpose, snapshot, since>>
service == <<routes, changes, stored, twice, repeatable, moved>>
writing == <<buffer, ended, rows>>
vars == <<session, pc, uploads, retries, reloads, service, writing>>

NoReply == [server |-> 0, slots |-> 0]
NoSnapshot == [servers |-> <<>>, change |-> 0]

\* Threads open their writers when the session is new.
Init ==
  /\ routes = [i \in 1..MaxSlots |-> 0]
  /\ servers = routes /\ reloading = Nobody
  /\ pc = [w \in Writers |-> "idle"]
  /\ slot \in [Writers -> DOMAIN routes] /\ at = slot
  /\ route = [w \in Writers |-> 0]
  /\ buffer = [w \in Writers |-> {}] /\ ended = [w \in Writers |-> FALSE]
  /\ attempt = [w \in Writers |-> 1] /\ reply = [w \in Writers |-> NoReply]
  /\ purpose = [w \in Writers |-> "none"]
  /\ snapshot = [w \in Writers |-> NoSnapshot]
  /\ changes = 0 /\ stored = {}
  /\ listed = 0 /\ since = [w \in Writers |-> 0]
  /\ rows = [w \in Writers |-> 0] /\ twice = {} /\ repeatable = {} /\ moved = {}

Goto(w, l) == pc' = [pc EXCEPT ![w] = l]

\* The locals of a call are gone when it ends.
EndCall(w) ==
  /\ Goto(w, "idle")
  /\ attempt' = [attempt EXCEPT ![w] = 1] /\ reply' = [reply EXCEPT ![w] = NoReply]
  /\ purpose' = [purpose EXCEPT ![w] = "none"]
  /\ snapshot' = [snapshot EXCEPT ![w] = NoSnapshot]
  /\ since' = [since EXCEPT ![w] = 0]

Fail(w) == EndCall(w) /\ ended' = [ended EXCEPT ![w] = TRUE]

-----------------------------------------------------------------------------
(* The writer: write, close, and the upload of its buffer                  *)

\* Rows are of any size: after each the buffer may be full.
Write(w) ==
  /\ pc[w] = "idle" /\ ~ended[w] /\ rows[w] < MaxRows
  /\ rows' = [rows EXCEPT ![w] = @ + 1]
  /\ buffer' = [buffer EXCEPT ![w] = @ \cup {<<w, rows'[w]>>}]
  /\ \E l \in {"idle", "put"} : Goto(w, l)
  /\ UNCHANGED <<session, uploads, retries, reloads, service, ended>>

Close(w) ==
  /\ pc[w] = "idle" /\ buffer[w] # {}
  /\ ended' = [ended EXCEPT ![w] = TRUE]
  /\ Goto(w, "put")
  /\ UNCHANGED <<session, uploads, retries, reloads, service, buffer, rows>>

\* The policy of each kind of error; all share one count of attempts.
MayRetry(kind, n) ==
  \/ kind = "throttled"
  \/ kind \in {"gateway", "server"} /\ n <= MaxRetries
  \/ kind = "no_answer" /\ n <= RetryTimes

Counted(n) == IF MayRetry("server", n) \/ MayRetry("no_answer", n) THEN n + 1 ELSE n

RetryOrRaise(w, kind) ==
  IF MayRetry(kind, attempt[w])
  THEN /\ Goto(w, "put")
       /\ attempt' = [attempt EXCEPT ![w] = Counted(@)]
       /\ purpose' = [purpose EXCEPT ![w] = "none"]
       /\ snapshot' = [snapshot EXCEPT ![w] = NoSnapshot]
       /\ since' = [since EXCEPT ![w] = 0]
       /\ UNCHANGED <<reply, ended>>
  ELSE Fail(w)

\* reload(force=True)
ForceReload(w, what) ==
  /\ Goto(w, "lock")
  /\ purpose' = [purpose EXCEPT ![w] = what]
  /\ since' = [since EXCEPT ![w] = changes]
  /\ UNCHANGED snapshot

\* The slots are reloaded before a retry after 502 or 504 (on_error_status).
AfterError(w, kind) ==
  IF kind = "gateway" THEN ForceReload(w, "retry") /\ UNCHANGED <<retries, ended>>
                      ELSE RetryOrRaise(w, kind)

TakeRoute(w) ==
  /\ pc[w] = "route"
  /\ \E i \in DOMAIN servers :
       at' = [at EXCEPT ![w] = i] /\ route' = [route EXCEPT ![w] = servers[i]]
  /\ RetryOrRaise(w, "gateway")
  /\ UNCHANGED <<session, slot, service, buffer, rows>>

KeptBuffer(w) == buffer[w]         \* mutant: the buffer is not reset
FreshBuffer(w) == {}

\* _reset_writer has been through.
Flushed(w) ==
  /\ EndCall(w)
  /\ buffer' = [buffer EXCEPT ![w] = FreshBuffer(w)]
  /\ repeatable' = repeatable \ buffer[w]
  /\ UNCHANGED ended

\* reload_slots updates the writer's slot in place, or reloads them all.
UploadReturns(w) ==
  /\ pc[w] = "reply"
  /\ IF Len(servers) # reply[w].slots
     THEN ForceReload(w, "reset") /\ UNCHANGED <<retries, servers, buffer, repeatable, ended>>
     ELSE /\ servers' = IF slot[w] = Detached THEN servers
                        ELSE [servers EXCEPT ![slot[w]] = reply[w].server]
          /\ Flushed(w)
  /\ UNCHANGED <<reloading, listed, uploads, routes, changes, stored, twice, moved, rows>>

Reset(w) ==
  /\ pc[w] = "reset"
  /\ Flushed(w)
  /\ UNCHANGED <<session, uploads, routes, changes, stored, twice, moved, rows>>

-----------------------------------------------------------------------------
(* reload()                                                                *)

\* get_last_batch_id: a reload that is not forced, parsed like any other.  Its
\* throttle may be over at any time.
Query(w) ==
  /\ pc[w] = "idle"
  /\ Goto(w, "try_lock")
  /\ purpose' = [purpose EXCEPT ![w] = "query"]
  /\ UNCHANGED <<session, uploads, retries, snapshot, since, service, writing>>

SkipReload(w) ==
  /\ pc[w] = "try_lock" /\ reloading # Nobody
  /\ EndCall(w)
  /\ UNCHANGED <<session, uploads, service, writing>>

NoLock == TRUE                     \* mutant: the lock is not taken
LockIsFree == reloading = Nobody

Lock(w) ==
  /\ pc[w] \in {"lock", "try_lock"} /\ LockIsFree
  /\ reloading' = w
  /\ Goto(w, "get")
  /\ UNCHANGED <<servers, listed, uploads, retries, reloads, service, writing>>

ReloadAnswered(w) ==
  /\ pc[w] = "get"
  /\ snapshot' = [snapshot EXCEPT ![w] = [servers |-> routes, change |-> changes]]
  /\ Goto(w, "parse")
  /\ UNCHANGED <<session, uploads, retries, purpose, since, service, writing>>

HeldLock == reloading              \* mutant: not released
FreedLock == Nobody

\* New Slot objects: no writer's slot is in the list any more.
Parse(w) ==
  /\ pc[w] = "parse"
  /\ servers' = snapshot[w].servers /\ listed' = snapshot[w].change
  /\ slot' = [v \in Writers |-> Detached]
  /\ reloading' = FreedLock
  /\ IF purpose[w] = "query" THEN EndCall(w)
     ELSE /\ Goto(w, IF purpose[w] = "retry" THEN "route" ELSE "reset")
          /\ snapshot' = [snapshot EXCEPT ![w] = NoSnapshot]
          /\ UNCHANGED <<retries, purpose, since>>
  /\ UNCHANGED <<at, route, service, writing>>

\* A TunnelError of a reload before a retry counts for nothing, an error of
\* another type, such as that of an HTTP status, ends the flush.  One of a reload
\* after the upload ends the flush with the rows still in the buffer.
ReloadRaises(w) ==
  /\ pc[w] \in {"get", "parse"}
  /\ reloading' = FreedLock
  /\ \/ purpose[w] = "retry" /\ RetryOrRaise(w, "gateway") /\ UNCHANGED repeatable
     \/ purpose[w] = "query" /\ EndCall(w) /\ UNCHANGED <<ended, repeatable>>
     \/ /\ purpose[w] \in {"retry", "reset"} /\ Fail(w)
        /\ repeatable' = IF purpose[w] = "reset" THEN repeatable \cup buffer[w] ELSE repeatable
  /\ UNCHANGED <<servers, listed, uploads, routes, changes, stored, twice, moved, buffer, rows>>

-----------------------------------------------------------------------------
(* The service                                                             *)

\* An answer that is no error; what the headers say of a slot that is gone is open.
Answer(w) ==
  /\ \E i \in DOMAIN routes :
       /\ at[w] \in DOMAIN routes => i = at[w]
       /\ reply' = [reply EXCEPT ![w] = [server |-> routes[i], slots |-> Len(routes)]]
  /\ Goto(w, "reply")
  /\ UNCHANGED <<session, uploads, attempt, reloads, writing, routes, changes, repeatable>>

Store(w) ==
  /\ stored' = stored \cup buffer[w]
  /\ twice' = twice \cup ((stored \cap buffer[w]) \ repeatable)
  /\ moved' = moved \ buffer[w]

Serve(w) ==
  /\ pc[w] = "put"
  /\ Store(w) /\ Answer(w)

AtItsServer(w) == at[w] \in DOMAIN routes /\ routes[at[w]] = route[w]

\* A 308, which RestClient.is_ok takes for a success.
Reassigned(w) ==
  /\ pc[w] = "put" /\ ~AtItsServer(w)
  /\ moved' = (moved \cup buffer[w]) \ stored
  /\ Answer(w)
  /\ UNCHANGED <<stored, twice>>

\* Errors; a request the service answers 429 or with a client error is not stored.
RequestFails(w) ==
  /\ pc[w] = "put"
  /\ \E kind \in {"gateway", "server", "no_answer", "client", "throttled"} :
       /\ AfterError(w, kind)
       /\ \/ /\ kind \in {"gateway", "server", "no_answer"}
             /\ Store(w) /\ repeatable' = repeatable \cup buffer[w]
          \/ UNCHANGED <<stored, twice, moved, repeatable>>
  /\ UNCHANGED <<session, uploads, routes, changes, buffer, rows>>

\* A slot moves to another server, or the number of slots changes.
ChangeRoutes ==
  /\ changes < MaxChanges /\ changes' = changes + 1
  /\ \/ \E i \in DOMAIN routes : routes' = [routes EXCEPT ![i] = changes']
     \/ \E n \in (1..MaxSlots) \ {Len(routes)} :
          routes' = [i \in 1..n |-> IF i \in DOMAIN routes THEN routes[i] ELSE changes']
  /\ UNCHANGED <<session, pc, uploads, retries, reloads, writing, stored, twice, repeatable, moved>>

-----------------------------------------------------------------------------
Continues(w) ==
  \/ TakeRoute(w) \/ UploadReturns(w) \/ Reset(w)
  \/ SkipReload(w) \/ ReloadAnswered(w) \/ Parse(w) \/ ReloadRaises(w)
  \/ Serve(w) \/ Reassigned(w) \/ RequestFails(w)

Next ==
  \/ \E w \in Writers : Write(w) \/ Close(w) \/ Query(w) \/ Lock(w) \/ Continues(w)
  \/ ChangeRoutes

\* A thread goes on and a request is answered, if only by an error; a thread
\* that waits for the lock gets it some time if it is released time and again.
FairTo(w) == WF_vars(Continues(w)) /\ SF_vars(Lock(w))
Fairness == \A w \in Writers : FairTo(w)

Spec == Init /\ [][Next]_vars /\ Fairness

-----------------------------------------------------------------------------
(* Properties                                                              *)

Written == {r \in Writers \X (1..MaxRows) : r[2] <= rows[r[1]]}

(* Every row is in the buffer of its writer or in the table, whatever       *)
(* failed and was retried on whichever slot; and it is in the table twice   *)
(* only when a request that was executed seemed to have failed, or a flush  *)
(* kept the rows of a successful upload because the reload after it raised. *)
(* A row answered 308 may be lost: the code takes that for a success.       *)
RowsReachTable ==
  /\ Written = stored \cup moved \cup UNION {buffer[w] : w \in Writers}
  /\ twice = {}

(* A forced reload that has returned shows the routes of a time after it    *)
(* was called, though another thread's reload was in flight, and whichever  *)
(* threads reload meanwhile: an older list never replaces a newer one.      *)
ForcedReloadIsFresh ==
  \A w \in Writers : pc[w] \in {"route", "reset"} => listed >= since[w]

\* The guards that fairness holds a thread to.
CallGuard(w) == pc[w] \in {"put", "reply", "route", "reset", "get", "parse"}
LockGuard(w) == pc[w] \in {"lock", "try_lock"} /\ reloading = Nobody

CallerCan(w) ==
  /\ CallGuard(w) => ENABLED <<Continues(w)>>_vars
  /\ LockGuard(w) => ENABLED <<Lock(w)>>_vars
GuardsSuffice == \A w \in Writers : CallerCan(w)

(* A thread that waits for the lock waits for one that is inside its reload *)
(* and can go on, never for one that has left with the lock in its hands.   *)
CallNotStuck ==
  /\ GuardsSuffice
  /\ reloading # Nobody => reloading \in Writers /\ CallGuard(reloading)

CallReturns(w) == pc[w] # "idle" ~> pc[w] = "idle"

(* Nobody who has a step to make is kept from it, and every call returns:   *)
(* the lock of a reload is given back on every path, and retries end, as    *)
(* long as the service does not answer 429 for ever.                        *)
CallsReturn == []GuardsSuffice /\ \A w \in Writers : CallReturns(w)
=============================================================================
