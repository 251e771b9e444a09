----------------------------- MODULE RequestsIO -----------------------------
(***************************************************************************)
(* odps/tunnel/io/stream.py, ThreadRequestsIO: the caller writes pieces,   *)
(* which are put chunk by chunk into a slot that two semaphores guard, and *)
(* a thread runs the HTTP request, whose body is a generator that takes    *)
(* the chunks out again.                                                   *)
(*                                                                         *)
(* Every access of the slot, the semaphores, _wait_obj and _async_err is a *)
(* step of its own.  The request belongs to odps/rest.py and the network:  *)
(* it may fail while it connects, sends or waits for the answer, it may be *)
(* too slow for the caller's patience, and RestClient.request may issue it *)
(* again with the same generator after it has reloaded the account.        *)
(***************************************************************************)
EXTENDS Naturals, SequencesExt

CONSTANTS
  ChunkSize,     \* pieces that make a chunk
  MaxPieces,     \* bound: pieces the caller writes
  MaxTimeouts,   \* bound: times put() runs out of patience
  MaxReloads     \* times the account reloads: 0 if it cannot, else 1

ASSUME SizesAssumption ==
  /\ ChunkSize \in Nat \ {0}
  /\ MaxPieces \in Nat /\ MaxTimeouts \in Nat /\ MaxReloads \in {0, 1}

VARIABLES
  buf,         \* _buf
  lastData,    \* _last_data, None being the empty sequence
  semPut,      \* _sem_put
  semGet,      \* _sem_get
  waitObj,     \* _wait_obj is not None
  asyncErr,    \* _async_err is set
  resp,        \* _resp is set
  pc,          \* the step the caller is at
  op,          \* "write", "flush", "finish_flush" or "finish"
  chunk,       \* the argument of put()
  error,       \* what put() is about to raise
  result,      \* how the last call ended
  wpc,         \* the step the thread is at
  got,         \* the chunk the generator yields next
  exhausted,   \* the generator has ended
  body,        \* the body of the request issued last
  reloads,
  timeouts,
  written,     \* history: everything written
  raised       \* history: a call has raised

caller == <<buf, chunk, op, written>>
slot == <<lastData, semPut, semGet>>
request == <<wpc, got, exhausted, body, reloads, waitObj, asyncErr, resp>>
vars == <<caller, slot, request, pc, error, result, timeouts, raised>>

None == <<>>

SlotPermits == 1

Init ==
  /\ buf = <<>> /\ chunk = None /\ op = "write" /\ written = <<>>
  /\ lastData = None /\ semPut = SlotPermits /\ semGet = 0
  /\ wpc = "connect" /\ got = None /\ exhausted = FALSE /\ body = <<>> /\ reloads = 0
  /\ waitObj = TRUE /\ asyncErr = FALSE /\ resp = FALSE
  /\ pc = "idle" /\ error = "none" /\ result = "none"
  /\ timeouts = 0 /\ raised = FALSE

-----------------------------------------------------------------------------
(* The caller                                                              *)

Raise(kind) == pc' = "idle" /\ result' = kind /\ raised' = TRUE
Return == pc' = "idle" /\ result' = "ok" /\ UNCHANGED raised

StartPut(name, data) ==
  pc' = "check" /\ op' = name /\ chunk' = data /\ UNCHANGED <<result, raised>>

Write ==
  /\ pc = "idle" /\ Len(written) < MaxPieces
  /\ LET piece == Len(written) + 1
         all == Append(buf, piece)
     IN /\ written' = Append(written, piece)
        /\ IF Len(all) >= ChunkSize
           THEN buf' = <<>> /\ StartPut("write", all)
           ELSE buf' = all /\ op' = "write" /\ Return /\ UNCHANGED chunk
  /\ UNCHANGED <<slot, request, error, timeouts>>

Flush ==
  /\ pc = "idle" /\ buf # <<>>
  /\ buf' = <<>> /\ StartPut("flush", buf)
  /\ UNCHANGED <<written, slot, request, error, timeouts>>

Finish ==
  /\ pc = "idle"
  /\ buf' = <<>>
  /\ IF buf # <<>> THEN StartPut("finish_flush", buf) ELSE StartPut("finish", None)
  /\ UNCHANGED <<written, slot, request, error, timeouts>>

\* put(): _reraise_errors, then the assertion on _wait_obj.
CheckError ==
  /\ pc = "check"
  /\ IF asyncErr THEN Raise("request") ELSE pc' = "assert" /\ UNCHANGED <<result, raised>>
  /\ UNCHANGED <<caller, slot, request, error, timeouts>>

AssertAlive ==
  /\ pc = "assert"
  /\ IF waitObj THEN pc' = "acquire" /\ UNCHANGED <<result, raised>> ELSE Raise("internal")
  /\ UNCHANGED <<caller, slot, request, error, timeouts>>

AcquirePut ==
  /\ pc = "acquire" /\ semPut > 0
  /\ semPut' = semPut - 1
  /\ pc' = "recheck"
  /\ UNCHANGED <<caller, lastData, semGet, request, error, result, timeouts, raised>>

IgnoreTimeOut == "none"               \* mutant: the result of acquire is not read
TimeOutError == "timeout"

TimeOut ==
  /\ pc = "acquire" /\ semPut = 0 /\ timeouts < MaxTimeouts
  /\ timeouts' = timeouts + 1
  /\ error' = TimeOutError /\ pc' = "store"
  /\ UNCHANGED <<caller, slot, request, result, raised>>

RecheckError ==
  /\ pc = "recheck"
  /\ error' = IF asyncErr THEN "request" ELSE "none"
  /\ pc' = "store"
  /\ UNCHANGED <<caller, slot, request, result, timeouts, raised>>

Stored(data) == IF error = "none" THEN data ELSE None

StoreData ==
  /\ pc = "store"
  /\ lastData' = Stored(chunk)
  /\ pc' = "release"
  /\ UNCHANGED <<caller, semPut, semGet, request, error, result, timeouts, raised>>

\* `finally` of put(), and what comes after it.
ReleaseGet ==
  /\ pc = "release"
  /\ semGet' = semGet + 1
  /\ error' = "none"
  /\ IF error # "none" THEN Raise(error)
     ELSE /\ pc' = IF op = "finish" THEN "join" ELSE "reraise"
          /\ UNCHANGED <<result, raised>>
  /\ UNCHANGED <<caller, lastData, semPut, request, timeouts>>

\* _reraise_errors at the end of write() and flush(); finish() goes on with
\* put(None).
Reraise ==
  /\ pc = "reraise"
  /\ IF asyncErr THEN Raise("request") /\ UNCHANGED <<op, chunk>>
     ELSE IF op = "finish_flush" THEN StartPut("finish", None)
     ELSE Return /\ UNCHANGED <<op, chunk>>
  /\ UNCHANGED <<buf, written, slot, request, error, timeouts>>

JoinThread(alive) == IF alive THEN "joining" ELSE "joined"

ReadWaitObj ==
  /\ pc = "join"
  /\ pc' = JoinThread(waitObj)
  /\ UNCHANGED <<caller, slot, request, error, result, timeouts, raised>>

Join ==
  /\ pc = "joining" /\ wpc = "dead"
  /\ pc' = "joined"
  /\ UNCHANGED <<caller, slot, request, error, result, timeouts, raised>>

FinishReturns ==
  /\ pc = "joined"
  /\ IF asyncErr THEN Raise("request") ELSE Return
  /\ UNCHANGED <<caller, slot, request, error, timeouts>>

-----------------------------------------------------------------------------
(* The thread: _async_func, the request and its data_generator             *)

Connected ==
  /\ wpc = "connect"
  /\ wpc' = IF exhausted THEN "answer" ELSE "get"
  /\ UNCHANGED <<caller, slot, got, exhausted, body, reloads, waitObj, asyncErr, resp,
                 pc, error, result, timeouts, raised>>

AcquireGet ==
  /\ wpc = "get" /\ semGet > 0
  /\ semGet' = semGet - 1 /\ wpc' = "take"
  /\ UNCHANGED <<caller, lastData, semPut, got, exhausted, body, reloads, waitObj,
                 asyncErr, resp, pc, error, result, timeouts, raised>>

TakeData ==
  /\ wpc = "take"
  /\ got' = lastData /\ wpc' = "release"
  /\ UNCHANGED <<caller, slot, exhausted, body, reloads, waitObj, asyncErr, resp,
                 pc, error, result, timeouts, raised>>

ReleasePut ==
  /\ wpc = "release"
  /\ semPut' = semPut + 1
  /\ exhausted' = (got = None)
  /\ wpc' = IF got = None THEN "answer" ELSE "send"
  /\ UNCHANGED <<caller, lastData, semGet, got, body, reloads, waitObj, asyncErr, resp,
                 pc, error, result, timeouts, raised>>

Send ==
  /\ wpc = "send"
  /\ body' = body \o got /\ wpc' = "get"
  /\ UNCHANGED <<caller, slot, got, exhausted, reloads, waitObj, asyncErr, resp,
                 pc, error, result, timeouts, raised>>

\* RestClient.request after AuthenticationRequestExpired: the account is
\* reloaded and the request issued again with the same generator.
Reissue ==
  /\ wpc = "answer" /\ reloads < MaxReloads
  /\ reloads' = reloads + 1
  /\ body' = <<>> /\ wpc' = "connect"
  /\ UNCHANGED <<caller, slot, got, exhausted, waitObj, asyncErr, resp,
                 pc, error, result, timeouts, raised>>

RequestReturns ==
  /\ wpc = "answer"
  /\ resp' = TRUE /\ wpc' = "clear"
  /\ UNCHANGED <<caller, slot, got, exhausted, body, reloads, waitObj, asyncErr,
                 pc, error, result, timeouts, raised>>

RequestRaises ==
  /\ wpc \in {"connect", "send", "answer"}
  /\ asyncErr' = TRUE /\ wpc' = "clear"
  /\ UNCHANGED <<caller, slot, got, exhausted, body, reloads, waitObj, resp,
                 pc, error, result, timeouts, raised>>

ClearWaitObj ==
  /\ wpc = "clear"
  /\ waitObj' = FALSE /\ wpc' = "end"
  /\ UNCHANGED <<caller, slot, got, exhausted, body, reloads, asyncErr, resp,
                 pc, error, result, timeouts, raised>>

NotReleased == semPut                 \* mutant: no `finally` in _async_func
ReleasedAtEnd == semPut + 1

EndThread ==
  /\ wpc = "end"
  /\ semPut' = ReleasedAtEnd /\ wpc' = "dead"
  /\ UNCHANGED <<caller, lastData, semGet, got, exhausted, body, reloads, waitObj,
                 asyncErr, resp, pc, error, result, timeouts, raised>>

-----------------------------------------------------------------------------
CallerCalls == Write \/ Flush \/ Finish

CallerContinues ==
  \/ CheckError \/ AssertAlive \/ AcquirePut \/ RecheckError \/ StoreData
  \/ ReleaseGet \/ Reraise \/ ReadWaitObj \/ Join \/ FinishReturns

RequestGoesOn ==
  \/ Connected \/ AcquireGet \/ TakeData \/ ReleasePut \/ Send
  \/ RequestReturns \/ RequestRaises \/ ClearWaitObj \/ EndThread

Next == CallerCalls \/ CallerContinues \/ TimeOut \/ RequestGoesOn \/ Reissue

\* Both threads run, and the HTTP library ends a stalled request by its own
\* timeouts; put() need not run out of patience, and nothing must be called.
Fairness == WF_vars(CallerContinues) /\ WF_vars(RequestGoesOn)

Spec == Init /\ [][Next]_vars /\ Fairness

-----------------------------------------------------------------------------
(* Properties                                                              *)

(* Types.  The permits of the slot are bounded in RequestsIOProofs.          *)
TypeOK ==
  /\ written \in Seq(1..MaxPieces) /\ buf \in Seq(1..MaxPieces)
  /\ chunk \in Seq(1..MaxPieces) /\ lastData \in Seq(1..MaxPieces)
  /\ got \in Seq(1..MaxPieces) /\ body \in Seq(1..MaxPieces)
  /\ op \in {"write", "flush", "finish_flush", "finish"}
  /\ semPut \in Nat /\ semGet \in Nat
  /\ waitObj \in BOOLEAN /\ asyncErr \in BOOLEAN /\ resp \in BOOLEAN
  /\ exhausted \in BOOLEAN /\ raised \in BOOLEAN
  /\ pc \in {"idle", "check", "assert", "acquire", "recheck", "store", "release",
             "reraise", "join", "joining", "joined"}
  /\ wpc \in {"connect", "get", "take", "release", "send", "answer", "clear", "end", "dead"}
  /\ error \in {"none", "timeout", "request"}
  /\ result \in {"none", "ok", "timeout", "request", "internal"}
  /\ reloads \in 0..MaxReloads /\ timeouts \in 0..MaxTimeouts

(* Until a call has raised the body is a prefix of what was written, and    *)
(* finish() returns only when the whole of it was sent and answered: in the *)
(* slot the two threads share no piece is overwritten, taken twice or       *)
(* passed over.  A request that was issued again is excepted: the generator *)
(* is consumed by then, and finish() may return for an empty body.          *)
Outcome ==
  IF raised \/ reloads > 0 THEN "failed"
  ELSE IF pc = "idle" /\ op = "finish" /\ result = "ok" THEN "ok" ELSE "open"

Pipe == INSTANCE UploadPipe WITH Piece <- 1..MaxPieces, outcome <- Outcome

BodyIsWhatWasWritten == Pipe!Spec

\* A call that waits for the thread: for the slot, or for its end.
AwaitsThread ==
  \/ pc = "acquire" /\ semPut = 0
  \/ pc = "joining" /\ wpc # "dead"

\* The guards of the two threads, which fairness holds them to.
CallerGuard == pc # "idle" /\ ~AwaitsThread

RequestGuard ==
  \/ wpc \in {"connect", "take", "release", "send", "answer", "clear", "end"}
  \/ wpc = "get" /\ semGet > 0

GuardsSuffice ==
  /\ CallerGuard => ENABLED <<CallerContinues>>_vars
  /\ RequestGuard => ENABLED <<RequestGoesOn>>_vars

(* A call never waits for a thread that cannot go on: while the slot is     *)
(* taken the thread is not waiting for data, and put(None) leaves something *)
(* to take, even in the slot of a thread that dies.                         *)
CallNotStuck == GuardsSuffice /\ (AwaitsThread => RequestGuard)

(* Every call returns although put() may wait for ever: the thread hands    *)
(* the slot back whenever it ends, and put(None) ends it.                   *)
CallsReturn == pc # "idle" ~> pc = "idle"
=============================================================================
