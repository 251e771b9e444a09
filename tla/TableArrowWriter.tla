-------------------------- MODULE TableArrowWriter --------------------------
(***************************************************************************)
(* One TableArrowWriter of odps/maxstorage/write/writer.py: the caller's   *)
(* thread, the single worker thread of the writer's ThreadPoolExecutor,    *)
(* the counting semaphore that bounds the asynchronous flushes, and the    *)
(* service behind StorageStub.write_table.                                 *)
(*                                                                         *)
(* The caller makes one call at a time (no thread but the worker shares    *)
(* the writer).  A batch is the number of its acceptance: the k-th batch   *)
(* appended to the cache is batch k, holds one row and has size one, so    *)
(* that cachedSize stands for both _cached_size and _cached_row_count,     *)
(* which the code updates side by side with the same statements.  Likewise *)
(* cachedBatches stands for _cached_batches and _cached_record_batches.    *)
(* The writer runs in exactly-once mode: without it the offset is a        *)
(* constant and nothing else differs.                                      *)
(*                                                                         *)
(* Every step is what the code does between two points where the other     *)
(* thread can run.  write_batch appends and adds without _flush_lock, the  *)
(* worker restores under it, so each read-modify-write is two steps.       *)
(***************************************************************************)
EXTENDS Integers, Sequences, FiniteSets, Functions

CONSTANTS
  MaxPendingBuffers,  \* max_pending_buffers: asynchronous flushes in flight
  BufferSize,         \* buffer_size: cached size that triggers flush_async
  MaxTableBatches,    \* record batches in one pa.Table passed to write_batch
  MaxBatches,         \* bound: batches the caller ever writes
  MaxFlushes,         \* bound: asynchronous flushes ever submitted
  MaxFailures         \* bound: service calls that go wrong

ASSUME BoundsAssumption ==
  /\ MaxPendingBuffers \in Nat \ {0}   \* __init__ rejects anything below 1
  /\ BufferSize \in Nat \ {0}
  /\ MaxTableBatches \in Nat \ {0}
  /\ MaxBatches \in Nat
  /\ MaxFlushes \in Nat
  /\ MaxFailures \in Nat

Batches == 1..MaxBatches
Flushes == 1..MaxFlushes
Threads == {"caller", "worker"}

VARIABLES
  pc,              \* where the caller's thread is in the current call
  op,              \* the call it is making, or made last
  result,          \* how that call ended: "ok" or "raised" ("none" inside it)
  left,            \* batches of the current write_batch not yet appended
  error,           \* close() has an exception to raise when it ends
  loadedSize,      \* what `_cached_size +=` has read and not yet stored
  fetchedOffset,   \* the row offset get_row_offset read and not yet stored
  cachedBatches,
  cachedSize,
  rowOffset,
  closed,
  semaphore,       \* permits left in _flush_semaphore
  pendingFutures,  \* _pending_futures; submission order is numeric order
  pendingFlush,    \* _pending_flush
  awaited,         \* the futures _await_pending_flush took out of the deque
  flushes,         \* number of asynchronous flushes started
  status,          \* status[f]: where asynchronous flush f is
  captured,        \* captured[f]: the buffer state detached for f
  wpc,             \* where the worker thread is
  task,            \* the flush it is running
  outcome,         \* how that flush is going to end: "done" or "failed"
  workerBatches,   \* the cache _restore_buffer_state read and not yet stored
  workerSize,      \* the size it read and not yet stored
  rpc,             \* rpc[t]: thread t's write_table call
  delivered,       \* rows the service has applied, in order
  streamClosed,    \* the service has executed closeWriteStream
  failures,        \* service calls that have gone wrong
  accepted,        \* history: batches appended to the cache so far
  raced,           \* history: batches appended inside a restore
  repeatable,      \* history: rows applied by a call that did not succeed
  reported,        \* history: failed flushes whose exception was collected
  offsetMoved      \* history: rowOffset is no longer the service's

callerLocals == <<left, error, loadedSize, fetchedOffset>>
cache == <<cachedBatches, cachedSize>>
futures == <<pendingFutures, pendingFlush, awaited>>
tasks == <<flushes, status, captured>>
workerVars == <<wpc, task, outcome, workerBatches, workerSize>>
service == <<delivered, streamClosed, failures>>
history == <<accepted, raced, repeatable, reported, offsetMoved>>
vars == <<pc, op, result, callerLocals, cache, rowOffset, closed, semaphore,
          futures, tasks, workerVars, rpc, service, history>>

Empty == [batches |-> <<>>, size |-> 0]
NoCall == [stage |-> "none", offset |-> 0]

Init ==
  /\ pc = "idle" /\ op = "none" /\ result = "none"
  /\ left = 0 /\ error = FALSE /\ loadedSize = 0 /\ fetchedOffset = 0
  /\ cachedBatches = <<>> /\ cachedSize = 0
  /\ rowOffset = 0 /\ closed = FALSE
  /\ semaphore = MaxPendingBuffers
  /\ pendingFutures = {} /\ pendingFlush = FALSE /\ awaited = {}
  /\ flushes = 0
  /\ status = [f \in Flushes |-> "none"]
  /\ captured = [f \in Flushes |-> Empty]
  /\ wpc = "idle" /\ task = 0 /\ outcome = "done"
  /\ workerBatches = <<>> /\ workerSize = 0
  /\ rpc = [t \in Threads |-> NoCall]
  /\ delivered = <<>> /\ streamClosed = FALSE /\ failures = 0
  /\ accepted = 0 /\ raced = {} /\ repeatable = {}
  /\ reported = {} /\ offsetMoved = FALSE

-----------------------------------------------------------------------------
Resolved(f) == status[f] \in {"done", "failed"}      \* Future.done()

\* The worker is inside `with self._flush_lock` around _restore_buffer_state.
\* Every other critical section is one step, so this is all the lock there is.
WorkerLocked == wpc \in {"restore_store", "restore_load_size", "restore_store_size"}

Goto(l) == pc' = l /\ UNCHANGED <<op, result>>
Call(name, l) == pc' = l /\ op' = name /\ result' = "none"
Fail(name) == pc' = "idle" /\ op' = name /\ result' = "raised"
Return(r) == pc' = "idle" /\ result' = r /\ UNCHANGED op

\* The caller's steps that touch nothing of the worker's or the service's.
CallerOnly == UNCHANGED <<tasks, workerVars, rpc, service>>

-----------------------------------------------------------------------------
(* _surface_failed_futures: drop the finished futures, raise a failed one. *)

Finished == {f \in pendingFutures : Resolved(f)}
FailedIn(F) == {f \in F : status[f] = "failed"}

SurfaceFailedFutures ==
  /\ ~WorkerLocked
  /\ pendingFutures' = pendingFutures \ Finished
  /\ pendingFlush' = (pendingFlush /\ pendingFutures' # {})
  /\ reported' = reported \cup FailedIn(Finished)
  /\ UNCHANGED <<awaited, accepted, raced, repeatable, offsetMoved>>

-----------------------------------------------------------------------------
(* write_batch                                                             *)

WriteBatch ==
  /\ pc = "idle"
  /\ \E n \in 1..MaxTableBatches :
       /\ accepted + n <= MaxBatches /\ flushes + n <= MaxFlushes
       /\ left' = n
  /\ IF closed
     THEN Fail("write_batch") /\ UNCHANGED <<futures, history>>
     ELSE /\ SurfaceFailedFutures
          /\ IF FailedIn(Finished) # {} THEN Fail("write_batch")
                                        ELSE Call("write_batch", "append")
  /\ UNCHANGED <<error, loadedSize, fetchedOffset, cache, rowOffset, closed, semaphore>>
  /\ CallerOnly

\* _validate_operation_column or the serialization rejects the batch: what was
\* appended before it stays in the cache.
RejectBatch ==
  /\ pc = "append"
  /\ Return("raised")
  /\ UNCHANGED <<callerLocals, cache, rowOffset, closed, semaphore, futures, history>>
  /\ CallerOnly

AppendBatch ==
  /\ pc = "append"
  /\ accepted' = accepted + 1
  /\ cachedBatches' = Append(cachedBatches, accepted')
  /\ raced' = IF wpc = "restore_store" THEN raced \cup {accepted'} ELSE raced
  /\ Goto("load_size")
  /\ UNCHANGED <<callerLocals, cachedSize, rowOffset, closed, semaphore, futures,
                 repeatable, reported, offsetMoved>>
  /\ CallerOnly

LoadSize ==
  /\ pc = "load_size"
  /\ loadedSize' = cachedSize
  /\ Goto("store_size")
  /\ UNCHANGED <<left, error, fetchedOffset, cache, rowOffset, closed, semaphore,
                 futures, history>>
  /\ CallerOnly

StoreSize ==
  /\ pc = "store_size"
  /\ cachedSize' = loadedSize + 1
  /\ loadedSize' = 0
  /\ Goto("threshold")
  /\ UNCHANGED <<left, error, fetchedOffset, cachedBatches, rowOffset, closed, semaphore,
                 futures, history>>
  /\ CallerOnly

\* The loop of write_batch goes on with the next batch, or flush_async returns.
NextBatch ==
  IF op = "write_batch"
  THEN /\ left' = left - 1
       /\ IF left > 1 THEN Goto("append") ELSE Return("ok")
  ELSE Return("ok") /\ UNCHANGED left

CheckThreshold ==
  /\ pc = "threshold"
  /\ IF cachedSize >= BufferSize THEN Goto("flush_async") /\ UNCHANGED left
                                 ELSE NextBatch
  /\ UNCHANGED <<error, loadedSize, fetchedOffset, cache, rowOffset, closed, semaphore,
                 futures, history>>
  /\ CallerOnly

-----------------------------------------------------------------------------
(* flush_async, called by the user or by write_batch                       *)

CallFlushAsync ==
  /\ pc = "idle" /\ flushes < MaxFlushes
  /\ Call("flush_async", "flush_async")
  /\ UNCHANGED <<callerLocals, cache, rowOffset, closed, semaphore, futures, history>>
  /\ CallerOnly

FlushAsync ==
  /\ pc = "flush_async"
  /\ SurfaceFailedFutures
  /\ \/ /\ FailedIn(Finished) # {} \/ closed
        /\ Return("raised")
        /\ UNCHANGED left
     \/ /\ FailedIn(Finished) = {} /\ ~closed /\ cachedBatches = <<>>
        /\ NextBatch          \* _completed_future()
     \/ /\ FailedIn(Finished) = {} /\ ~closed /\ cachedBatches # <<>>
        /\ Goto("acquire")
        /\ UNCHANGED left
  /\ UNCHANGED <<error, loadedSize, fetchedOffset, cache, rowOffset, closed, semaphore>>
  /\ CallerOnly

AcquireSemaphore ==
  /\ pc = "acquire" /\ semaphore > 0
  /\ semaphore' = semaphore - 1
  /\ Goto("capture")
  /\ UNCHANGED <<callerLocals, cache, rowOffset, closed, futures, history>>
  /\ CallerOnly

CaptureBufferState ==
  /\ pc = "capture" /\ ~WorkerLocked
  /\ flushes' = flushes + 1
  /\ captured' = [captured EXCEPT ![flushes'] =
                    [batches |-> cachedBatches, size |-> cachedSize]]
  /\ status' = [status EXCEPT ![flushes'] = "captured"]
  /\ cachedBatches' = <<>> /\ cachedSize' = 0
  /\ Goto("submit")
  /\ UNCHANGED <<callerLocals, rowOffset, closed, semaphore, futures, workerVars,
                 rpc, service, history>>

\* From here on the worker may run the task, before `fut` is assigned.
Submit ==
  /\ pc = "submit"
  /\ pendingFlush' = TRUE
  /\ status' = [status EXCEPT ![flushes] = "queued"]
  /\ Goto("assign")
  /\ UNCHANGED <<callerLocals, cache, rowOffset, closed, semaphore, pendingFutures,
                 awaited, flushes, captured, workerVars, rpc, service, history>>

AssignFuture ==
  /\ pc = "assign"
  /\ Goto("track")
  /\ UNCHANGED <<callerLocals, cache, rowOffset, closed, semaphore, futures, history>>
  /\ CallerOnly

TrackedScalar == {flushes}        \* mutant: one _pending_future, no deque
Tracked == pendingFutures \cup {flushes}

TrackFuture ==
  /\ pc = "track" /\ ~WorkerLocked
  /\ pendingFutures' = Tracked
  /\ NextBatch
  /\ UNCHANGED <<error, loadedSize, fetchedOffset, cache, rowOffset, closed, semaphore,
                 pendingFlush, awaited, history>>
  /\ CallerOnly

-----------------------------------------------------------------------------
(* _do_flush: one write_table call by thread t                             *)

Payload(t) == IF t = "worker" THEN captured[task]
              ELSE [batches |-> cachedBatches, size |-> cachedSize]

\* The transport fields are read under the lock when the call is sent.
SendWrite(t) == rpc' = [rpc EXCEPT ![t] = [stage |-> "sent", offset |-> rowOffset]]

\* The service applies the rows and answers with the number it now holds.
Apply(t) == delivered' = delivered \o Payload(t).batches

ServeOk(t) ==
  /\ rpc[t].stage = "sent"
  /\ Apply(t)
  /\ rpc' = [rpc EXCEPT ![t] = [stage |-> "acked", offset |-> Len(delivered')]]
  /\ UNCHANGED <<failures, repeatable, offsetMoved>>

ServeFailure(t) ==
  /\ rpc[t].stage = "sent" /\ failures < MaxFailures
  /\ failures' = failures + 1
  /\ \/ /\ rpc' = [rpc EXCEPT ![t] = [stage |-> "refused", offset |-> 0]]
        /\ UNCHANGED <<delivered, repeatable, offsetMoved>>
     \/ \* Applied, but the answer is lost: write_table raises, or the stub's
        \* retry handler sends the same request again.
        /\ Apply(t)
        /\ repeatable' = repeatable \cup Range(Payload(t).batches)
        /\ offsetMoved' = TRUE
        /\ \/ rpc' = [rpc EXCEPT ![t] = [stage |-> "refused", offset |-> 0]]
           \/ UNCHANGED rpc

Serve ==
  /\ \E t \in Threads : ServeOk(t) \/ ServeFailure(t)
  /\ UNCHANGED <<pc, op, result, callerLocals, cache, rowOffset, closed, semaphore,
                 futures, tasks, workerVars, streamClosed, accepted, raced, reported>>

IgnoredOffset(t) == rowOffset     \* mutant: the answer's offset is dropped
ReturnedOffset(t) == rpc[t].offset

\* The answer's ExactlyOnceRowOffset is stored under the lock.
StoreResponse(t) ==
  /\ rpc[t].stage = "acked"
  /\ rowOffset' = ReturnedOffset(t)
  /\ rpc' = [rpc EXCEPT ![t] = NoCall]

RaiseResponse(t) ==
  /\ rpc[t].stage = "refused"
  /\ rpc' = [rpc EXCEPT ![t] = NoCall]

-----------------------------------------------------------------------------
(* flush, and the calls that flush: close, set_row_offset                  *)

FlushingCalls == {"flush", "close", "set_row_offset"}

\* close() on a closed writer returns at once.
CloseAgain ==
  /\ pc = "idle" /\ closed
  /\ op' = "close_again" /\ result' = "ok" /\ UNCHANGED pc
  /\ UNCHANGED <<callerLocals, cache, rowOffset, closed, semaphore, futures, history>>
  /\ CallerOnly

\* _await_pending_flush takes all futures, then blocks on them.
AwaitPendingFlush ==
  /\ pc = "idle" /\ ~WorkerLocked
  /\ \E name \in FlushingCalls :
       /\ name = "close" => ~closed
       /\ Call(name, "await")
  /\ awaited' = pendingFutures
  /\ pendingFutures' = {} /\ pendingFlush' = FALSE
  /\ UNCHANGED <<callerLocals, cache, rowOffset, closed, semaphore, history>>
  /\ CallerOnly

\* An exception leaves flush(): close() keeps it and goes on.
FlushRaises ==
  IF op = "close" THEN Goto("close_stream") /\ error' = TRUE
                  ELSE Return("raised") /\ UNCHANGED error

AwaitNothing == TRUE              \* mutant: takes the futures, does not wait
AwaitOver == \A f \in awaited : Resolved(f)

Awaited ==
  /\ pc = "await" /\ AwaitOver
  /\ awaited' = {}
  /\ reported' = reported \cup FailedIn(awaited)
  /\ IF FailedIn(awaited) # {} THEN FlushRaises
                               ELSE Goto("flush_rest") /\ UNCHANGED error
  /\ UNCHANGED <<left, loadedSize, fetchedOffset, cache, rowOffset, closed, semaphore,
                 pendingFutures, pendingFlush, accepted, raced, repeatable,
                 offsetMoved>>
  /\ CallerOnly

RefuseNever == FALSE              \* mutant: flush() does not look at _closed
Refuse == closed

FlushRest ==
  /\ pc = "flush_rest"
  /\ IF cachedBatches = <<>>
     THEN Goto("flushed") /\ UNCHANGED <<rpc, error>>
     ELSE IF Refuse THEN FlushRaises /\ UNCHANGED rpc
                    ELSE SendWrite("caller") /\ Goto("flush_reply") /\ UNCHANGED error
  /\ UNCHANGED <<left, loadedSize, fetchedOffset, cache, rowOffset, closed, semaphore,
                 futures, tasks, workerVars, service, history>>

FlushReply ==
  /\ pc = "flush_reply"
  /\ \/ /\ StoreResponse("caller") /\ Goto("clear")
        /\ offsetMoved' = FALSE /\ UNCHANGED error
     \/ /\ RaiseResponse("caller") /\ FlushRaises
        /\ UNCHANGED <<rowOffset, offsetMoved>>
  /\ UNCHANGED <<left, loadedSize, fetchedOffset, cache, closed, semaphore, futures,
                 tasks, workerVars, service, accepted, raced, repeatable,
                 reported>>

ClearBufferState ==
  /\ pc = "clear"
  /\ cachedBatches' = <<>> /\ cachedSize' = 0
  /\ Goto("flushed")
  /\ UNCHANGED <<callerLocals, rowOffset, closed, semaphore, futures, history>>
  /\ CallerOnly

Flushed ==
  /\ pc = "flushed"
  /\ \/ /\ op = "flush" /\ Return("ok")
        /\ UNCHANGED <<rowOffset, offsetMoved>>
     \/ /\ op = "set_row_offset" /\ Return("ok")
        /\ rowOffset' \in 0..MaxBatches
        /\ offsetMoved' = (rowOffset' # Len(delivered))
     \/ /\ op = "close" /\ Goto("close_stream")
        /\ UNCHANGED <<rowOffset, offsetMoved>>
  /\ UNCHANGED <<callerLocals, cache, closed, semaphore, futures, accepted, raced,
                 repeatable, reported>>
  /\ CallerOnly

-----------------------------------------------------------------------------
(* the end of close: closeWriteStream (not for a default stream), then the *)
(* executor's worker is joined                                             *)

CloseStream ==
  /\ pc = "close_stream"
  /\ \/ streamClosed' = TRUE /\ UNCHANGED <<failures, error>>
     \/ UNCHANGED <<streamClosed, failures, error>>            \* default stream
     \/ /\ failures < MaxFailures /\ failures' = failures + 1
        /\ error' = TRUE
        /\ streamClosed' = TRUE \/ UNCHANGED streamClosed
  /\ closed' = TRUE
  /\ Goto("join")
  /\ UNCHANGED <<left, loadedSize, fetchedOffset, cache, rowOffset, semaphore, futures,
                 tasks, workerVars, rpc, delivered, history>>

Queued == {f \in Flushes : status[f] = "queued"}

JoinWorker ==
  /\ pc = "join" /\ wpc = "idle" /\ Queued = {}
  /\ Return(IF error THEN "raised" ELSE "ok")
  /\ error' = FALSE
  /\ UNCHANGED <<left, loadedSize, fetchedOffset, cache, rowOffset, closed, semaphore,
                 futures, history>>
  /\ CallerOnly

-----------------------------------------------------------------------------
(* get_row_offset: asks the service, neither awaiting nor locking          *)

GetRowOffset ==
  /\ pc = "idle"
  /\ \/ /\ fetchedOffset' = Len(delivered)
        /\ Call("get_row_offset", "store_offset") /\ UNCHANGED failures
     \/ /\ failures < MaxFailures /\ failures' = failures + 1
        /\ Fail("get_row_offset") /\ UNCHANGED fetchedOffset
  /\ UNCHANGED <<left, error, loadedSize, cache, rowOffset, closed, semaphore, futures,
                 tasks, workerVars, rpc, delivered, streamClosed, history>>

StoreRowOffset ==
  /\ pc = "store_offset"
  /\ rowOffset' = fetchedOffset /\ fetchedOffset' = 0
  /\ offsetMoved' = (fetchedOffset # Len(delivered) \/ wpc # "idle")
  /\ Return("ok")
  /\ UNCHANGED <<left, error, loadedSize, cache, closed, semaphore, futures, accepted,
                 raced, repeatable, reported>>
  /\ CallerOnly

-----------------------------------------------------------------------------
(* The worker thread: _worker of flush_async                               *)

\* The worker's steps that leave the caller alone.
WorkerOnly == UNCHANGED <<pc, op, result, callerLocals, closed, awaited, flushes, service>>

AnyTask(f) == TRUE                \* mutant: tasks start in any order
OldestTask(f) == \A g \in Queued : f <= g

TakeTask ==
  /\ wpc = "idle"
  /\ \E f \in Queued :
       /\ OldestTask(f)
       /\ task' = f
       /\ status' = [status EXCEPT ![f] = "running"]
  /\ wpc' = "send"
  /\ UNCHANGED <<cache, rowOffset, semaphore, pendingFutures, pendingFlush, captured,
                 outcome, workerBatches, workerSize, rpc, history>>
  /\ WorkerOnly

WorkerSend ==
  /\ wpc = "send"
  /\ SendWrite("worker")
  /\ wpc' = "reply"
  /\ UNCHANGED <<cache, rowOffset, semaphore, pendingFutures, pendingFlush, status,
                 captured, task, outcome, workerBatches, workerSize, history>>
  /\ WorkerOnly

OnFailure == "restore_load"

WorkerReply ==
  /\ wpc = "reply"
  /\ \/ /\ StoreResponse("worker") /\ wpc' = "untrack"
        /\ offsetMoved' = FALSE
     \/ /\ RaiseResponse("worker") /\ wpc' = OnFailure
        /\ UNCHANGED <<rowOffset, offsetMoved>>
  /\ UNCHANGED <<cache, semaphore, pendingFutures, pendingFlush, status, captured, task,
                 outcome, workerBatches, workerSize, accepted, raced, repeatable, reported>>
  /\ WorkerOnly

\* The closure reads `fut`, which the caller may not have assigned yet: then
\* the NameError takes the `except Exception` branch after a successful write.
Untrack ==
  /\ wpc = "untrack"
  /\ IF pc = "assign" /\ flushes = task
     THEN /\ wpc' = "restore_load"
          /\ repeatable' = repeatable \cup Range(captured[task].batches)
          /\ UNCHANGED <<pendingFutures, pendingFlush>>
     ELSE /\ wpc' = "release"
          /\ pendingFutures' = pendingFutures \ {task}
          /\ pendingFlush' = (pendingFlush /\ pendingFutures' # {})
          /\ UNCHANGED repeatable
  /\ UNCHANGED <<cache, rowOffset, semaphore, status, captured, task, outcome,
                 workerBatches, workerSize, rpc, accepted, raced, reported,
                 offsetMoved>>
  /\ WorkerOnly

\* _restore_buffer_state: four reads and writes of the live cache.
RestoreLoad ==
  /\ wpc = "restore_load"
  /\ workerBatches' = cachedBatches
  /\ wpc' = "restore_store"
  /\ outcome' = "failed"
  /\ UNCHANGED <<cache, rowOffset, semaphore, pendingFutures, pendingFlush, status,
                 captured, task, workerSize, rpc, history>>
  /\ WorkerOnly

RestoredAlone == captured[task].batches     \* mutant: overwrites the live cache
Restored == workerBatches \o captured[task].batches

RestoreStore ==
  /\ wpc = "restore_store"
  /\ cachedBatches' = Restored
  /\ workerBatches' = <<>>
  /\ wpc' = "restore_load_size"
  /\ UNCHANGED <<cachedSize, rowOffset, semaphore, pendingFutures, pendingFlush, status,
                 captured, task, outcome, workerSize, rpc, history>>
  /\ WorkerOnly

RestoreLoadSize ==
  /\ wpc = "restore_load_size"
  /\ workerSize' = cachedSize
  /\ wpc' = "restore_store_size"
  /\ UNCHANGED <<cache, rowOffset, semaphore, pendingFutures, pendingFlush, status,
                 captured, task, outcome, workerBatches, rpc, history>>
  /\ WorkerOnly

RestoredSize == workerSize + captured[task].size

RestoreStoreSize ==
  /\ wpc = "restore_store_size"
  /\ cachedSize' = RestoredSize
  /\ workerSize' = 0
  /\ wpc' = "release"
  /\ UNCHANGED <<cachedBatches, rowOffset, semaphore, pendingFutures, pendingFlush,
                 status, captured, task, outcome, workerBatches, rpc, history>>
  /\ WorkerOnly

ReleasedOnSuccess == IF outcome = "failed" THEN semaphore ELSE semaphore + 1   \* mutant
Released == semaphore + 1

\* `finally` gives the permit back before the future is resolved.
ReleaseSemaphore ==
  /\ wpc = "release"
  /\ semaphore' = Released
  /\ wpc' = "resolve"
  /\ UNCHANGED <<cache, rowOffset, pendingFutures, pendingFlush, status, captured, task,
                 outcome, workerBatches, workerSize, rpc, history>>
  /\ WorkerOnly

ResolveFuture ==
  /\ wpc = "resolve"
  /\ status' = [status EXCEPT ![task] = outcome]
  /\ captured' = [captured EXCEPT ![task] = Empty]
  /\ wpc' = "idle" /\ task' = 0 /\ outcome' = "done"
  /\ UNCHANGED <<cache, rowOffset, semaphore, pendingFutures, pendingFlush,
                 workerBatches, workerSize, rpc, history>>
  /\ WorkerOnly

-----------------------------------------------------------------------------
CallerCalls ==
  \/ WriteBatch \/ CallFlushAsync \/ CloseAgain \/ AwaitPendingFlush \/ GetRowOffset

CallerContinues ==
  \/ RejectBatch \/ AppendBatch \/ LoadSize \/ StoreSize \/ CheckThreshold
  \/ FlushAsync \/ AcquireSemaphore \/ CaptureBufferState \/ Submit
  \/ AssignFuture \/ TrackFuture
  \/ Awaited \/ FlushRest \/ FlushReply \/ ClearBufferState \/ Flushed
  \/ CloseStream \/ JoinWorker \/ StoreRowOffset

WorkerSteps ==
  \/ TakeTask \/ WorkerSend \/ WorkerReply \/ Untrack
  \/ RestoreLoad \/ RestoreStore \/ RestoreLoadSize \/ RestoreStoreSize
  \/ ReleaseSemaphore \/ ResolveFuture

Next == CallerCalls \/ CallerContinues \/ WorkerSteps \/ Serve

Spec == Init /\ [][Next]_vars

-----------------------------------------------------------------------------
(* Properties                                                              *)

CallerTypes ==
  /\ pc \in {"idle", "append", "load_size", "store_size", "threshold", "flush_async",
             "acquire", "capture", "submit", "assign", "track", "await", "flush_rest",
             "flush_reply", "clear", "flushed", "close_stream", "join", "store_offset"}
  /\ op \in FlushingCalls \cup {"none", "write_batch", "flush_async", "close_again",
                                "get_row_offset"}
  /\ result \in {"none", "ok", "raised"}
  /\ left \in 0..MaxTableBatches
  /\ error \in BOOLEAN
  /\ loadedSize \in Nat
  /\ fetchedOffset \in Nat

CacheTypes ==
  /\ cachedBatches \in Seq(Nat)
  /\ cachedSize \in Nat
  /\ rowOffset \in Nat
  /\ closed \in BOOLEAN
  /\ semaphore \in Nat

FutureTypes ==
  /\ pendingFutures \subseteq Flushes
  /\ pendingFlush \in BOOLEAN
  /\ awaited \subseteq Flushes
  /\ flushes \in 0..MaxFlushes
  /\ status \in [Flushes -> {"none", "captured", "queued", "running", "done", "failed"}]
  /\ captured \in [Flushes -> [batches : Seq(Nat), size : Nat]]

WorkerTypes ==
  /\ wpc \in {"idle", "send", "reply", "untrack", "restore_load", "restore_store",
              "restore_load_size", "restore_store_size", "release", "resolve"}
  /\ task \in 0..MaxFlushes
  /\ outcome \in {"done", "failed"}
  /\ workerBatches \in Seq(Nat)
  /\ workerSize \in Nat

ServiceTypes ==
  /\ rpc \in [Threads -> [stage : {"none", "sent", "acked", "refused"}, offset : Nat]]
  /\ delivered \in Seq(Nat)
  /\ streamClosed \in BOOLEAN
  /\ failures \in 0..MaxFailures

HistoryTypes ==
  /\ accepted \in Nat
  /\ raced \subseteq Nat
  /\ repeatable \subseteq Nat
  /\ reported \subseteq Flushes
  /\ offsetMoved \in BOOLEAN

TypeInv ==
  CallerTypes /\ CacheTypes /\ FutureTypes /\ WorkerTypes /\ ServiceTypes /\ HistoryTypes

(* Every variable stays within its set of values, and the semaphore never  *)
(* holds more permits than max_pending_buffers: no flush releases twice.    *)
TypeOK == TypeInv /\ semaphore <= MaxPendingBuffers

(* The synchronous flush of flush/close/set_row_offset never has its        *)
(* write_table call out while the worker has one out: they wait for every   *)
(* asynchronous flush first, the ones finished but still tracked included.  *)
OneWriteInFlight ==
  rpc["caller"].stage = "none" \/ rpc["worker"].stage = "none"

\* A permit is held from AcquireSemaphore to the worker's `finally`.
HoldsPermit(f) ==
  \/ status[f] \in {"captured", "queued"}
  \/ status[f] = "running" /\ wpc # "resolve"

Holders == {f \in Flushes : HoldsPermit(f)}

(* No permit leaks and none is invented, on the success and on the failure  *)
(* path: the buffers detached from the cache are at most                    *)
(* max_pending_buffers at any moment.                                       *)
PermitsBalance ==
  semaphore + Cardinality(Holders) + (IF pc = "capture" THEN 1 ELSE 0)
    = MaxPendingBuffers

Count(b, s) == Cardinality({i \in DOMAIN s : s[i] = b})

\* Flush f has its rows, and nobody else does: not applied, not restored.
Detached(f) ==
  \/ status[f] \in {"captured", "queued"}
  \/ /\ status[f] = "running"
     /\ \/ wpc \in {"send", "restore_load", "restore_store"}
        \/ wpc = "reply" /\ rpc["worker"].stage # "acked"

\* The cache still shows rows the caller's flush has got an answer for.
Clearing == pc = "clear" \/ rpc["caller"].stage = "acked"

Places(b) ==
  Count(b, delivered)
    + (IF Clearing THEN 0 ELSE Count(b, cachedBatches))
    + Cardinality({f \in Flushes : Detached(f) /\ b \in Range(captured[f].batches)})

(* A row write_batch has taken is in exactly one place: the cache, one      *)
(* detached buffer, or the table.  The only rows excepted are those         *)
(* appended while the worker was inside _restore_buffer_state (their append *)
(* can vanish) and those applied by a call that nevertheless failed.        *)
RowsConserved ==
  \A b \in 1..accepted : b \notin raced \cup repeatable => Places(b) = 1

(* No failed asynchronous flush is forgotten: until a call raises because   *)
(* of it, its future is in the deque, in the hands of the call awaiting it, *)
(* or about to be tracked by the flush_async that submitted it.             *)
FailureNotErased ==
  \A f \in Flushes : status[f] = "failed" =>
    \/ f \in reported \cup pendingFutures \cup awaited
    \/ pc \in {"assign", "track"} /\ f = flushes

(* Each write carries the row offset the service is at, asynchronous or     *)
(* not, as long as no answer was lost and nobody moved the offset: the      *)
(* values a task uses are those the previous task's response returned.      *)
OffsetInStep ==
  \A t \in Threads :
    rpc[t].stage = "sent" /\ ~offsetMoved => rpc[t].offset = Len(delivered)

(* While nothing fails, rows reach the table in the order they were         *)
(* accepted, through any mix of synchronous and asynchronous flushes.       *)
OrderWithoutFailure ==
  failures = 0 /\ repeatable = {} =>
    \A i, j \in DOMAIN delivered : i < j => delivered[i] < delivered[j]

(* Once closeWriteStream has run nothing more is applied: close() leaves no *)
(* asynchronous flush behind, even when its own flush raised.               *)
NoWriteAfterClose == [][streamClosed => UNCHANGED delivered]_vars

(* Docstrings of _snapshot_buffer_state, _capture_buffer_state: under the   *)
(* lock, concurrent write_batch appends cannot interleave; of flush_async:  *)
(* the rows of a failed flush go back to the cache so the caller can retry. *)
(* So a row taken by write_batch should never be nowhere.                   *)
NoRowLost ==
  \A b \in 1..accepted : Places(b) >= 1
=============================================================================
