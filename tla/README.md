# Verification of the data paths of the ODPS Python SDK

This directory holds TLA+ models of the parts of `odps` that have threads,
processes, retries or remote sessions: the paths that move table data, and the
parallel execution of compiled DataFrame expressions. With them are the TLC
configurations that check them and TLAPS proofs about them. The rest of the SDK
(DataFrame compilers, model objects, machine learning wrappers) is listed at the
end with the reason it is left out.

Check a configuration with `tlc -config MCTableArrowWriter.cfg
TableArrowWriter` (section 4 names the module of each), a proof with
`tlapm TableArrowWriterProofs.tla`.

## 1. Inventory

| Component | Source | State it keeps | Operations | Hard behaviour |
|---|---|---|---|---|
| `TableArrowWriter` | `maxstorage/write/writer.py` | cached batches and sizes, row offset, semaphore, deque of futures, lock | `write_batch`, `flush`, `flush_async`, `close`, `get_row_offset`, `set_row_offset` | worker thread against caller, restore of a failed flush, permits, offsets, close |
| `TableWriteSession` | `maxstorage/write/session.py` | flags `_commit_started`, `_committed`, `_aborted`, `_closed`, last status | create, reload, `to_descriptor`, `from_descriptor`, `open_block_writer`, `commit`, `abort`, `close` | outcome of a lost request, several processes on one session |
| `TableBlockWriter` | `maxstorage/write/block_writer.py` | buffered batches, `_closed`, result | `write_batch`, `commit`, `abort`, `close` | one upload per attempt, truncated uploads |
| `SessionDescriptor` | `maxstorage/models/descriptor.py` | exported status and metadata | export, restore | a descriptor older than a commit |
| `RequestsIO` | `tunnel/io/stream.py` | one-slot pipe, two semaphores, `_wait_obj`, `_async_err` | `write`, `flush`, `finish`, body generator | hand-over between threads, request that dies, retries of a consumed body |
| `Upsert` stream | `tunnel/io/writer.py` | a buffer and a writer per bucket, copy of the slot map | `upsert`, `delete`, `flush`, `close` | parallel uploads of which some fail, moved buckets, retry rounds |
| `TableUpsertSession` | `tunnel/tabletunnel.py` | slot map, status, keepalive timer | `reload`, `_keepalive_tick`, `commit`, `abort` | timer against caller |
| `AsyncArrowStreamReader` | `maxstorage/io/arrow_reader.py` | bounded queue, thread, `_finished`, `_closed` | `iter`, `next`/`read`, `close` | close against a thread blocked on the network or the queue |
| `TableStreamUploadSession` | `tunnel/tabletunnel.py` | slot list with a cursor, reload throttle | `reload`, `reload_slots`, `_open_writer` | single-flight reload, retry on a new slot |
| `TableUploadSession`, buffered writers | `tunnel/tabletunnel.py`, `tunnel/io/writer.py` | block ids, buffer, blocks written | `write`, `_flush`, `commit` | retried block upload, commit against the service's list |
| `AbstractTableWriter`, block server | `models/tableio.py` | shared counter, queue of blocks, writers by thread | `write`, `close`, UDP requests | threads, forked and spawned processes |
| `AppendTableRecordWriter` | `maxstorage/write/record_writer.py` | row buffer, pending blobs | `write`, `flush`, `close` | a flush that fails half way |
| `TunnelRetryHandler`, `RestClient` | `tunnel/retry.py`, `rest.py` | attempt count | `execute_with_retry_ctx`, `request` | what may be sent twice, with which body |
| `ExecuteDAG` | `df/backends/core.py`, `dag.py` | futures, `submits`, `results`, the event `fallback` | `execute`, `_run_in_parallel` | several threads that submit successors, nodes that fall back to another engine at the same time |
| `Delay` | `df/delay.py` | registered calls, the user's futures, `_running` | `execute`, `relay_future` | callback against loop |

How they interact: a `TableArrowWriter` and a `TableBlockWriter` send through
`StorageStub`, the tunnel writers through `RestClient`, either with a complete
buffer or with the generator of a `RequestsIO` as the body. An
`AppendTableRecordWriter` fills the cache of a `TableArrowWriter` on the same
thread. A `TableWriteSession` opens block writers and commits their results; a
descriptor carries it to another process. An `Upsert` stream asks its session for
the slot map and makes it reload after gateway errors, while the session's timer
reloads it too. Stream writers share the slots of one session and make it reload
from inside the retry handler. The table writer of `models/tableio.py` gives its
buffered writers block numbers from one counter, which other processes reach
through shared memory or the block server. An `AsyncArrowStreamReader` pulls from
a synchronous reader that its consumer closes under it. `Delay` runs its calls
through `ExecuteDAG` and relays the futures.

What makes each correct: no accepted row is lost or sent twice but where the
code documents it; a failure reaches the caller; an object does not report an
outcome that did not happen; a shared slot, permit or offset has one owner at a
time; every call returns; nothing is written after a close. `PROJECT.json` lists
under `hazards` the lines where each of these can go wrong and the properties
that look there.

## 2. Plan

Done: `TableArrowWriter` and `RecordWriter` over it; `WriteSession` with the
abstract `SessionOutcome`; `RequestsIO` with the abstract `UploadPipe`;
`UpsertStream` and `UpsertSession` over it; `AsyncArrowReader`; `TableWriter`;
`StreamUpload`; `ExecuteDAG` with the abstract `Promises`, and `Delay` over it.
Every safety property a passing run checks is proved as well. That calls return
is proved for every component with a liveness property, from fairness and from
hypotheses that section 5 names.

Next, in this order:

1. `TunnelReader`: reopening a record stream at the record reached, and its
   checksum: one reader, a stream that breaks off anywhere.
2. `ExecuteDAG` with a cancelled future, and the asynchronous form of `Delay`.

## 3. Modules and the code

Names follow the source. A step ends where another thread, process or the
service can act; the comment above an action says when several statements are
one step. Histories (ghost variables) are marked in the declarations.

| Module | Stands on | Instance for TLC | Theorems in |
|---|---|---|---|
| `TableArrowWriter` | | `MCTableArrowWriter.cfg`, `MCTableArrowWriterLost.cfg` | `TableArrowWriterProofs` |
| `RecordWriter` | `TableArrowWriter` | `MCRecordWriter.cfg` | `TableArrowWriterProofs` |
| `WriteSession` | `SessionOutcome` (abstract) | `MCWriteSession` | `WriteSessionProofs` |
| `RequestsIO` | `UploadPipe` (abstract) | `MCRequestsIO.cfg` | `RequestsIOProofs` |
| `UpsertStream` | | `MCUpsertStreamMoved.cfg` | `UpsertSessionProofs` |
| `UpsertSession` | `UpsertStream` | `MCUpsertSession.cfg` | `UpsertSessionProofs` |
| `AsyncArrowReader` | | `MCAsyncArrowReader.cfg` | `AsyncArrowReaderProofs` |
| `TableWriter` | | `MCTableWriter.cfg` | `TableWriterProofs` |
| `StreamUpload` | | `MCStreamUpload.cfg` | `StreamUploadProofs` |
| `ExecuteDAG` | `Promises` (abstract) | `MCDelay` | `ExecuteDAGProofs` |
| `Delay` | `ExecuteDAG` | `MCDelay`, `MCDelayFallback.cfg` | `ExecuteDAGProofs` |

### TableArrowWriter

The caller's thread (`pc`), the single thread of the executor (`wpc`) and the
service behind `write_table` (`Serve`). A batch is the number of its acceptance.
`write_batch` appends and adds to the size without `_flush_lock`
(`AppendBatch`, `LoadSize`, `StoreSize`), and the worker restores a failed
buffer under it (`RestoreLoad` to `RestoreStoreSize`): these are separate steps,
so that they interleave as the code lets them. A critical section without such
a partner is one step. `flush_async` is `FlushAsync`, `AcquireSemaphore`,
`CaptureBufferState`, `Submit`, `AssignFuture`, `TrackFuture`: the window
between submission and the assignment of `fut`, in which the worker can finish
first, is there. `flush`, `set_row_offset` and `close` begin with
`AwaitPendingFlush`; `CloseStream` and `JoinWorker` end a close.

Abstracted: a batch has one row and size one, so the size and the row count,
which the code updates side by side, are one number; the writer is in
exactly-once mode, otherwise the offset is a constant. One thread calls the
writer.

### RecordWriter

An `AppendTableRecordWriter` over the whole of `TableArrowWriter`: its actions
are conjoined with those of the Arrow writer (`ArrowStep`), whose calls it makes
and whose result it waits for, and the caller may use the Arrow writer directly
between two calls (`DirectCall`). A cell of a row holds the index of its pending
blob (the `_PendingBlobRef`) or the blob whose reference has replaced it, so that
an upload that fails, or is repeated, can mix cells up. What is left out is the
content of blobs and of rows.

### WriteSession, SessionOutcome, MCWriteSession

`TableWriteSession` objects (`handle[h]`) of a creator, of processes that reload
the session by its id and of workers that restore it from a descriptor; block
writers by block and attempt; requests that are executed, answered late, sent
again or abandoned while still on their way. Only `BATCH_COMPATIBLE` sessions
are modelled: in the other modes commit is one request without block results.
`SessionOutcome` is what the handles promise together: the session ends at most
once and a handle or a descriptor that reports an end reports that one.
`ReportsTrueOutcome` is the refinement.

### RequestsIO, UploadPipe

`ThreadRequestsIO`: each access of the slot, of a semaphore, of `_wait_obj` and
of `_async_err` is a step. The thread is assumed started, as every user of the
class starts it before it writes. The request fails while connecting,
sending or waiting, is slower than the patience of `put`, or is issued again by
`RestClient.request` after a reload of the account; that one happens after the
whole body was sent, which is when a service answers that a token has expired.
`UploadPipe` is the promise: a body that is a prefix of what was written, and a
`finish` that says ok only for the whole; `BodyIsWhatWasWritten` is the
refinement. It excepts a request that was issued again: the generator has been
consumed by the first one, the second has an empty body, and its answer is what
`finish` returns.

### UpsertStream, UpsertSession

The stream, one upload thread per bucket and round, the session's slot map, the
keepalive reload and a service that moves buckets. A server is identified by the
number of moves its bucket had made; the number of buckets is fixed. Footers
written one behind the other are one (`WithFooter`): a reader stops at the
first. The retries inside an upload send the same request to the same server and
are part of the attempt. The branch of `flush` that handles a 308 cannot be
reached (finding 2), so `update_buckets` is not modelled.

`UpsertSession` puts the session over it: commit with its loop, its time-out and
its asynchronous form, abort, close, and the keepalive timer, which is armed, or
running on a thread of its own, or off. The answer of a tick's request and its
parsing are two steps, so that it can be older than what it overwrites. The
service may expire or abort the session, execute a commit nobody waits for any
more, and forget a session that has ended.

### AsyncArrowReader

The consumer (`Read`, `Iter`, `Get`, `Close` to `Join`) and `_produce`
(`StartNext`, `ReadBatch`, `StopReading`, `Put`). `get_nowait` is one step, and
the thread runs between two of them. The synchronous reader belongs to its
environment: a read that runs while it is closed may still return a batch, one
that begins afterwards ends or fails, and closing it may raise. `Join` may give
up, as `join(timeout=5.0)` does.

### TableWriter

One writer object shared by threads of the main process, forked children (which
get a copy of the object and share counter and queue: `Fork` copies the parent's
row of every variable) and children it was pickled for (`Pickle`: clients of the
block server). An actor is a thread of the main process or a child. A row may
fill its buffer or not, whatever its size (`AfterRow`). `close` is `Close`, then
the uploads of what is buffered, `Register` or `Reported`, and for the process
that commits `List`, `Complete`, `Stop`. The queue of the `multiprocessing`
module has its feeder thread (`feeding`): a child that exits flushes it, one that
crashes may not. A question to the server and its answer are one step
(`BlockGiven`, `Reported`); a server that was stopped never answers, and then
those are not enabled.

The environment follows the documentation of the writer: children close it,
the main process closes it last. Two ways to use it that the code permits and
that break it are recorded in histories and excepted by name in the properties:
`inherited` (a fork while the parent's writers hold rows or blocks) and `adopted`
(a pickled writer that finds blocks of others in its session).

### StreamUpload

Threads with a `StreamRecordWriter` each over one session. A writer keeps the
`Slot` object it was opened with (`slot`, `Detached` once a reload has replaced
the list) and the server it sends to (`route`); `reload_slots` updates the object
in place. A reload holds the lock `_reloading` from `Lock` to `Parse` or
`ReloadRaises`. Errors go through the policy of their kind (`MayRetry`), all of
which share one count of attempts; after 502 or 504 the handler's callback
reloads the slots before the next attempt. Which slot the round robin picks is
left open.

### ExecuteDAG, Delay, Promises, MCDelay

A task is a node of a run; run 1 is the dag itself, each further run one fallback
to another engine, with the future of a result node kept from run 1 and new ones
for inner nodes. The steps of a thread are the call of the node (`Begin`,
`Returns`, `Raises`, `Unsupported`), the fallback (`FallBack` and the loop and
the wait of the run it opens), and the `finally` clause that submits successors
under `submits_lock` (`Leave`). `SubmitNext` is the loop that submits the nodes
without predecessors. `Promises` is what the caller is told of the futures
it was given: each is resolved, once. Its liveness is stated as what it comes to
(`Resolution`: no promise stays pending), not as weak fairness of `Resolve`, which
means the same and would put an `ENABLED` under the refinement. `PromisesKept` is
the refinement, liveness included.

Abstracted: the order in which the pool takes tasks is left open; a fallback
compiles to a dag of the same shape, and compiling it succeeds; statements
between two accesses of shared state are one step; a callback of a future may run
while its thread is already in the `finally` clause. `Delay` is the synchronous
`execute`: the loop that attaches a callback to each future and, if the future is
done, relays it itself (`relay_future` on either side).

## 4. What the runs show

| Run | Module | Shows |
|---|---|---|
| `arrow_writer` | `TableArrowWriter` | rows in exactly one place, permits balance, failed flushes surface, write calls exclude each other and carry the service's offset, order without failure, nothing applied after close |
| `record_writer` | `RecordWriter` | each row in one buffer or one batch, a flush that returns has delivered, references are those of their cells; during a call somebody can always step, and every call of both writers returns |
| `arrow_writer_lost` | `TableArrowWriter` | *violated*: a batch appended during a restore vanishes (finding 1) |
| `write_session` | `MCWriteSession` | reports are true (refinement of `SessionOutcome`), close never aborts behind its own commit, what is committed is what one attempt wrote, late workers open nothing |
| `requests_io` | `RequestsIO` | body and answer (refinement of `UploadPipe`), nobody waits for a thread that cannot go on, calls return |
| `upsert_session` | `UpsertSession` | each row in one buffer or acknowledged and applied, commit says ok only for what is committed, a stopped keepalive stays stopped, calls end |
| `upsert_stream_moved` | `UpsertStream` | *violated*: rows of a moved bucket are dropped (finding 2) |
| `async_reader` | `AsyncArrowReader` | batches once and in order, an end is the whole stream, nobody waits for who cannot go on, reads return, close lets the thread go |
| `table_writer` | `TableWriter` | no two writers fill one block, a close that returns has committed all rows of who closed and no half of anyone's, calls return while the server is up |
| `stream_upload` | `StreamUpload` | every row buffered or stored, none stored twice but where a request seemed to fail, a forced reload is fresh, calls return |
| `execute_dag` | `MCDelay` | nodes called once and in order, futures and relays tell the truth, promises kept (refinement of `Promises`), calls end |
| `execute_dag_fallback` | `MCDelay` | *violated*: a fallback that succeeds does not deliver (finding 3) |

### Bounds

- `arrow_writer`: two permits, three batches, three asynchronous flushes, one
  failure. Two flushes queue behind a third, so a failure has successors with
  captured buffers, and the semaphore is exhausted. One failure puts rows back
  while later rows are cached and captured; a second repeats the same path.
  `arrow_writer_lost` needs one permit and two batches.
- `record_writer`: one permit, so that every flush blocks on the one before it;
  two rows with up to one blob each; two Arrow batches, so that a batch is taken
  while an older flush fails; a refused row leaves an item behind, which the
  second row's reference has to step over.
- `write_session`: a creator, an object that reloads the session, two workers,
  one block with two attempts, two descriptors (one before and one after a
  commit), one abandoned request. The constraint `Families` keeps the two kinds
  of behaviour apart whose product is too large: sessions loaded again while a
  request is under way, and several attempts that write. Workers and attempts are
  interchangeable (`SYMMETRY`; the run checks no liveness).
- `requests_io`: five pieces in chunks of two (two full chunks and a rest at
  `finish`), two expired waits, one reissued request.
- `upsert_session`: two buckets and three rows reach both thresholds (one bucket
  over its limit, the total over its limit), one retry round, one move per
  bucket, one poll of commit; both uploads of a round fail or succeed
  independently. `MaxSharedRows` and `MaxSharedMoves` bound the rows and moves of
  a stream whose session is being ended at the same time: a session that nobody
  ends is explored up to three rows and one move, one that is ended up to one row
  and no move. The theorems do not have this limit. `upsert_stream_moved` is the
  stream alone.
- `async_reader`: five batches fill the queue of two (the default) twice over,
  with the thread blocked on a third.
- `table_writer`: two threads, two children of either kind, two rows of any
  size. A block is uploaded, another row or process follows, and one of the two
  fails; the half of a crashed child's rows takes both rows.
- `stream_upload`: two threads, two slots, one row each, one change of the
  routes, one retry: a reload by one thread meets an upload, a reload or a query
  by the other, before and after the change, and the attempts run out.
- `execute_dag`: pools of two threads; two expressions, chains, a union, a node
  shared by two and a dag with two inner roots, of at most four nodes; three runs
  (two fallbacks at the same time) where the runs together have at most six
  nodes, one where there is only room for that. `Delay` runs the dag of two
  expressions over a shared one.

Names of pure bounds are `MaxBatches`, `MaxFlushes`, `MaxFailures`, `MaxBlobs`,
`MaxRows`, `MaxItems`, `MaxDescriptors`, `MaxAbandoned`, `MaxPieces`,
`MaxTimeouts`, `MaxMoves`, `MaxPolls`, `MaxSharedRows`, `MaxSharedMoves`,
`MaxSlots`, `MaxChanges`, `N`, `MaxRuns` and `MaxTasks`; each is a conjunct of a
guard or bounds what a run begins with. The other constants are parameters of the
code.

The types are no longer checked by `async_reader`, `arrow_writer` and
`upsert_session`, because the theorems `TypeCorrect` and `SessionTypeCorrect` hold
for every instance.

### Deadlock

Checked in `arrow_writer`, `arrow_writer_lost`, `record_writer`, `write_session`
and `requests_io`. Not in the others, where the system may stop: a closed upsert
stream whose buckets have used their moves has nothing to do; a consumer may stop
reading for good with the thread blocked on the full queue (that is what the
bound of the queue is for); a table writer, a stream session and an execution
that are through have no further steps. There `ReadsReturn`, `CallsReturn`,
`SessionCallsEnd` and `CallsEnd` say what must not stop half way.

### Fairness

Weak fairness of the threads that are inside a call or a task, never of the
actions by which a user begins one. Fairness has an effect only where an action is
enabled. `GuardsSuffice` says where that is: next to the fairness of a module
stand the guards it is meant to hold somebody to (`CallGuard`, `ServerGuard`,
`LockGuard` and so on), and `GuardsSuffice` says that under such a guard the
action is `ENABLED`. TLC checks it in every run with a liveness property,
within `CallNotStuck` or as the first conjunct of `CallsReturn`, `SessionCallsEnd`
and `CallsEnd`.

- `RecordWriter` (and the Arrow writer in it): the running call, the worker, the
  service, since HTTP requests have time-outs.
- `RequestsIO`: both threads; the expiry of `put` is not fair, so a call does
  not return by giving up.
- `UpsertSession`: the running call and each upload. The keepalive need not run.
  An upload is assumed to end, although `TunnelRetryHandler` retries a 429
  without limit: a service that answers 429 for ever keeps `flush` waiting for
  ever.
- `StreamUpload`: each thread goes on and its request is answered; strong
  fairness of taking the lock, which is released and taken time and again by the
  other threads. A 429 changes nothing, so weak fairness asks for another answer
  in the end: a service that answers 429 for ever is excluded, as above.
- `AsyncArrowReader`: both threads, which includes that a network read returns.
- `TableWriter`: each call, and the server thread that answers a client while
  it is up.
- `ExecuteDAG` and `Delay`: every thread of a pool, the calling thread and the
  callbacks; the call of a node ends, as nothing in this code can interrupt one.

### Findings

1. The docstrings say that concurrent `write_batch` appends cannot interleave
   with the buffer state changes; `write_batch` takes no lock, and the list it
   appended to can be replaced by a concatenation read before.
2. `RestClient.is_ok` takes 308 for a success, so `flush` treats a bucket that
   moved as written and drops its rows.
3. `run()` in `_run_in_parallel` looks at `call.result_index`, where `call` is
   the variable of the loop that submits and not the node it was given; and the
   waiting caller collects results by the nodes it compiled first, which a node
   that fell back never sets. A future of the user then fails with "Future in
   unexpected state", or the caller gets a `KeyError`, although every call of the
   fallback succeeded; and a waiting caller whose inner node fell back waits for
   ever.

Behaviour of the code that a property excepts by a history variable, and that TLC
shows when the exception is removed, is described with its line under `hazards`
in `PROJECT.json`: a request issued again with a consumed body (`reloads`), rows
batched twice after `write_batch` raised for an older flush (`resent`), rows of a
stream writer answered 308 (`moved`) or kept although they were stored
(`repeatable`), forks with buffered rows (`inherited`), pickled writers that find
blocks of others (`adopted`), rows written behind the footer of a failed round
(`cut`), and offsets the caller set during a flush (`offsetMoved`).

## 5. Proofs

Each theorem is of the form `Spec => []Inv` (or an action property or the safety
part of a refinement) for every value of the constants, from the module's own
assumption about them. None of the invariants is inductive alone, so each proof
module strengthens them to one that is, with a lemma per conjunct and one step
per action under it. The strengthenings were checked by TLC before they were
proved.

`TableArrowWriterProofs` assumes `BoundsAssumption` only: permits, buffer size
and batches per table are positive, the bounds are naturals. It proves
every property the run checks: `TypeCorrect`, `PermitsAlwaysBalance`,
`WritesExclude`, `FailuresKept`, `CloseIsFinal`, `OffsetsInStep`,
`RowsNeitherLostNorDoubled` and `OrderKeptWithoutFailure`. The invariant `IInv`
adds to the types (`TypeInv`):

- `CallBounds`: which call may be at which step, and how many flushes it can
  still start;
- `FlushStates`: flush numbers follow the order of capture, exactly the task of
  the worker is running;
- `Tracking`: a flush not yet resolved is in the deque, in the hands of the call
  that waits for it, or being submitted, unless it has succeeded already; without
  it a caller could pass `_await_pending_flush` with the worker still writing;
- `Quiet`: from the end of the wait to the end of the call no future is pending;
- `CallsOut`: a write call is out only at the step that waits for it;
- `ClosedQuiet`: a closed writer has no queued or sending flush and no caller
  about to write;
- `FailureNotErased` and `PermitsBalance` themselves. The latter counts permits
  with `Cardinality` and uses the theorems on finite sets: capture adds one
  holder as a permit goes, the worker's `finally` removes one as it returns.

`OneWriteInFlight` then follows: the caller sends only at `flush_rest`, where by
`Quiet` and `Tracking` the worker has no call out. `CloseIsFinal` follows from
`ClosedQuiet` and `CallsOut`. The other three have an invariant of their own on
top of `IInv`:

- `OffsetInv`: an answer not yet stored holds the number of rows the service is
  at (`AckedOffset`), and without one `_row_offset` does (`RestingOffset`); a
  call never sends over another's answer because only one is out;
- `RowInv`: rows in any sequence were accepted (`Known`), a detached buffer holds
  a row once (`CapturedOnce`), and between the read and the write of a restore
  the cache changes only by rows in `raced` (`RestoredCache`). Each step then
  moves rows as a whole from one addend of `Places` to another; counting uses
  lemmas on concatenation and the theorems on finite sets;
- `OrderInv`: the worker runs the oldest flush (`OldestFirst`), and while nothing
  fails nothing is restored (`Smooth`: every flush carries rows, so a flush that
  succeeded and raised would show in `repeatable`), and table, detached buffers
  by number and cache follow each other (`Ordered`).

The last part of the same module is about `RecordWriter`, with
`RecordBoundsAssumption` (bounds are naturals) besides: `BatchedOnceTheorem`,
`RecordsDeliveredTheorem` and `ReferencesTheorem`. Every step of the composition is
a step of the Arrow writer or leaves it alone (`ArrowSteps`), so the invariants
above hold in it. Two more are needed of the Arrow writer: `Applied` (rows
in `repeatable`, and rows of a task whose answer is in, are in the table) and
`Drained` (at the end of `flush` the cache is empty); with `RowsConserved` and
`Tracking` they give `FlushDelivers`, that a flush about to return has everything
in the table. `RecordInv` then adds:

- `Stages`: which steps of the Arrow writer are inside which of the record
  writer, so that batches are cached in `write_batch` only, with the row buffer
  still there (`Cached`);
- `Batched`: rows are in the buffer or one batch (`OnceEach`), except between the
  caching of a batch and the return of `write_batch`, when the last batch is the
  buffer (`JustBatched`); a `write_batch` that raises may be on either side of it;
- `Numbered` (rows are numbered as they are taken), without which a new row
  could be in a batch already;
- `Matching`: a cell has its blob's reference or a placeholder whose item is its
  blob, and after an upload the reference, which makes a repeated upload harmless;
- `BlobsCounted`: `_blob_file_count` is the number of buffered blob cells;
- `Deliveries`: from the end of the Arrow writer's flush to the end of the call
  everything accepted is in the table.

`AsyncArrowReaderProofs` assumes a queue size of at least one and proves
`TypeCorrect`, `NothingIsLost` and `EndIsTheEnd` for streams of any length, and
`RoomAfterClose` for a queue of at least two. `IInv` adds to types and
`NothingLost`: `Shape` (only the last item of the queue is not a batch, and then
the thread has ended; the consumer waits only while the reader is open) and
`EndIsTrue` (an end found on an open reader means that all was read). That gives
`EndIsTheEnd`: a consumer that takes the end takes the last item, so nothing is
queued or in hand and all that was read is delivered. `RoomAfterClose` uses
`ClosedWithRoom`: after the drain the thread can put at most the batch it was
reading and one last item. For a queue of one the statement is false: the last
item finds the batch in its way.

`WriteSessionProofs` (`ObjectsAssumption`: the constants name different objects)
proves `TypeCorrect`, `CommitSpared`, `LateWorkers`, `CommittedWhole` and, as
`OutcomeTheorem`, that the detailed session implements `SessionOutcome`. The
invariant adds to what is checked: `OfLiveObjects`; `CommitsRemembered` (a commit
is remembered by the object before it is sent, and by every descriptor exported
after it: this is why a late worker cannot open a writer); `UploadedOnce` (the
path of a block upload); `CommitsNameResults` (any commit, also one that is
abandoned and on its way, names results of finished writers, of different
blocks); and `Truthful` (whatever an object, an answer or a descriptor says of
the end of the session is so). The refinement maps the service's status to
`outcome` and what objects and descriptors say to `told`; each action is a step of
the abstract specification or a stutter.

`RequestsIOProofs` (`SizesAssumption`) proves `TypeCorrect`, `BodyTheorem` (the
pipe implements `UploadPipe`) and `PermitsBounded` (the semaphores of the slot
never have more than one permit between them, plus one for each time-out and one
for a thread that is dead). `PermitsOwned` accounts for each permit by who holds
the slot. `CallShape` and `ThreadShape` say what a step implies about the call's
argument and the request. `InTransit` is the heart: as long as nothing has gone
wrong, what was written is, in order, the body, what the generator holds, the
slot, what the call holds and the buffer. `TimedOut` and `Begun` keep the order,
weakened to a prefix, from a time-out to the error it raises and after it.

`UpsertSessionProofs` (`SizesAssumption`, `SessionBoundsAssumption`) is about
the stream and the session together: `SessionTypeCorrect`, `RowsKeptOnce`,
`CommitIsTrue`, `StoppedStaysStopped`. It adds `Counted`; `UploadsInRound` (an
upload is under way only in the middle of a round, and one that was executed has
its rows at the service); `Emptied` (the buckets a flush is through with are
empty, so a closed stream is); and `CommitAccepted` (at every place from which
commit may take "not found" for success, the service has accepted the commit, and
an accepted commit freezes the content).

`TableWriterProofs` (`WriterAssumption`) proves `TypeCorrect`, `BlocksTheorem` and
`CommitTheorem`. `Roles` fixes who the processes are and that a client has one
writer; `Closing` that a process that closes has no other call and has not
raised, so an end that raised stays one; `Counted` that every block is below the
counter; `Apart` that no two writers have the same block; and `NotUploaded` that
the block of a writer in use is not at the service: an upload gives its writer
the next block or none, or its process raises. `CommitTheorem` adds `Whole`, which
holds while nobody has inherited a writer and the main process has not raised:
every row of a process at work is in one buffer or at the service (`RowsOnce`,
`Buffers`, `NothingLost`); a process that has told what it wrote has uploaded all
of it, so a block in a queue means that its process is done (`Sent`,
`QueuesWhole`; `KnownLate` is what keeps a process from telling blocks of
others); nobody else writes once the main process closes (`Alone`); and therefore
the comparison of `List` settles, for every process, all rows or none (`Compared`).

`StreamUploadProofs` (`StreamAssumption`) proves `NoRowVanishes` and
`ReloadsAreFresh`. For the rows the invariant says of every thread whether its
buffer has been answered for (`Answered`): if so, all of it is in the table or lost
by a 308 and may be dropped (`SafeToReset`); if not, what the table has of it is
what a failed request may have stored (`NotStoredYet`). `Purposes` tells which a
thread is that is in a reload, and `OwnRows` keeps the buffers of two writers apart.
For the reloads, `Locked` is the mutual exclusion and `Fresh` says that the answer
in hand is as new as the call and as the list it will replace.

`ExecuteDAGProofs` (`ExecuteAssumption`) proves, for dags of any shape, pools of
any size and any number of fallbacks, `DagTypeCorrect`, `NodesCalledInOrder`,
`FuturesTellTheOutcome` and `PromisesAreSafe`, the safety part of the
refinement. It adds `RunsOpened` (there is room for the run of every node about
to fall back), `Histories`, `SubmittedInOrder` (the loop has not reached later
roots, and what is submitted has its predecessors resolved) and `Untouched`
(without a fallback a node that has not begun has a pending future).
`Delay` is proved about on top of it: every step of `Delay` is a step of the dag or leaves
it alone, so `DelayedDagInOrder` follows from the same invariant; and
`RelaysTellTheTruth` needs `LoopAtCall`, `CallbacksAfterFutures`, `Relayed` and
`ReturnedWithAll` over it.

That an execution ends needs invariants of another kind, which say that nothing
is forgotten (`Going`). `RunsGoOn`: every run after the first has an opener of its
own, whose thread is in the loop until all roots are submitted. `NodesGoOn`:
the roots up to the loop's position have been submitted; who has left a run that
counts has a resolved future; and a node whose predecessors have all left has been
submitted, which is the point of `submits_lock`: the last predecessor to leave sees
that it is the last. `CallerGoesOn`, `RelaysGoOn` and `PlacesGoOn` say the same of
the caller, the callbacks and the position in the loop of `Delay.execute`. Then,
if some node of a run never left, a least one in the order of the dag would have
predecessors that have all left, so it was submitted and its thread has a step
(`AllLeft`, by the library's least-element theorem `WFMin`). `NoNodeIsForgotten`
follows for the dag, and `NobodyWaitsForAnother` for the whole of `Delay`: while a
call is under way, somebody's guard holds.

### Progress

`TableArrowWriterProofs` (about `RecordWriter`), `RequestsIOProofs`,
`AsyncArrowReaderProofs`, `UpsertSessionProofs`, `TableWriterProofs`,
`StreamUploadProofs` and `ExecuteDAGProofs` end with theorems that calls return. The argument has three
parts.

1. *Nobody is stuck*: during a call its thread has a step to make, or waits for
   somebody who has (`NobodyIsStuck`; in `ExecuteDAG` `NoNodeIsForgotten` and
   `NobodyWaitsForAnother`). Here are the deadlocks these classes
   could have, and it takes invariants of its own: `WayOpen` (a thread that waits
   for a flush waits for one the worker is on its way to), `HandedBack` (a thread
   of a `RequestsIO` that is gone has left the slot to who waits for it, and what
   `finish` put is there until the generator has ended), `EndAwaits` (a
   reader's thread that has ended has left its last item or the flag),
   `AtWork` (a client that asks has a server, and who has a buffer has a block to
   put it into), `Owned` (a lock that is held has a holder, who by `Locked` is in
   a reload) and, in `UpsertSession`, where no theorem of its own is needed, `OneCall` (the
   session is asked nothing during a flush).
2. *Every step shortens the call*: a state function `Work`, or one per thread,
   that is a natural number, that no step of anybody raises during a call, and that each
   step of the call lowers. `CallsRunDown` is this as an action property, with no
   hypothesis about fairness or `ENABLED`: it is what rules out a flush, a commit or a
   retry that goes round in circles. In `UpsertSession` `Work` counts what is left
   of the uploads of a round, the rounds and the polls of commit; in
   `StreamUpload` attempts and the steps of one; in `TableWriter` the writers that
   have rows and the blocks, reports and steps each of them still needs; in
   `RecordWriter` the flushes in line and the steps of each; in `ExecuteDAG` and
   `Delay` what is left of every task of every run, of the loops that submit, of the
   caller, of the callbacks and of the loop of `Delay.execute`. There every step of
   anybody lowers it (`StepsRunOut`).
3. From fairness, then, the call ends: `RecordCallsDoReturn`, `CallsDoReturn`,
   `CallsDoEnd`, `ReadsDoReturn` and `ThreadDoesEnd`; in `ExecuteDAGProofs` also
   `PromisesAreKept`, the refinement with its liveness. `AsyncArrowReader` and
   `RequestsIO` need no measure: there the steps of a call are followed one by
   one.

Part 3 is of the form `Spec /\ H => P`, where `H` names what the provers cannot
find out themselves:

- `[]GuardsSuffice`, in all of them. It is about the guards of the model, and
  tlapm does not compute `ENABLED`. TLC checks it on the instances of the runs.
- `NoEndlessDescent`, in `RecordWriter`, `UpsertSession`, `TableWriter`,
  `StreamUpload` and `ExecuteDAG`: a state function that is a natural number and
  is not raised is not lowered for ever. It is true of every behaviour and of any
  function in the place of `Work`; its proof is an induction over the steps of a
  behaviour, which the temporal backend cannot do. That `Work` is a natural number
  that no step raises is proved.
- `[]Fairness`, in `StreamUpload`, `UpsertSession` and `ExecuteDAG`, where one
  thread waits for any of several. Fairness is about the tail of a behaviour, so it follows from
  `Fairness`, which is in the specification; but "for every thread" and "always"
  would have to change places, which the temporal backend does not know.

Without any one of these hypotheses the last step of the proof fails. Of the
constants the measures need that what they count is finite: the threads of a
process (`WriterAssumption`) and the buckets of a session, which are the keys of a
dictionary (`SizesAssumption` of `UpsertStream`).

Only model-checked, then, is `GuardsSuffice`. Every property of a passing run is
stated by a theorem; the liveness properties that have `[]GuardsSuffice` as a
conjunct are proved from it.

## 6. Assumptions about what is outside

The service applies a request completely or not at all, except a block upload,
which may store part of the rows and says how many. It ends a session at most
once. An answer may be lost after the request took effect. A payload of an
upsert is read up to its first footer, as the SDK's own reader does. Python's
`Semaphore`, `Queue`, `Future` and `ThreadPoolExecutor(max_workers=1)` do what
their documentation says; a list append and a read or a write of an attribute
are atomic, a compound assignment is not. An operating system's `fork` copies the
writer object and leaves shared memory and queues shared. A thread pool runs what
it is given.

## 7. Not modelled

Planned components are in section 2. Not planned:

- Byte formats (Arrow, protobuf records, blob framing, compression, checksums)
  and signing: pure functions of their input, better served by tests.
- The DataFrame compilers, expression types and schemas: `types.py`,
  `df/expr/*`, `df/backends/*` but for the execution, which make up most of the
  code. They translate trees to SQL text; what makes them right is the semantics
  of the service's SQL, which is not in the repository.
- Machine learning and XFlow wrappers, adapters (DB API, SQLAlchemy, console,
  IPython, web UI): parameters passed on, no state of their own.
- Model objects and their cache: each call is one request, and the state is the
  service's.
- Creation and polling of read sessions, which one caller does on one object;
  instance and volume tunnels, which repeat the shapes of the table tunnel.
- `GreenletRequestsIO`, which hands over on one thread and has no interleaving.
- The sequential form of `ExecuteDAG`, its progress UI and time-outs; the
  asynchronous form of `Delay`.
- The blob helpers of `TableArrowWriter`, which upload through a `RequestsIO` or
  in one request and leave the cache alone; `DeltaTableRecordWriter`.
- In `TableWriter`, blocks chosen by the caller and a fork during a call of
  another thread; in `StreamUpload`, creation and abort of the session.
- Vendored libraries (`odps/lib`).

The modules therefore cover the parts with threads, processes, retries and
remote state, a few thousand lines, and not a large share of the 107 000 lines of
the repository: the rest has no interleavings or failures for a model checker to
explore.
