---------------------------- MODULE RecordWriter ----------------------------
(***************************************************************************)
(* An AppendTableRecordWriter of odps/maxstorage/write/record_writer.py    *)
(* over the TableArrowWriter of module TableArrowWriter, with which it     *)
(* shares the caller's thread.  Rows and blob items are buffered; a full   *)
(* buffer, flush() or close() uploads the blobs, puts their references in  *)
(* the place of the _PendingBlobRef placeholders and passes the rows on as *)
(* one Arrow batch.  The caller still has the Arrow writer, and may call   *)
(* it directly between two calls of the record writer: flush_async, flush  *)
(* or close (write_batch would only add rows of its own, and the row       *)
(* offset does not matter here).                                           *)
(*                                                                         *)
(* Rows are numbered as write() takes them.  The j-th blob of row r is     *)
(* <<r, j>>; a blob that was prepared for a row write() did not take has   *)
(* row 0.  A cell holds <<i>>, the placeholder of the i-th pending item,   *)
(* or the blob whose reference has taken its place.                        *)
(***************************************************************************)
EXTENDS TableArrowWriter

CONSTANTS
  RowCountPerBatch,   \* row_count_per_batch
  BlobBatchFileNum,   \* blob_batch_file_num
  MaxBlobs,           \* bound: blobs of one row
  MaxRows,            \* bound: rows written
  MaxItems            \* bound: blobs pending at a time

ASSUME RecordBoundsAssumption ==
  /\ RowCountPerBatch \in Nat /\ BlobBatchFileNum \in Nat
  /\ MaxBlobs \in Nat /\ MaxRows \in Nat /\ MaxItems \in Nat

VARIABLES
  stage,         \* where the record writer is in the current call
  request,       \* that call, or the last one
  answer,        \* how it ended: "ok" or "raised" ("none" inside it)
  rowBuffer,     \* _row_buffer, whose length is _row_count
  pendingItems,  \* _pending_blob_items
  blobFiles,     \* _blob_file_count
  rows,          \* history: rows that write() has taken
  content,       \* history: content[k]: the rows in Arrow batch k
  resent         \* history: rows still buffered when their batch was cached

recordCall == <<stage, request, answer>>
recordBuffer == <<rowBuffer, pendingItems, blobFiles>>
recordHistory == <<rows, content, resent>>
recordVars == <<vars, recordCall, recordBuffer, recordHistory>>

RecordInit ==
  /\ Init
  /\ stage = "idle" /\ request = "none" /\ answer = "none"
  /\ rowBuffer = <<>> /\ pendingItems = <<>> /\ blobFiles = 0
  /\ rows = 0 /\ content = [k \in Batches |-> <<>>] /\ resent = {}

EndRecordCall(how) == stage' = "idle" /\ answer' = how /\ UNCHANGED request
Step(l) == stage' = l /\ UNCHANGED <<request, answer>>

\* One call caches one batch and submits one flush at most.
Room == stage = "idle" /\ pc = "idle" /\ accepted < MaxBatches /\ flushes < MaxFlushes

-----------------------------------------------------------------------------
(* write: _intercept_blobs, then the row                                   *)

IndexByCount == blobFiles          \* mutant: rows that were refused not counted
NextIndex == Len(pendingItems)

BatchFull == \/ Len(rowBuffer') >= RowCountPerBatch
             \/ blobFiles' >= BlobBatchFileNum

Write ==
  /\ Room /\ rows < MaxRows
  /\ \E n \in 0..MaxBlobs :
       /\ Len(pendingItems) + n <= MaxItems
       /\ pendingItems' = pendingItems \o [j \in 1..n |-> <<rows + 1, j>>]
       /\ rowBuffer' = Append(rowBuffer,
            [row |-> rows + 1, cells |-> [j \in 1..n |-> <<NextIndex + j>>]])
       /\ blobFiles' = blobFiles + n
  /\ rows' = rows + 1
  /\ request' = "write"
  /\ IF BatchFull THEN stage' = "flush_records" /\ answer' = "none"
                  ELSE answer' = "ok" /\ UNCHANGED stage
  /\ UNCHANGED <<vars, content, resent>>

\* A later blob of the row, or the metadata callback, raises: the items of the
\* earlier blobs stay, the row does not.
WriteRaises ==
  /\ Room
  /\ \E n \in 1..MaxBlobs :
       /\ Len(pendingItems) + n <= MaxItems
       /\ pendingItems' = pendingItems \o [j \in 1..n |-> <<0, j>>]
  /\ request' = "write" /\ answer' = "raised"
  /\ UNCHANGED <<vars, stage, rowBuffer, blobFiles, recordHistory>>

-----------------------------------------------------------------------------
(* _flush_records                                                          *)

CallFlush ==
  /\ Room
  /\ request' \in {"flush", "close"} /\ stage' = "flush_records" /\ answer' = "none"
  /\ UNCHANGED <<vars, recordBuffer, recordHistory>>

AfterRecords ==
  IF request = "write" THEN EndRecordCall("ok") ELSE Step("flush_arrow")

NothingToFlush ==
  /\ stage = "flush_records" /\ rowBuffer = <<>>
  /\ AfterRecords
  /\ UNCHANGED <<vars, recordBuffer, recordHistory>>

IsPlaceholder(cell) == Len(cell) = 1
Resolve(cell) == IF IsPlaceholder(cell) THEN pendingItems[cell[1]] ELSE cell
WithReferences(r) ==
  [row |-> r.row, cells |-> [j \in DOMAIN r.cells |-> Resolve(r.cells[j])]]
ReplacedBuffer == [i \in DOMAIN rowBuffer |-> WithReferences(rowBuffer[i])]

\* _upload_pending_blobs: all items go to the service, also those whose
\* placeholders an earlier call has replaced.  Then the Arrow arrays are built,
\* which raises for values that do not fit.
UploadPendingBlobs ==
  /\ stage = "flush_records" /\ rowBuffer # <<>>
  /\ \/ /\ rowBuffer' = ReplacedBuffer
        /\ Step("write_batch") \/ EndRecordCall("raised")
     \/ /\ pendingItems # <<>>
        /\ EndRecordCall("raised")
        /\ UNCHANGED rowBuffer
  /\ UNCHANGED <<vars, pendingItems, blobFiles, recordHistory>>

CallWriteBatch ==
  /\ stage = "write_batch"
  /\ WriteBatch /\ left' = 1
  /\ Step("batching")
  /\ UNCHANGED <<recordBuffer, recordHistory>>

Returned(at, how) == stage = at /\ pc = "idle" /\ result = how

KeepRows == rowBuffer              \* mutant: _row_buffer is not reset
ClearedRows == <<>>
ClearedCount == 0

BatchTaken ==
  /\ Returned("batching", "ok")
  /\ rowBuffer' = ClearedRows /\ pendingItems' = <<>> /\ blobFiles' = ClearedCount
  /\ AfterRecords
  /\ UNCHANGED <<vars, recordHistory>>

RowIds(s) == {s[i].row : i \in DOMAIN s}

DroppedRows == <<>>                \* mutant: the buffer is reset in `finally`
KeptRows == rowBuffer

\* The batch may be in the Arrow writer's cache although write_batch raised:
\* the flush_async at its end reports the failure of an older flush.
BatchRaises ==
  /\ Returned("batching", "raised")
  /\ resent' = IF accepted > 0 /\ RowIds(content[accepted]) = RowIds(rowBuffer)
               THEN resent \cup RowIds(rowBuffer) ELSE resent
  /\ rowBuffer' = KeptRows
  /\ EndRecordCall("raised")
  /\ UNCHANGED <<vars, pendingItems, blobFiles, rows, content>>

-----------------------------------------------------------------------------
(* flush and close; close does not reach the Arrow writer if flush raised  *)

CallArrowFlush ==
  /\ stage = "flush_arrow"
  /\ AwaitPendingFlush /\ op' = "flush"
  /\ Step("flushing")
  /\ UNCHANGED <<recordBuffer, recordHistory>>

ArrowFlushed ==
  /\ Returned("flushing", "ok")
  /\ IF request = "close" THEN Step("close_arrow") ELSE EndRecordCall("ok")
  /\ UNCHANGED <<vars, recordBuffer, recordHistory>>

CallArrowClose ==
  /\ stage = "close_arrow"
  /\ CloseAgain \/ (AwaitPendingFlush /\ op' = "close")
  /\ Step("closing")
  /\ UNCHANGED <<recordBuffer, recordHistory>>

ArrowReturns ==
  /\ Returned("flushing", "raised") \/ Returned("closing", "raised") \/ Returned("closing", "ok")
  /\ EndRecordCall(result)
  /\ UNCHANGED <<vars, recordBuffer, recordHistory>>

-----------------------------------------------------------------------------
(* The Arrow writer goes on inside a call, or is called directly           *)

ArrowStep(A) ==
  /\ A
  /\ content' = IF accepted' # accepted
                THEN [content EXCEPT ![accepted'] = rowBuffer] ELSE content
  /\ UNCHANGED <<recordCall, recordBuffer, rows, resent>>

DirectCall ==
  /\ stage = "idle"
  /\ CallFlushAsync \/ CloseAgain \/ (AwaitPendingFlush /\ op' # "set_row_offset")
  /\ UNCHANGED <<recordCall, recordBuffer, recordHistory>>

RecordContinues ==
  \/ NothingToFlush \/ UploadPendingBlobs \/ CallWriteBatch \/ BatchTaken \/ BatchRaises
  \/ CallArrowFlush \/ ArrowFlushed \/ CallArrowClose \/ ArrowReturns
  \/ ArrowStep(CallerContinues)

RecordNext ==
  \/ Write \/ WriteRaises \/ CallFlush \/ DirectCall
  \/ RecordContinues \/ ArrowStep(WorkerSteps) \/ ArrowStep(Serve)

\* A thread that can run is eventually run, and a request is eventually
\* answered (the HTTP client has timeouts).  The caller need not call.
RecordSpec ==
  /\ RecordInit /\ [][RecordNext]_recordVars
  /\ WF_recordVars(RecordContinues)
  /\ WF_recordVars(ArrowStep(WorkerSteps))
  /\ WF_recordVars(ArrowStep(Serve))

-----------------------------------------------------------------------------
(* Properties                                                              *)

BlobCells == {p \in (1..MaxRows) \X (1..MaxBlobs) :
                   p[1] \in DOMAIN rowBuffer /\ p[2] \in DOMAIN rowBuffer[p[1]].cells}

BatchesOf(r) == {k \in 1..accepted : r \in RowIds(content[k])}

(* A row write() has taken is in the row buffer or in one Arrow batch, and  *)
(* in one of them only, whatever call raised at whatever point, except the  *)
(* rows that _flush_records keeps although write_batch cached their batch   *)
(* before it raised for an older flush: those are batched again.            *)
RowsBatchedOnce ==
  (stage # "batching") =>
    \A r \in (1..rows) \ resent :
      Cardinality(BatchesOf(r)) + (IF r \in RowIds(rowBuffer) THEN 1 ELSE 0) = 1

(* When flush() or close() of the record writer returns without raising,    *)
(* every row is in the table, through both buffers and any flush that was   *)
(* pending (the Arrow writer's own loss of appended batches apart).         *)
RecordsDelivered ==
  (stage = "idle" /\ request \in {"flush", "close"} /\ answer = "ok")
    => \A r \in 1..rows : BatchesOf(r) \cap (Range(delivered) \cup raced) # {}

(* The reference in a cell that reaches the Arrow writer is that of the     *)
(* cell's own blob: items and placeholders stay in step through refused     *)
(* rows, uploads that fail and uploads that are repeated, every placeholder *)
(* has its item, and the count that sets off an upload is of these cells.   *)
ReferencesMatch ==
  /\ \A k \in 1..accepted : \A i \in DOMAIN content[k] :
       LET r == content[k][i] IN \A j \in DOMAIN r.cells : r.cells[j] = <<r.row, j>>
  /\ blobFiles = Cardinality(BlobCells)
  /\ \A p \in BlobCells :
       LET cell == rowBuffer[p[1]].cells[p[2]]
       IN  IsPlaceholder(cell) => cell[1] \in DOMAIN pendingItems

\* A call of the record writer, or a direct one, is under way.
InCall == stage # "idle" \/ pc # "idle"

\* What a call waits for: the lock around the restore, a permit, futures, the
\* answer to its own write_table, the executor's shutdown.
AwaitsLock ==
  /\ WorkerLocked
  /\ \/ pc \in {"flush_async", "capture", "track"}
     \/ stage = "flush_arrow"
     \/ stage \in {"write_batch", "close_arrow"} /\ ~closed

AwaitsOthers ==
  \/ AwaitsLock
  \/ pc = "acquire" /\ semaphore = 0
  \/ pc = "await" /\ ~AwaitOver
  \/ pc = "flush_reply" /\ rpc["caller"].stage = "sent"
  \/ pc = "join" /\ (wpc # "idle" \/ Queued # {})

\* The guards of the two threads and of the service, which fairness holds them to.
CallerGuard ==
  /\ InCall /\ ~AwaitsOthers
  /\ stage = "write_batch" => accepted < MaxBatches /\ flushes < MaxFlushes
  /\ stage \in {"batching", "flushing", "closing"} /\ pc = "idle" =>
       /\ result # "none"
  /\ pc = "flush_reply" => rpc["caller"].stage # "none"

WorkerGuard ==
  \/ wpc = "idle" /\ Queued # {}
  \/ wpc = "reply" /\ rpc["worker"].stage \in {"acked", "refused"}
  \/ wpc \notin {"idle", "reply"}

ServiceGuard == \E t \in Threads : rpc[t].stage = "sent"

GuardsSuffice ==
  /\ CallerGuard => ENABLED <<RecordContinues>>_recordVars
  /\ WorkerGuard => ENABLED <<ArrowStep(WorkerSteps)>>_recordVars
  /\ ServiceGuard => ENABLED <<ArrowStep(Serve)>>_recordVars

(* During a call somebody can always step: a call waits for a permit, a     *)
(* future, the lock or the executor only while the worker can go on or has  *)
(* a request at the service, and no call ends before it was answered.       *)
CallNotStuck ==
  GuardsSuffice /\ (InCall => CallerGuard \/ WorkerGuard \/ ServiceGuard)

(* Every call of the record writer returns, and every direct call of the    *)
(* Arrow writer: nobody stays blocked on the semaphore, on a future or on   *)
(* the executor's shutdown.                                                 *)
RecordCallsReturn == InCall ~> ~InCall
=============================================================================
