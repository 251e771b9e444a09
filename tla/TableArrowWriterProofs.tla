----------------------- MODULE TableArrowWriterProofs -----------------------
(***************************************************************************)
(* Theorems about TableArrowWriter, and about RecordWriter over it, for    *)
(* every buffer bound and every number of batches, flushes, failures, rows *)
(* and blobs.  RecordWriter extends TableArrowWriter, and its invariant    *)
(* builds on that of the Arrow writer, so that the last part of the module *)
(* uses what the first parts prove.                                        *)
(***************************************************************************)
EXTENDS RecordWriter, FiniteSetTheorems, TLAPS

\* The caller never starts a flush beyond the bound: the batches write_batch
\* has still to append leave room for one flush each.
CallBounds ==
  /\ pc \in {"append", "load_size", "store_size", "threshold"} => op = "write_batch"
  /\ pc \in {"flush_async", "acquire", "capture", "submit", "assign", "track"} =>
       op \in {"write_batch", "flush_async"}
  /\ pc \in {"append", "load_size", "store_size", "threshold", "flush_async", "acquire",
             "capture", "submit", "assign", "track"} /\ op = "write_batch" => left >= 1
  /\ pc \in {"append", "load_size", "store_size", "threshold", "flush_async", "acquire",
             "capture"} =>
       flushes + (IF op = "write_batch" THEN left ELSE 1) <= MaxFlushes
  /\ pc \in {"submit", "assign", "track"} =>
       /\ flushes >= 1
       /\ flushes + (IF op = "write_batch" THEN left ELSE 1) <= MaxFlushes + 1

\* Flushes are numbered in the order they are captured, and the worker runs
\* exactly the one whose status says so.
FlushStates ==
  /\ \A f \in Flushes : status[f] = "none" <=> f > flushes
  /\ \A f \in Flushes : status[f] = "captured" <=> (pc = "submit" /\ f = flushes)
  /\ wpc = "idle" <=> task = 0
  /\ \A f \in Flushes : status[f] = "running" <=> f = task

Submitting(f) == pc \in {"submit", "assign", "track"} /\ f = flushes

\* A flush that has not ended well is tracked by somebody who will look at it.
Tracking ==
  /\ \A f \in Flushes :
       status[f] \in {"captured", "queued", "running"} =>
         \/ f \in pendingFutures \cup awaited
         \/ Submitting(f)
         \/ status[f] = "running" /\ wpc \in {"release", "resolve"} /\ outcome = "done"
  /\ outcome = "failed" => wpc \in {"restore_store", "restore_load_size", "restore_store_size",
                         "release", "resolve"}
  /\ wpc \in {"restore_store", "restore_load_size", "restore_store_size"} => outcome = "failed"

\* After _await_pending_flush the deque stays empty until the call ends.
Settled == {"flush_rest", "flush_reply", "clear", "flushed", "close_stream", "join"}

Quiet ==
  /\ pc # "await" => awaited = {}
  /\ pc \in Settled \cup {"await"} => pendingFutures = {} /\ op \in FlushingCalls

\* A write_table call is out only where its thread waits for the answer.
CallsOut ==
  /\ rpc["worker"].stage # "none" => wpc = "reply"
  /\ rpc["caller"].stage # "none" => pc = "flush_reply"

\* A closed writer has nothing left to run and no call that could send.
ClosedQuiet ==
  /\ streamClosed => closed
  /\ closed =>
       /\ pc \in {"idle", "flush_async", "await", "flush_rest", "flushed", "join",
                  "store_offset"}
       /\ pc \in {"await", "flush_rest", "flushed"} => op # "close"
       /\ \A f \in Flushes : status[f] \in {"captured", "queued", "running"} =>
            status[f] = "running" /\ wpc \in {"release", "resolve"}

IInv ==
  /\ TypeInv /\ CallBounds /\ FlushStates /\ Tracking /\ Quiet /\ CallsOut
  /\ ClosedQuiet /\ FailureNotErased /\ PermitsBalance

-----------------------------------------------------------------------------
USE DEF Goto, Call, Fail, Return, CallerOnly, WorkerOnly, callerLocals, cache, futures,
        tasks, workerVars, service, history, vars

LEMMA RangeOfSeq ==
  ASSUME NEW S, NEW s \in Seq(S)
  PROVE  Range(s) \subseteq S
BY DEF Range

LEMMA TaskInRange ==
  ASSUME TypeInv, FlushStates, wpc # "idle"
  PROVE  /\ task \in Flushes
         /\ captured[task].batches \in Seq(Nat)
         /\ captured[task].size \in Nat
BY DEF TypeInv, WorkerTypes, FutureTypes, FlushStates, Flushes

LEMMA PayloadType ==
  ASSUME TypeInv, FlushStates, CallsOut, NEW t \in Threads, rpc[t].stage # "none"
  PROVE  Payload(t).batches \in Seq(Nat)
<1>1. CASE t = "worker"
  BY <1>1, TaskInRange DEF Payload, CallsOut
<1>2. CASE t = "caller"
  BY <1>2 DEF Payload, TypeInv, CacheTypes
<1>. QED
  BY <1>1, <1>2 DEF Threads

LEMMA CallerTypesStep ==
  ASSUME CallerTypes, CacheTypes, ServiceTypes, CallBounds, [Next]_vars
  PROVE  CallerTypes'
<1> USE BoundsAssumption DEF BoundsAssumption, CallerTypes, CacheTypes, ServiceTypes, CallBounds, FlushingCalls
<1>1. CASE WriteBatch
  BY <1>1 DEF WriteBatch
<1>2. CASE AwaitPendingFlush
  BY <1>2 DEF AwaitPendingFlush
<1>3. CASE GetRowOffset
  BY <1>3 DEF GetRowOffset
<1>4. CASE LoadSize
  BY <1>4 DEF LoadSize
<1>5. CASE CheckThreshold
  BY <1>5 DEF CheckThreshold, NextBatch
<1>6. CASE FlushAsync
  BY <1>6 DEF FlushAsync, NextBatch
<1>7. CASE TrackFuture
  BY <1>7 DEF TrackFuture, NextBatch
<1>8. CASE Awaited
  BY <1>8 DEF Awaited, FlushRaises
<1>9. CASE FlushRest
  BY <1>9 DEF FlushRest, FlushRaises
<1>10. CASE FlushReply
  BY <1>10 DEF FlushReply, FlushRaises
<1>11. CASE CloseStream
  BY <1>11 DEF CloseStream
<1>12. CASE JoinWorker
  BY <1>12 DEF JoinWorker
<1>13. CASE StoreRowOffset
  BY <1>13 DEF StoreRowOffset
<1>14. CASE
       CallFlushAsync \/ CloseAgain \/ RejectBatch \/ AppendBatch \/ StoreSize \/
       AcquireSemaphore \/ CaptureBufferState \/ Submit \/ AssignFuture \/
       ClearBufferState \/ Flushed \/ TakeTask \/ WorkerSend \/ WorkerReply \/
       Untrack \/ RestoreLoad \/ RestoreStore \/ RestoreLoadSize \/
       RestoreStoreSize \/ ReleaseSemaphore \/ ResolveFuture \/ Serve \/
       UNCHANGED vars
  BY <1>14 DEF
       CallFlushAsync, CloseAgain, RejectBatch, AppendBatch, StoreSize,
       AcquireSemaphore, CaptureBufferState, Submit, AssignFuture,
       ClearBufferState, Flushed, TakeTask, WorkerSend, WorkerReply, Untrack,
       RestoreLoad, RestoreStore, RestoreLoadSize, RestoreStoreSize,
       ReleaseSemaphore, ResolveFuture, Serve
<1>. QED
  BY <1>1, <1>2, <1>3, <1>4, <1>5, <1>6, <1>7, <1>8, <1>9, <1>10, <1>11, <1>12,
  <1>13, <1>14
  DEF Next, CallerCalls, CallerContinues, WorkerSteps

LEMMA CacheTypesStep ==
  ASSUME CacheTypes, TypeInv, FlushStates, [Next]_vars
  PROVE  CacheTypes'
<1> USE BoundsAssumption DEF BoundsAssumption, CacheTypes, TypeInv
<1>1. CASE AppendBatch
  BY <1>1 DEF AppendBatch, HistoryTypes
<1>2. CASE StoreSize
  BY <1>2 DEF StoreSize, CallerTypes
<1>3. CASE AcquireSemaphore
  BY <1>3 DEF AcquireSemaphore
<1>4. CASE CaptureBufferState
  BY <1>4 DEF CaptureBufferState
<1>5. CASE FlushReply
  BY <1>5 DEF FlushReply, StoreResponse, ReturnedOffset, RaiseResponse,
     ServiceTypes, Threads
<1>6. CASE ClearBufferState
  BY <1>6 DEF ClearBufferState
<1>7. CASE Flushed
  BY <1>7 DEF Flushed
<1>8. CASE CloseStream
  BY <1>8 DEF CloseStream
<1>9. CASE StoreRowOffset
  BY <1>9 DEF StoreRowOffset, CallerTypes
<1>10. CASE WorkerReply
  BY <1>10 DEF WorkerReply, StoreResponse, ReturnedOffset, RaiseResponse,
     ServiceTypes, Threads
<1>11. CASE RestoreStore
  BY <1>11 DEF RestoreStore, Restored, FutureTypes, WorkerTypes, FlushStates,
     Flushes
<1>12. CASE RestoreStoreSize
  BY <1>12 DEF RestoreStoreSize, RestoredSize, FutureTypes, WorkerTypes, FlushStates,
     Flushes
<1>13. CASE ReleaseSemaphore
  BY <1>13 DEF ReleaseSemaphore, Released
<1>14. CASE
       WriteBatch \/ CallFlushAsync \/ CloseAgain \/ AwaitPendingFlush \/
       GetRowOffset \/ RejectBatch \/ LoadSize \/ CheckThreshold \/ FlushAsync \/
       Submit \/ AssignFuture \/ TrackFuture \/ Awaited \/ FlushRest \/
       JoinWorker \/ TakeTask \/ WorkerSend \/ Untrack \/ RestoreLoad \/
       RestoreLoadSize \/ ResolveFuture \/ Serve \/ UNCHANGED vars
  BY <1>14 DEF
       WriteBatch, CallFlushAsync, CloseAgain, AwaitPendingFlush, GetRowOffset,
       RejectBatch, LoadSize, CheckThreshold, FlushAsync, Submit, AssignFuture,
       TrackFuture, Awaited, FlushRest, JoinWorker, TakeTask, WorkerSend, Untrack,
       RestoreLoad, RestoreLoadSize, ResolveFuture, Serve
<1>. QED
  BY <1>1, <1>2, <1>3, <1>4, <1>5, <1>6, <1>7, <1>8, <1>9, <1>10, <1>11, <1>12,
  <1>13, <1>14
  DEF Next, CallerCalls, CallerContinues, WorkerSteps

LEMMA FutureTypesStep ==
  ASSUME FutureTypes, CallerTypes, CacheTypes, WorkerTypes, CallBounds, [Next]_vars
  PROVE  FutureTypes'
<1> USE BoundsAssumption DEF BoundsAssumption, FutureTypes, Flushes
<1>1. CASE WriteBatch
  BY <1>1 DEF WriteBatch, SurfaceFailedFutures
<1>2. CASE AwaitPendingFlush
  BY <1>2 DEF AwaitPendingFlush
<1>3. CASE FlushAsync
  BY <1>3 DEF FlushAsync, SurfaceFailedFutures
<1>4. CASE CaptureBufferState
  BY <1>4 DEF CaptureBufferState, CallBounds, CallerTypes, CacheTypes
<1>5. CASE Submit
  BY <1>5 DEF Submit, CallBounds
<1>6. CASE TrackFuture
  BY <1>6 DEF TrackFuture, Tracked, CallBounds
<1>7. CASE Awaited
  BY <1>7 DEF Awaited
<1>8. CASE TakeTask
  BY <1>8 DEF TakeTask
<1>9. CASE Untrack
  BY <1>9 DEF Untrack
<1>10. CASE ResolveFuture
  <2>1. Empty \in [batches : Seq(Nat), size : Nat]
    BY DEF Empty
  <2>2. captured' \in [Flushes -> [batches : Seq(Nat), size : Nat]]
    BY <1>10, <2>1 DEF ResolveFuture
  <2>3. status' \in [Flushes -> {"none", "captured", "queued", "running", "done", "failed"}]
    BY <1>10 DEF ResolveFuture, WorkerTypes
  <2>. QED
    BY <1>10, <2>2, <2>3 DEF ResolveFuture
<1>11. CASE
       CallFlushAsync \/ CloseAgain \/ GetRowOffset \/ RejectBatch \/
       AppendBatch \/ LoadSize \/ StoreSize \/ CheckThreshold \/
       AcquireSemaphore \/ AssignFuture \/ FlushRest \/ FlushReply \/
       ClearBufferState \/ Flushed \/ CloseStream \/ JoinWorker \/
       StoreRowOffset \/ WorkerSend \/ WorkerReply \/ RestoreLoad \/
       RestoreStore \/ RestoreLoadSize \/ RestoreStoreSize \/ ReleaseSemaphore \/
       Serve \/ UNCHANGED vars
  BY <1>11 DEF
       CallFlushAsync, CloseAgain, GetRowOffset, RejectBatch, AppendBatch,
       LoadSize, StoreSize, CheckThreshold, AcquireSemaphore, AssignFuture,
       FlushRest, FlushReply, ClearBufferState, Flushed, CloseStream, JoinWorker,
       StoreRowOffset, WorkerSend, WorkerReply, RestoreLoad, RestoreStore,
       RestoreLoadSize, RestoreStoreSize, ReleaseSemaphore, Serve
<1>. QED
  BY <1>1, <1>2, <1>3, <1>4, <1>5, <1>6, <1>7, <1>8, <1>9, <1>10, <1>11
  DEF Next, CallerCalls, CallerContinues, WorkerSteps

LEMMA WorkerTypesStep ==
  ASSUME WorkerTypes, CacheTypes, FutureTypes, FlushStates, [Next]_vars
  PROVE  WorkerTypes'
<1> USE BoundsAssumption DEF BoundsAssumption, WorkerTypes
<1>1. CASE TakeTask
  BY <1>1 DEF TakeTask, Queued, Flushes
<1>2. CASE WorkerReply
  BY <1>2 DEF WorkerReply, OnFailure
<1>3. CASE Untrack
  BY <1>3 DEF Untrack
<1>4. CASE RestoreLoad
  BY <1>4 DEF RestoreLoad, CacheTypes
<1>5. CASE RestoreStore
  BY <1>5 DEF RestoreStore
<1>6. CASE RestoreLoadSize
  BY <1>6 DEF RestoreLoadSize, CacheTypes
<1>7. CASE RestoreStoreSize
  BY <1>7 DEF RestoreStoreSize
<1>8. CASE ReleaseSemaphore
  BY <1>8 DEF ReleaseSemaphore
<1>9. CASE ResolveFuture
  BY <1>9 DEF ResolveFuture
<1>10. CASE
       WriteBatch \/ CallFlushAsync \/ CloseAgain \/ AwaitPendingFlush \/
       GetRowOffset \/ RejectBatch \/ AppendBatch \/ LoadSize \/ StoreSize \/
       CheckThreshold \/ FlushAsync \/ AcquireSemaphore \/ CaptureBufferState \/
       Submit \/ AssignFuture \/ TrackFuture \/ Awaited \/ FlushRest \/
       FlushReply \/ ClearBufferState \/ Flushed \/ CloseStream \/ JoinWorker \/
       StoreRowOffset \/ WorkerSend \/ Serve \/ UNCHANGED vars
  BY <1>10 DEF
       WriteBatch, CallFlushAsync, CloseAgain, AwaitPendingFlush, GetRowOffset,
       RejectBatch, AppendBatch, LoadSize, StoreSize, CheckThreshold, FlushAsync,
       AcquireSemaphore, CaptureBufferState, Submit, AssignFuture, TrackFuture,
       Awaited, FlushRest, FlushReply, ClearBufferState, Flushed, CloseStream,
       JoinWorker, StoreRowOffset, WorkerSend, Serve
<1>. QED
  BY <1>1, <1>2, <1>3, <1>4, <1>5, <1>6, <1>7, <1>8, <1>9, <1>10
  DEF Next, CallerCalls, CallerContinues, WorkerSteps

LEMMA ServiceTypesStep ==
  ASSUME ServiceTypes, TypeInv, CallsOut, FlushStates, [Next]_vars
  PROVE  ServiceTypes'
<1> USE BoundsAssumption DEF BoundsAssumption, ServiceTypes, TypeInv, Threads
<1>1. CASE FlushRest
  BY <1>1 DEF FlushRest, SendWrite, CacheTypes
<1>2. CASE FlushReply
  BY <1>2 DEF FlushReply, StoreResponse, RaiseResponse, NoCall
<1>3. CASE CloseStream
  <2>1. streamClosed' = TRUE \/ UNCHANGED streamClosed
    BY <1>3, Zenon DEF CloseStream
  <2>2. streamClosed' \in BOOLEAN
    BY <2>1
  <2>3. failures' \in 0..MaxFailures /\ UNCHANGED <<rpc, delivered>>
    BY <1>3 DEF CloseStream
  <2>. QED
    BY <2>2, <2>3
<1>4. CASE GetRowOffset
  BY <1>4 DEF GetRowOffset
<1>5. CASE WorkerSend
  BY <1>5 DEF WorkerSend, SendWrite, CacheTypes
<1>6. CASE WorkerReply
  BY <1>6 DEF WorkerReply, StoreResponse, RaiseResponse, NoCall
<1>7. CASE Serve
  <2>1. PICK t \in Threads : ServeOk(t) \/ ServeFailure(t)
    BY <1>7 DEF Serve
  <2>2. Payload(t).batches \in Seq(Nat)
    BY <2>1, PayloadType DEF ServeOk, ServeFailure
  <2>a. delivered \o Payload(t).batches \in Seq(Nat)
    BY <2>2
  <2>b. delivered' = delivered \/ delivered' = delivered \o Payload(t).batches
    BY <2>1, Zenon DEF ServeOk, ServeFailure, Apply
  <2>3. delivered' \in Seq(Nat)
    BY <2>a, <2>b
  <2>4. Len(delivered') \in Nat
    BY <2>3
  <2>5. rpc' \in [Threads -> [stage : {"none", "sent", "acked", "refused"}, offset : Nat]]
    BY <2>1, <2>4 DEF ServeOk, ServeFailure
  <2>6. failures' \in 0..MaxFailures /\ UNCHANGED streamClosed
    BY <1>7, <2>1 DEF Serve, ServeOk, ServeFailure
  <2>. QED
    BY <2>3, <2>5, <2>6
<1>8. CASE
       WriteBatch \/ CallFlushAsync \/ CloseAgain \/ AwaitPendingFlush \/
       RejectBatch \/ AppendBatch \/ LoadSize \/ StoreSize \/ CheckThreshold \/
       FlushAsync \/ AcquireSemaphore \/ CaptureBufferState \/ Submit \/
       AssignFuture \/ TrackFuture \/ Awaited \/ ClearBufferState \/ Flushed \/
       JoinWorker \/ StoreRowOffset \/ TakeTask \/ Untrack \/ RestoreLoad \/
       RestoreStore \/ RestoreLoadSize \/ RestoreStoreSize \/ ReleaseSemaphore \/
       ResolveFuture \/ UNCHANGED vars
  BY <1>8 DEF
       WriteBatch, CallFlushAsync, CloseAgain, AwaitPendingFlush, RejectBatch,
       AppendBatch, LoadSize, StoreSize, CheckThreshold, FlushAsync,
       AcquireSemaphore, CaptureBufferState, Submit, AssignFuture, TrackFuture,
       Awaited, ClearBufferState, Flushed, JoinWorker, StoreRowOffset, TakeTask,
       Untrack, RestoreLoad, RestoreStore, RestoreLoadSize, RestoreStoreSize,
       ReleaseSemaphore, ResolveFuture
<1>. QED
  BY <1>1, <1>2, <1>3, <1>4, <1>5, <1>6, <1>7, <1>8
  DEF Next, CallerCalls, CallerContinues, WorkerSteps

LEMMA HistoryTypesStep ==
  ASSUME HistoryTypes, TypeInv, CallsOut, FlushStates, [Next]_vars
  PROVE  HistoryTypes'
<1> USE BoundsAssumption DEF BoundsAssumption, HistoryTypes, TypeInv
<1>1. CASE WriteBatch
  BY <1>1 DEF WriteBatch, SurfaceFailedFutures, FailedIn, Finished, FutureTypes
<1>2. CASE FlushAsync
  BY <1>2 DEF FlushAsync, SurfaceFailedFutures, FailedIn, Finished, FutureTypes
<1>3. CASE AppendBatch
  BY <1>3 DEF AppendBatch
<1>4. CASE StoreSize
  BY <1>4 DEF StoreSize
<1>5. CASE Awaited
  BY <1>5 DEF Awaited, FailedIn, FutureTypes
<1>6. CASE FlushReply
  BY <1>6 DEF FlushReply
<1>7. CASE Flushed
  BY <1>7 DEF Flushed
<1>8. CASE StoreRowOffset
  BY <1>8 DEF StoreRowOffset
<1>9. CASE WorkerReply
  BY <1>9 DEF WorkerReply
<1>10. CASE Untrack
  <2>1. Range(captured[task].batches) \subseteq Nat
    BY <1>10, TaskInRange, RangeOfSeq DEF Untrack
  <2>. QED
    BY <1>10, <2>1 DEF Untrack
<1>11. CASE RestoreStoreSize
  BY <1>11 DEF RestoreStoreSize
<1>12. CASE Serve
  <2>1. PICK t \in Threads : ServeOk(t) \/ ServeFailure(t)
    BY <1>12 DEF Serve
  <2>2. Range(Payload(t).batches) \subseteq Nat
    BY <2>1, PayloadType, RangeOfSeq DEF ServeOk, ServeFailure
  <2>. QED
    BY <1>12, <2>1, <2>2 DEF Serve, ServeOk, ServeFailure
<1>13. CASE
       CallFlushAsync \/ CloseAgain \/ AwaitPendingFlush \/ GetRowOffset \/
       RejectBatch \/ LoadSize \/ CheckThreshold \/ AcquireSemaphore \/
       CaptureBufferState \/ Submit \/ AssignFuture \/ TrackFuture \/ FlushRest \/
       ClearBufferState \/ CloseStream \/ JoinWorker \/ TakeTask \/ WorkerSend \/
       RestoreLoad \/ RestoreStore \/ RestoreLoadSize \/ ReleaseSemaphore \/
       ResolveFuture \/ UNCHANGED vars
  BY <1>13 DEF
       CallFlushAsync, CloseAgain, AwaitPendingFlush, GetRowOffset, RejectBatch,
       LoadSize, CheckThreshold, AcquireSemaphore, CaptureBufferState, Submit,
       AssignFuture, TrackFuture, FlushRest, ClearBufferState, CloseStream,
       JoinWorker, TakeTask, WorkerSend, RestoreLoad, RestoreStore,
       RestoreLoadSize, ReleaseSemaphore, ResolveFuture
<1>. QED
  BY <1>1, <1>2, <1>3, <1>4, <1>5, <1>6, <1>7, <1>8, <1>9, <1>10, <1>11, <1>12,
  <1>13
  DEF Next, CallerCalls, CallerContinues, WorkerSteps

LEMMA CallBoundsStep ==
  ASSUME CallBounds, CallerTypes, FutureTypes, [Next]_vars
  PROVE  CallBounds'
<1> USE BoundsAssumption DEF BoundsAssumption, CallBounds, CallerTypes, FutureTypes, FlushingCalls
<1>1. CASE WriteBatch
  BY <1>1 DEF WriteBatch
<1>2. CASE CallFlushAsync
  BY <1>2 DEF CallFlushAsync
<1>3. CASE CloseAgain
  BY <1>3 DEF CloseAgain
<1>4. CASE AwaitPendingFlush
  BY <1>4 DEF AwaitPendingFlush
<1>5. CASE GetRowOffset
  BY <1>5 DEF GetRowOffset
<1>6. CASE RejectBatch
  BY <1>6 DEF RejectBatch
<1>7. CASE AppendBatch
  BY <1>7 DEF AppendBatch
<1>8. CASE LoadSize
  BY <1>8 DEF LoadSize
<1>9. CASE StoreSize
  BY <1>9 DEF StoreSize
<1>10. CASE CheckThreshold
  BY <1>10 DEF CheckThreshold, NextBatch
<1>11. CASE FlushAsync
  BY <1>11 DEF FlushAsync, NextBatch
<1>12. CASE AcquireSemaphore
  BY <1>12 DEF AcquireSemaphore
<1>13. CASE CaptureBufferState
  BY <1>13 DEF CaptureBufferState
<1>14. CASE Submit
  BY <1>14 DEF Submit
<1>15. CASE AssignFuture
  BY <1>15 DEF AssignFuture
<1>16. CASE TrackFuture
  BY <1>16 DEF TrackFuture, NextBatch
<1>17. CASE Awaited
  BY <1>17 DEF Awaited, FlushRaises
<1>18. CASE FlushRest
  BY <1>18 DEF FlushRest, FlushRaises
<1>19. CASE FlushReply
  BY <1>19 DEF FlushReply, FlushRaises
<1>20. CASE
       ClearBufferState \/ Flushed \/ CloseStream \/ JoinWorker \/
       StoreRowOffset \/ TakeTask \/ WorkerSend \/ WorkerReply \/ Untrack \/
       RestoreLoad \/ RestoreStore \/ RestoreLoadSize \/ RestoreStoreSize \/
       ReleaseSemaphore \/ ResolveFuture \/ Serve \/ UNCHANGED vars
  BY <1>20 DEF
       ClearBufferState, Flushed, CloseStream, JoinWorker, StoreRowOffset,
       TakeTask, WorkerSend, WorkerReply, Untrack, RestoreLoad, RestoreStore,
       RestoreLoadSize, RestoreStoreSize, ReleaseSemaphore, ResolveFuture, Serve
<1>. QED
  BY <1>1, <1>2, <1>3, <1>4, <1>5, <1>6, <1>7, <1>8, <1>9, <1>10, <1>11, <1>12,
  <1>13, <1>14, <1>15, <1>16, <1>17, <1>18, <1>19, <1>20
  DEF Next, CallerCalls, CallerContinues, WorkerSteps

LEMMA FlushStatesStep ==
  ASSUME IInv, [Next]_vars
  PROVE  FlushStates'
<1> USE BoundsAssumption DEF BoundsAssumption, IInv, TypeInv, CallerTypes, FutureTypes, WorkerTypes, FlushStates, CallBounds,
       Flushes
<1>1. CASE WriteBatch
  BY <1>1 DEF WriteBatch
<1>2. CASE CallFlushAsync
  BY <1>2 DEF CallFlushAsync
<1>3. CASE CloseAgain
  BY <1>3 DEF CloseAgain
<1>4. CASE AwaitPendingFlush
  BY <1>4 DEF AwaitPendingFlush
<1>5. CASE GetRowOffset
  BY <1>5 DEF GetRowOffset
<1>6. CASE RejectBatch
  BY <1>6 DEF RejectBatch
<1>7. CASE AppendBatch
  BY <1>7 DEF AppendBatch
<1>8. CASE LoadSize
  BY <1>8 DEF LoadSize
<1>9. CASE StoreSize
  BY <1>9 DEF StoreSize
<1>10. CASE CheckThreshold
  BY <1>10 DEF CheckThreshold, NextBatch
<1>11. CASE FlushAsync
  BY <1>11 DEF FlushAsync, NextBatch
<1>12. CASE AcquireSemaphore
  BY <1>12 DEF AcquireSemaphore
<1>13. CASE CaptureBufferState
  BY <1>13 DEF CaptureBufferState
<1>14. CASE Submit
  BY <1>14 DEF Submit
<1>15. CASE AssignFuture
  BY <1>15 DEF AssignFuture
<1>16. CASE TrackFuture
  BY <1>16 DEF TrackFuture, NextBatch
<1>17. CASE Awaited
  BY <1>17 DEF Awaited, FlushRaises
<1>18. CASE FlushRest
  BY <1>18 DEF FlushRest, FlushRaises
<1>19. CASE FlushReply
  BY <1>19 DEF FlushReply, FlushRaises
<1>20. CASE ClearBufferState
  BY <1>20 DEF ClearBufferState
<1>21. CASE Flushed
  BY <1>21 DEF Flushed
<1>22. CASE CloseStream
  BY <1>22 DEF CloseStream
<1>23. CASE JoinWorker
  BY <1>23 DEF JoinWorker
<1>24. CASE StoreRowOffset
  BY <1>24 DEF StoreRowOffset
<1>25. CASE TakeTask
  BY <1>25 DEF TakeTask, Queued
<1>26. CASE WorkerReply
  BY <1>26 DEF WorkerReply, OnFailure
<1>27. CASE Untrack
  BY <1>27 DEF Untrack
<1>28. CASE ResolveFuture
  BY <1>28 DEF ResolveFuture
<1>29. CASE
       WorkerSend \/ RestoreLoad \/ RestoreStore \/ RestoreLoadSize \/
       RestoreStoreSize \/ ReleaseSemaphore \/ Serve \/ UNCHANGED vars
  BY <1>29 DEF
       WorkerSend, RestoreLoad, RestoreStore, RestoreLoadSize, RestoreStoreSize,
       ReleaseSemaphore, Serve
<1>. QED
  BY <1>1, <1>2, <1>3, <1>4, <1>5, <1>6, <1>7, <1>8, <1>9, <1>10, <1>11, <1>12,
  <1>13, <1>14, <1>15, <1>16, <1>17, <1>18, <1>19, <1>20, <1>21, <1>22, <1>23,
  <1>24, <1>25, <1>26, <1>27, <1>28, <1>29
  DEF Next, CallerCalls, CallerContinues, WorkerSteps

LEMMA QuietStep ==
  ASSUME IInv, [Next]_vars
  PROVE  Quiet'
<1> USE BoundsAssumption DEF BoundsAssumption, IInv, TypeInv, CallerTypes, FutureTypes, WorkerTypes, Quiet, CallBounds, Settled,
       FlushingCalls, Flushes
<1>1. CASE WriteBatch
  BY <1>1 DEF WriteBatch, SurfaceFailedFutures
<1>2. CASE CallFlushAsync
  BY <1>2 DEF CallFlushAsync
<1>3. CASE CloseAgain
  BY <1>3 DEF CloseAgain
<1>4. CASE AwaitPendingFlush
  BY <1>4 DEF AwaitPendingFlush
<1>5. CASE GetRowOffset
  BY <1>5 DEF GetRowOffset
<1>6. CASE CheckThreshold
  BY <1>6 DEF CheckThreshold, NextBatch
<1>7. CASE FlushAsync
  BY <1>7 DEF FlushAsync, NextBatch, SurfaceFailedFutures
<1>8. CASE TrackFuture
  BY <1>8 DEF TrackFuture, NextBatch
<1>9. CASE Awaited
  BY <1>9 DEF Awaited, FlushRaises
<1>10. CASE FlushRest
  BY <1>10 DEF FlushRest, FlushRaises
<1>11. CASE FlushReply
  BY <1>11 DEF FlushReply, FlushRaises
<1>12. CASE Flushed
  BY <1>12 DEF Flushed
<1>13. CASE CloseStream
  BY <1>13 DEF CloseStream
<1>14. CASE JoinWorker
  BY <1>14 DEF JoinWorker
<1>15. CASE Untrack
  BY <1>15 DEF Untrack
<1>16. CASE
       RejectBatch \/ AppendBatch \/ LoadSize \/ StoreSize \/ AcquireSemaphore \/
       CaptureBufferState \/ Submit \/ AssignFuture \/ ClearBufferState \/
       StoreRowOffset \/ TakeTask \/ WorkerSend \/ WorkerReply \/ RestoreLoad \/
       RestoreStore \/ RestoreLoadSize \/ RestoreStoreSize \/ ReleaseSemaphore \/
       ResolveFuture \/ Serve \/ UNCHANGED vars
  BY <1>16 DEF
       RejectBatch, AppendBatch, LoadSize, StoreSize, AcquireSemaphore,
       CaptureBufferState, Submit, AssignFuture, ClearBufferState, StoreRowOffset,
       TakeTask, WorkerSend, WorkerReply, RestoreLoad, RestoreStore,
       RestoreLoadSize, RestoreStoreSize, ReleaseSemaphore, ResolveFuture, Serve
<1>. QED
  BY <1>1, <1>2, <1>3, <1>4, <1>5, <1>6, <1>7, <1>8, <1>9, <1>10, <1>11, <1>12,
  <1>13, <1>14, <1>15, <1>16
  DEF Next, CallerCalls, CallerContinues, WorkerSteps

LEMMA CallsOutStep ==
  ASSUME IInv, [Next]_vars
  PROVE  CallsOut'
<1> USE BoundsAssumption DEF BoundsAssumption, IInv, TypeInv, CallerTypes, FutureTypes, WorkerTypes, CallsOut, ServiceTypes, Threads,
       Flushes
<1>1. CASE WriteBatch
  BY <1>1 DEF WriteBatch
<1>2. CASE CheckThreshold
  BY <1>2 DEF CheckThreshold, NextBatch
<1>3. CASE FlushAsync
  BY <1>3 DEF FlushAsync, NextBatch
<1>4. CASE TrackFuture
  BY <1>4 DEF TrackFuture, NextBatch
<1>5. CASE Awaited
  BY <1>5 DEF Awaited, FlushRaises
<1>6. CASE FlushRest
  BY <1>6 DEF FlushRest, FlushRaises, SendWrite
<1>7. CASE FlushReply
  <2>1. rpc'["caller"].stage = "none"
    BY <1>7 DEF FlushReply, StoreResponse, RaiseResponse, NoCall
  <2>2. rpc'["worker"] = rpc["worker"] /\ wpc' = wpc
    BY <1>7 DEF FlushReply, StoreResponse, RaiseResponse
  <2>. QED
    BY <2>1, <2>2
<1>8. CASE WorkerSend
  <2>1. rpc'["caller"] = rpc["caller"]
    BY <1>8 DEF WorkerSend, SendWrite
  <2>2. pc' = pc /\ wpc' = "reply"
    BY <1>8 DEF WorkerSend
  <2>. QED
    BY <2>1, <2>2
<1>9. CASE WorkerReply
  <2>1. rpc'["worker"].stage = "none"
    BY <1>9 DEF WorkerReply, StoreResponse, RaiseResponse, NoCall
  <2>2. rpc'["caller"] = rpc["caller"] /\ pc' = pc
    BY <1>9 DEF WorkerReply, StoreResponse, RaiseResponse, WorkerOnly
  <2>. QED
    BY <2>1, <2>2
<1>10. CASE Serve
  <2>1. PICK t \in Threads : rpc[t].stage = "sent" /\ \A u \in Threads \ {t} : rpc'[u] = rpc[u]
    BY <1>10 DEF Serve, ServeOk, ServeFailure
  <2>2. UNCHANGED <<pc, wpc>>
    BY <1>10 DEF Serve
  <2>. QED
    BY <2>1, <2>2
<1>11. CASE
       CallFlushAsync \/ CloseAgain \/ AwaitPendingFlush \/ GetRowOffset \/
       RejectBatch \/ AppendBatch \/ LoadSize \/ StoreSize \/ AcquireSemaphore \/
       CaptureBufferState \/ Submit \/ AssignFuture \/ ClearBufferState \/
       Flushed \/ CloseStream \/ JoinWorker \/ StoreRowOffset \/ TakeTask \/
       Untrack \/ RestoreLoad \/ RestoreStore \/ RestoreLoadSize \/
       RestoreStoreSize \/ ReleaseSemaphore \/ ResolveFuture \/ UNCHANGED vars
  BY <1>11 DEF
       CallFlushAsync, CloseAgain, AwaitPendingFlush, GetRowOffset, RejectBatch,
       AppendBatch, LoadSize, StoreSize, AcquireSemaphore, CaptureBufferState,
       Submit, AssignFuture, ClearBufferState, Flushed, CloseStream, JoinWorker,
       StoreRowOffset, TakeTask, Untrack, RestoreLoad, RestoreStore,
       RestoreLoadSize, RestoreStoreSize, ReleaseSemaphore, ResolveFuture
<1>. QED
  BY <1>1, <1>2, <1>3, <1>4, <1>5, <1>6, <1>7, <1>8, <1>9, <1>10, <1>11
  DEF Next, CallerCalls, CallerContinues, WorkerSteps

LEMMA TrackingStep ==
  ASSUME IInv, [Next]_vars
  PROVE  Tracking'
<1> USE BoundsAssumption DEF BoundsAssumption, IInv, TypeInv, CallerTypes, FutureTypes, WorkerTypes, Tracking,
       FlushStates, Quiet, Submitting, Flushes
<1>1. CASE WriteBatch
  BY <1>1 DEF WriteBatch, SurfaceFailedFutures, Finished, Resolved
<1>2. CASE CallFlushAsync
  BY <1>2 DEF CallFlushAsync
<1>3. CASE CloseAgain
  BY <1>3 DEF CloseAgain
<1>4. CASE AwaitPendingFlush
  BY <1>4 DEF AwaitPendingFlush
<1>5. CASE GetRowOffset
  BY <1>5 DEF GetRowOffset
<1>6. CASE RejectBatch
  BY <1>6 DEF RejectBatch
<1>7. CASE AppendBatch
  BY <1>7 DEF AppendBatch
<1>8. CASE LoadSize
  BY <1>8 DEF LoadSize
<1>9. CASE StoreSize
  BY <1>9 DEF StoreSize
<1>10. CASE CheckThreshold
  BY <1>10 DEF CheckThreshold, NextBatch
<1>11. CASE FlushAsync
  BY <1>11 DEF FlushAsync, NextBatch, SurfaceFailedFutures, Finished, Resolved
<1>12. CASE AcquireSemaphore
  BY <1>12 DEF AcquireSemaphore
<1>13. CASE CaptureBufferState
  BY <1>13 DEF CaptureBufferState
<1>14. CASE Submit
  BY <1>14 DEF Submit
<1>15. CASE AssignFuture
  BY <1>15 DEF AssignFuture
<1>16. CASE TrackFuture
  BY <1>16 DEF TrackFuture, NextBatch, Tracked
<1>17. CASE Awaited
  BY <1>17 DEF Awaited, FlushRaises, AwaitOver, Resolved
<1>18. CASE FlushRest
  BY <1>18 DEF FlushRest, FlushRaises
<1>19. CASE FlushReply
  BY <1>19 DEF FlushReply, FlushRaises
<1>20. CASE ClearBufferState
  BY <1>20 DEF ClearBufferState
<1>21. CASE Flushed
  BY <1>21 DEF Flushed
<1>22. CASE CloseStream
  BY <1>22 DEF CloseStream
<1>23. CASE JoinWorker
  BY <1>23 DEF JoinWorker
<1>24. CASE StoreRowOffset
  BY <1>24 DEF StoreRowOffset
<1>25. CASE TakeTask
  BY <1>25 DEF TakeTask, Queued
<1>26. CASE WorkerSend
  BY <1>26 DEF WorkerSend
<1>27. CASE WorkerReply
  BY <1>27 DEF WorkerReply, OnFailure
<1>28. CASE Untrack
  BY <1>28 DEF Untrack
<1>29. CASE RestoreLoad
  BY <1>29 DEF RestoreLoad
<1>30. CASE RestoreStore
  BY <1>30 DEF RestoreStore
<1>31. CASE RestoreLoadSize
  BY <1>31 DEF RestoreLoadSize
<1>32. CASE RestoreStoreSize
  BY <1>32 DEF RestoreStoreSize
<1>33. CASE ReleaseSemaphore
  BY <1>33 DEF ReleaseSemaphore
<1>34. CASE ResolveFuture
  BY <1>34 DEF ResolveFuture
<1>35. CASE
       Serve \/ UNCHANGED vars
  BY <1>35 DEF
       Serve
<1>. QED
  BY <1>1, <1>2, <1>3, <1>4, <1>5, <1>6, <1>7, <1>8, <1>9, <1>10, <1>11, <1>12,
  <1>13, <1>14, <1>15, <1>16, <1>17, <1>18, <1>19, <1>20, <1>21, <1>22, <1>23,
  <1>24, <1>25, <1>26, <1>27, <1>28, <1>29, <1>30, <1>31, <1>32, <1>33, <1>34, <1>35
  DEF Next, CallerCalls, CallerContinues, WorkerSteps

LEMMA FailureNotErasedStep ==
  ASSUME IInv, [Next]_vars
  PROVE  FailureNotErased'
<1> USE BoundsAssumption DEF BoundsAssumption, IInv, TypeInv, CallerTypes, FutureTypes, WorkerTypes, Tracking,
       FlushStates, Quiet, Submitting, Flushes, FailureNotErased
<1>1. CASE WriteBatch
  BY <1>1 DEF WriteBatch, SurfaceFailedFutures, Finished, FailedIn, Resolved
<1>2. CASE CallFlushAsync
  BY <1>2 DEF CallFlushAsync
<1>3. CASE CloseAgain
  BY <1>3 DEF CloseAgain
<1>4. CASE AwaitPendingFlush
  BY <1>4 DEF AwaitPendingFlush
<1>5. CASE GetRowOffset
  BY <1>5 DEF GetRowOffset
<1>6. CASE RejectBatch
  BY <1>6 DEF RejectBatch
<1>7. CASE AppendBatch
  BY <1>7 DEF AppendBatch
<1>8. CASE LoadSize
  BY <1>8 DEF LoadSize
<1>9. CASE StoreSize
  BY <1>9 DEF StoreSize
<1>10. CASE CheckThreshold
  BY <1>10 DEF CheckThreshold, NextBatch
<1>11. CASE FlushAsync
  BY <1>11 DEF FlushAsync, NextBatch, SurfaceFailedFutures, Finished, FailedIn,
     Resolved
<1>12. CASE AcquireSemaphore
  BY <1>12 DEF AcquireSemaphore
<1>13. CASE CaptureBufferState
  BY <1>13 DEF CaptureBufferState
<1>14. CASE Submit
  BY <1>14 DEF Submit
<1>15. CASE AssignFuture
  BY <1>15 DEF AssignFuture
<1>16. CASE TrackFuture
  BY <1>16 DEF TrackFuture, NextBatch, Tracked
<1>17. CASE Awaited
  BY <1>17 DEF Awaited, FlushRaises, FailedIn
<1>18. CASE FlushRest
  BY <1>18 DEF FlushRest, FlushRaises
<1>19. CASE FlushReply
  BY <1>19 DEF FlushReply, FlushRaises
<1>20. CASE ClearBufferState
  BY <1>20 DEF ClearBufferState
<1>21. CASE Flushed
  BY <1>21 DEF Flushed
<1>22. CASE CloseStream
  BY <1>22 DEF CloseStream
<1>23. CASE JoinWorker
  BY <1>23 DEF JoinWorker
<1>24. CASE StoreRowOffset
  BY <1>24 DEF StoreRowOffset
<1>25. CASE TakeTask
  BY <1>25 DEF TakeTask, Queued
<1>26. CASE Untrack
  BY <1>26 DEF Untrack
<1>27. CASE ResolveFuture
  BY <1>27 DEF ResolveFuture
<1>28. CASE
       WorkerSend \/ WorkerReply \/ RestoreLoad \/ RestoreStore \/
       RestoreLoadSize \/ RestoreStoreSize \/ ReleaseSemaphore \/ Serve \/
       UNCHANGED vars
  BY <1>28 DEF
       WorkerSend, WorkerReply, RestoreLoad, RestoreStore, RestoreLoadSize,
       RestoreStoreSize, ReleaseSemaphore, Serve
<1>. QED
  BY <1>1, <1>2, <1>3, <1>4, <1>5, <1>6, <1>7, <1>8, <1>9, <1>10, <1>11, <1>12,
  <1>13, <1>14, <1>15, <1>16, <1>17, <1>18, <1>19, <1>20, <1>21, <1>22, <1>23,
  <1>24, <1>25, <1>26, <1>27, <1>28
  DEF Next, CallerCalls, CallerContinues, WorkerSteps

LEMMA ClosedQuietStep ==
  ASSUME IInv, [Next]_vars
  PROVE  ClosedQuiet'
<1> USE BoundsAssumption DEF BoundsAssumption, IInv, TypeInv, CallerTypes, FutureTypes, WorkerTypes, Tracking,
       FlushStates, Quiet, Submitting, Flushes, CallBounds, ClosedQuiet, Settled
<1>1. CASE WriteBatch
  BY <1>1 DEF WriteBatch
<1>2. CASE CallFlushAsync
  BY <1>2 DEF CallFlushAsync
<1>3. CASE CloseAgain
  BY <1>3 DEF CloseAgain
<1>4. CASE AwaitPendingFlush
  BY <1>4 DEF AwaitPendingFlush
<1>5. CASE GetRowOffset
  BY <1>5 DEF GetRowOffset
<1>6. CASE RejectBatch
  BY <1>6 DEF RejectBatch
<1>7. CASE AppendBatch
  BY <1>7 DEF AppendBatch
<1>8. CASE LoadSize
  BY <1>8 DEF LoadSize
<1>9. CASE StoreSize
  BY <1>9 DEF StoreSize
<1>10. CASE CheckThreshold
  BY <1>10 DEF CheckThreshold, NextBatch
<1>11. CASE FlushAsync
  BY <1>11 DEF FlushAsync, NextBatch
<1>12. CASE AcquireSemaphore
  BY <1>12 DEF AcquireSemaphore
<1>13. CASE CaptureBufferState
  BY <1>13 DEF CaptureBufferState
<1>14. CASE Submit
  BY <1>14 DEF Submit
<1>15. CASE AssignFuture
  BY <1>15 DEF AssignFuture
<1>16. CASE TrackFuture
  BY <1>16 DEF TrackFuture, NextBatch
<1>17. CASE Awaited
  BY <1>17 DEF Awaited, FlushRaises
<1>18. CASE FlushRest
  BY <1>18 DEF FlushRest, FlushRaises, Refuse
<1>19. CASE FlushReply
  BY <1>19 DEF FlushReply, FlushRaises
<1>20. CASE ClearBufferState
  BY <1>20 DEF ClearBufferState
<1>21. CASE Flushed
  BY <1>21 DEF Flushed
<1>22. CASE CloseStream
  BY <1>22 DEF CloseStream
<1>23. CASE JoinWorker
  BY <1>23 DEF JoinWorker
<1>24. CASE StoreRowOffset
  BY <1>24 DEF StoreRowOffset
<1>25. CASE TakeTask
  BY <1>25 DEF TakeTask, Queued
<1>26. CASE WorkerSend
  BY <1>26 DEF WorkerSend
<1>27. CASE WorkerReply
  BY <1>27 DEF WorkerReply, OnFailure
<1>28. CASE Untrack
  BY <1>28 DEF Untrack
<1>29. CASE RestoreLoad
  BY <1>29 DEF RestoreLoad
<1>30. CASE RestoreStore
  BY <1>30 DEF RestoreStore
<1>31. CASE RestoreLoadSize
  BY <1>31 DEF RestoreLoadSize
<1>32. CASE RestoreStoreSize
  BY <1>32 DEF RestoreStoreSize
<1>33. CASE ReleaseSemaphore
  BY <1>33 DEF ReleaseSemaphore
<1>34. CASE ResolveFuture
  BY <1>34 DEF ResolveFuture
<1>35. CASE Serve
  BY <1>35 DEF Serve
<1>36. CASE
       UNCHANGED vars
  BY <1>36
<1>. QED
  BY <1>1, <1>2, <1>3, <1>4, <1>5, <1>6, <1>7, <1>8, <1>9, <1>10, <1>11, <1>12,
  <1>13, <1>14, <1>15, <1>16, <1>17, <1>18, <1>19, <1>20, <1>21, <1>22, <1>23,
  <1>24, <1>25, <1>26, <1>27, <1>28, <1>29, <1>30, <1>31, <1>32, <1>33, <1>34,
  <1>35, <1>36
  DEF Next, CallerCalls, CallerContinues, WorkerSteps

LEMMA HoldersFinite ==
  ASSUME IInv
  PROVE  IsFiniteSet(Holders) /\ Cardinality(Holders) \in Nat
<1>1. IsFiniteSet(Flushes)
  BY FS_Interval, BoundsAssumption DEF Flushes, BoundsAssumption
<1>2. IsFiniteSet(Holders)
  BY <1>1, FS_Subset DEF Holders
<1>. QED
  BY <1>2, FS_CardinalityType

LEMMA PermitsBalanceStep ==
  ASSUME IInv, [Next]_vars
  PROVE  PermitsBalance'
<1> USE BoundsAssumption DEF BoundsAssumption, IInv, TypeInv, CallerTypes, CacheTypes,
       FutureTypes, WorkerTypes, FlushStates, CallBounds, Flushes
<1>a. PermitsBalance <=> semaphore + Cardinality(Holders) + (IF pc = "capture" THEN 1 ELSE 0)
                           = MaxPendingBuffers
  BY DEF PermitsBalance
<1>b. PermitsBalance' <=> semaphore' + Cardinality(Holders') + (IF pc' = "capture" THEN 1 ELSE 0)
                           = MaxPendingBuffers
  BY DEF PermitsBalance
<1>c. IsFiniteSet(Holders) /\ Cardinality(Holders) \in Nat
  BY HoldersFinite
<1>1. CASE AcquireSemaphore
  <2>1. Holders' = Holders
    BY <1>1 DEF AcquireSemaphore, Holders, HoldsPermit
  <2>. QED
    BY <1>1, <1>a, <1>b, <1>c, <2>1 DEF AcquireSemaphore
<1>2. CASE CaptureBufferState
  <2>1. flushes + 1 \in Flushes /\ flushes + 1 \notin Holders
    BY <1>2 DEF CaptureBufferState, Holders, HoldsPermit
  <2>2. Holders' = Holders \cup {flushes + 1}
    BY <1>2, <2>1 DEF CaptureBufferState, Holders, HoldsPermit
  <2>3. Cardinality(Holders') = Cardinality(Holders) + 1
    BY <1>c, <2>1, <2>2, FS_AddElement
  <2>. QED
    BY <1>2, <1>a, <1>b, <1>c, <2>3 DEF CaptureBufferState
<1>3. CASE ReleaseSemaphore
  <2>1. task \in Holders
    BY <1>3 DEF ReleaseSemaphore, Holders, HoldsPermit
  <2>2. Holders' = Holders \ {task}
    BY <1>3 DEF ReleaseSemaphore, Holders, HoldsPermit
  <2>3. Cardinality(Holders') = Cardinality(Holders) - 1
    BY <1>c, <2>1, <2>2, FS_RemoveElement
  <2>. QED
    BY <1>3, <1>a, <1>b, <1>c, <2>3 DEF ReleaseSemaphore, Released
<1>4. CASE Submit
  <2>1. Holders' = Holders
    BY <1>4 DEF Submit, Holders, HoldsPermit, Queued
  <2>. QED
    BY <1>4, <1>a, <1>b, <2>1 DEF Submit
<1>5. CASE TakeTask
  <2>1. Holders' = Holders
    BY <1>5 DEF TakeTask, Holders, HoldsPermit, Queued
  <2>. QED
    BY <1>5, <1>a, <1>b, <2>1 DEF TakeTask
<1>6. CASE ResolveFuture
  <2>1. Holders' = Holders
    BY <1>6 DEF ResolveFuture, Holders, HoldsPermit, Queued
  <2>. QED
    BY <1>6, <1>a, <1>b, <2>1 DEF ResolveFuture
<1>7. CASE
       WriteBatch \/ CallFlushAsync \/ CloseAgain \/ AwaitPendingFlush \/
       GetRowOffset \/ RejectBatch \/ AppendBatch \/ LoadSize \/ StoreSize \/
       CheckThreshold \/ FlushAsync \/ AssignFuture \/ TrackFuture
  <2>1. status' = status /\ semaphore' = semaphore
    BY <1>7 DEF
         WriteBatch, CallFlushAsync, CloseAgain, AwaitPendingFlush,
         GetRowOffset, RejectBatch, AppendBatch, LoadSize, StoreSize,
         CheckThreshold, FlushAsync, AssignFuture, TrackFuture
  <2>2. (wpc' = "resolve") <=> (wpc = "resolve")
    BY <1>7 DEF
         WriteBatch, CallFlushAsync, CloseAgain, AwaitPendingFlush,
         GetRowOffset, RejectBatch, AppendBatch, LoadSize, StoreSize,
         CheckThreshold, FlushAsync, AssignFuture, TrackFuture
  <2>3. (pc' = "capture") <=> (pc = "capture")
    BY <1>7 DEF
         WriteBatch, CallFlushAsync, CloseAgain, AwaitPendingFlush,
         GetRowOffset, RejectBatch, AppendBatch, LoadSize, StoreSize,
         CheckThreshold, FlushAsync, AssignFuture, TrackFuture, NextBatch
  <2>4. Holders' = Holders
    BY <2>1, <2>2 DEF Holders, HoldsPermit
  <2>. QED
    BY <2>1, <2>3, <2>4, <1>a, <1>b
<1>8. CASE
       Awaited \/ FlushRest \/ FlushReply \/ ClearBufferState \/ Flushed \/
       CloseStream \/ JoinWorker \/ StoreRowOffset
  <2>1. status' = status /\ semaphore' = semaphore
    BY <1>8 DEF
         Awaited, FlushRest, FlushReply, ClearBufferState, Flushed,
         CloseStream, JoinWorker, StoreRowOffset
  <2>2. (wpc' = "resolve") <=> (wpc = "resolve")
    BY <1>8 DEF
         Awaited, FlushRest, FlushReply, ClearBufferState, Flushed,
         CloseStream, JoinWorker, StoreRowOffset
  <2>3. (pc' = "capture") <=> (pc = "capture")
    BY <1>8 DEF
         Awaited, FlushRest, FlushReply, ClearBufferState, Flushed,
         CloseStream, JoinWorker, StoreRowOffset, FlushRaises
  <2>4. Holders' = Holders
    BY <2>1, <2>2 DEF Holders, HoldsPermit
  <2>. QED
    BY <2>1, <2>3, <2>4, <1>a, <1>b
<1>9. CASE
       WorkerSend \/ WorkerReply \/ Untrack \/ RestoreLoad \/ RestoreStore \/
       RestoreLoadSize \/ RestoreStoreSize \/ Serve \/ UNCHANGED vars
  <2>1. status' = status /\ semaphore' = semaphore
    BY <1>9 DEF
         WorkerSend, WorkerReply, Untrack, RestoreLoad, RestoreStore,
         RestoreLoadSize, RestoreStoreSize, Serve
  <2>2. (wpc' = "resolve") <=> (wpc = "resolve")
    BY <1>9 DEF
         WorkerSend, WorkerReply, Untrack, RestoreLoad, RestoreStore,
         RestoreLoadSize, RestoreStoreSize, Serve, OnFailure
  <2>3. (pc' = "capture") <=> (pc = "capture")
    BY <1>9 DEF
         WorkerSend, WorkerReply, Untrack, RestoreLoad, RestoreStore,
         RestoreLoadSize, RestoreStoreSize, Serve
  <2>4. Holders' = Holders
    BY <2>1, <2>2 DEF Holders, HoldsPermit
  <2>. QED
    BY <2>1, <2>3, <2>4, <1>a, <1>b
<1>. QED
  BY <1>1, <1>2, <1>3, <1>4, <1>5, <1>6, <1>7, <1>8, <1>9
  DEF Next, CallerCalls, CallerContinues, WorkerSteps

LEMMA EmptyInSeq == <<>> \in Seq(Nat)
OBVIOUS

LEMMA InitIInv == Init => IInv
<1> SUFFICES ASSUME Init PROVE IInv
  OBVIOUS
<1> USE BoundsAssumption DEF BoundsAssumption, Init, Flushes
<1>1. TypeInv
  <2>1. CallerTypes
    <3>1. error \in BOOLEAN
      BY Zenon
    <3>2. pc = "idle" /\ op = "none" /\ result = "none" /\ left = 0 /\ loadedSize = 0
          /\ fetchedOffset = 0
      BY Zenon
    <3>. QED
      BY <3>1, <3>2 DEF CallerTypes, FlushingCalls
  <2>2. CacheTypes
    <3>1. closed \in BOOLEAN
      BY Zenon
    <3>2. cachedBatches \in Seq(Nat)
      <4>1. cachedBatches = <<>>
        BY Zenon
      <4>. QED
        BY <4>1, EmptyInSeq
    <3>3. cachedSize \in Nat /\ rowOffset \in Nat /\ semaphore \in Nat
      OBVIOUS
    <3>. QED
      BY <3>1, <3>2, <3>3 DEF CacheTypes
  <2>3. FutureTypes
    <3>1. Empty \in [batches : Seq(Nat), size : Nat]
      BY DEF Empty
    <3>2. captured \in [Flushes -> [batches : Seq(Nat), size : Nat]]
      BY <3>1
    <3>3. status \in [Flushes -> {"none", "captured", "queued", "running", "done", "failed"}]
      OBVIOUS
    <3>4. pendingFlush \in BOOLEAN
      BY Zenon
    <3>5. pendingFutures = {} /\ awaited = {} /\ flushes = 0
      BY Zenon
    <3>. QED
      BY <3>2, <3>3, <3>4, <3>5 DEF FutureTypes
  <2>4. WorkerTypes
    <3>1. workerBatches \in Seq(Nat)
      <4>1. workerBatches = <<>>
        BY Zenon
      <4>. QED
        BY <4>1, EmptyInSeq
    <3>2. wpc = "idle" /\ task = 0 /\ outcome = "done" /\ workerSize = 0
      BY Zenon
    <3>. QED
      BY <3>1, <3>2 DEF WorkerTypes
  <2>5. ServiceTypes
    <3>1. NoCall \in [stage : {"none", "sent", "acked", "refused"}, offset : Nat]
      BY DEF NoCall
    <3>2. streamClosed \in BOOLEAN
      BY Zenon
    <3>3. delivered \in Seq(Nat)
      <4>1. delivered = <<>>
        BY Zenon
      <4>. QED
        BY <4>1, EmptyInSeq
    <3>4. rpc \in [Threads -> [stage : {"none", "sent", "acked", "refused"}, offset : Nat]]
      BY <3>1
    <3>. QED
      BY <3>2, <3>3, <3>4 DEF ServiceTypes
  <2>6. HistoryTypes
    <3>1. offsetMoved \in BOOLEAN
      BY Zenon
    <3>2. accepted = 0 /\ raced = {} /\ repeatable = {} /\ reported = {}
      BY Zenon
    <3>. QED
      BY <3>1, <3>2 DEF HistoryTypes
  <2>. QED
    BY <2>1, <2>2, <2>3, <2>4, <2>5, <2>6 DEF TypeInv
<1>2. CallBounds /\ FlushStates /\ Tracking /\ Quiet /\ ClosedQuiet /\ FailureNotErased
  BY DEF CallBounds, FlushStates, Tracking, Quiet, ClosedQuiet, FailureNotErased, Settled
<1>3. CallsOut
  BY DEF CallsOut, NoCall, Threads
<1>4. PermitsBalance
  <2>1. Holders = {}
    BY DEF Holders, HoldsPermit
  <2>. QED
    BY <2>1, FS_EmptySet DEF PermitsBalance
<1>. QED
  BY <1>1, <1>2, <1>3, <1>4 DEF IInv

LEMMA NextIInv == IInv /\ [Next]_vars => IInv'
<1> SUFFICES ASSUME IInv, [Next]_vars PROVE IInv'
  OBVIOUS
<1>1. TypeInv'
  BY CallerTypesStep, CacheTypesStep, FutureTypesStep, WorkerTypesStep,
     ServiceTypesStep, HistoryTypesStep DEF IInv, TypeInv
<1>2. CallBounds'
  BY CallBoundsStep DEF IInv, TypeInv
<1>. QED
  BY <1>1, <1>2, FlushStatesStep, TrackingStep, QuietStep, CallsOutStep,
     ClosedQuietStep, FailureNotErasedStep, PermitsBalanceStep DEF IInv

LEMMA Invariance == Spec => []IInv
BY InitIInv, NextIInv, PTL DEF Spec

-----------------------------------------------------------------------------
(* Every variable keeps its type, and the semaphore of flush_async never    *)
(* holds more than max_pending_buffers permits.                             *)
THEOREM TypeCorrect == Spec => []TypeOK
<1>1. IInv => TypeOK
  <2> SUFFICES ASSUME IInv PROVE TypeOK
    OBVIOUS
  <2>1. Cardinality(Holders) \in Nat
    BY HoldersFinite
  <2>2. semaphore <= MaxPendingBuffers
    BY <2>1, BoundsAssumption
    DEF BoundsAssumption, IInv, TypeInv, CacheTypes, PermitsBalance
  <2>. QED
    BY <2>2 DEF TypeOK, IInv
<1>. QED
  BY <1>1, Invariance, PTL

(* Permits and detached buffers balance, whatever fails: the buffers taken  *)
(* out of the cache by flush_async are never more than max_pending_buffers. *)
THEOREM PermitsAlwaysBalance == Spec => []PermitsBalance
<1>1. IInv => PermitsBalance
  BY DEF IInv
<1>. QED
  BY <1>1, Invariance, PTL

(* A synchronous flush never has its write_table call out together with the *)
(* worker's.                                                                *)
THEOREM WritesExclude == Spec => []OneWriteInFlight
<1>1. IInv => OneWriteInFlight
  <2> SUFFICES ASSUME IInv,
                      rpc["caller"].stage # "none", rpc["worker"].stage # "none"
               PROVE  FALSE
    BY DEF OneWriteInFlight
  <2>1. pc = "flush_reply" /\ wpc = "reply"
    BY DEF IInv, CallsOut
  <2>2. task \in Flushes /\ status[task] = "running"
    BY <2>1, TaskInRange DEF IInv, FlushStates
  <2>3. task \notin pendingFutures \cup awaited
    BY <2>1 DEF IInv, Quiet, Settled
  <2>. QED
    BY <2>1, <2>2, <2>3 DEF IInv, Tracking, Submitting
<1>. QED
  BY <1>1, Invariance, PTL

(* The failure of an asynchronous flush is never forgotten.                 *)
THEOREM FailuresKept == Spec => []FailureNotErased
<1>1. IInv => FailureNotErased
  BY DEF IInv
<1>. QED
  BY <1>1, Invariance, PTL

(* After closeWriteStream has run the service applies nothing more.         *)
THEOREM CloseIsFinal == Spec => NoWriteAfterClose
<1>1. IInv /\ [Next]_vars => [streamClosed => UNCHANGED delivered]_vars
  <2> SUFFICES ASSUME IInv, [Next]_vars, streamClosed PROVE UNCHANGED delivered
    OBVIOUS
  <2>1. rpc["caller"].stage = "none"
    BY DEF IInv, CallsOut, ClosedQuiet
  <2>2. rpc["worker"].stage = "none"
    <3> SUFFICES ASSUME rpc["worker"].stage # "none" PROVE FALSE
      OBVIOUS
    <3>1. wpc = "reply"
      BY DEF IInv, CallsOut
    <3>2. task \in Flushes /\ status[task] = "running"
      BY <3>1, TaskInRange DEF IInv, FlushStates
    <3>. QED
      BY <3>1, <3>2 DEF IInv, ClosedQuiet
  <2>3. ~Serve
    BY <2>1, <2>2 DEF Serve, ServeOk, ServeFailure, Threads
  <2>. QED
    BY <2>3 DEF Next, CallerCalls, CallerContinues, WorkerSteps,
       WriteBatch, CallFlushAsync, CloseAgain, AwaitPendingFlush,
       GetRowOffset, RejectBatch, AppendBatch, LoadSize, StoreSize,
       CheckThreshold, FlushAsync, AcquireSemaphore, CaptureBufferState,
       Submit, AssignFuture, TrackFuture, Awaited, FlushRest, FlushReply,
       ClearBufferState, Flushed, CloseStream, JoinWorker, StoreRowOffset,
       TakeTask, WorkerSend, WorkerReply, Untrack, RestoreLoad, RestoreStore,
       RestoreLoadSize, RestoreStoreSize, ReleaseSemaphore, ResolveFuture
<1>. QED
  BY <1>1, Invariance, PTL DEF Spec, NoWriteAfterClose

-----------------------------------------------------------------------------
(* The offset of the next write.                                           *)

\* An answer not yet stored holds the number of rows the service is at.
AckedOffset ==
  \A t \in Threads : rpc[t].stage = "acked" => rpc[t].offset = Len(delivered)

\* With no answer to store, and nobody having moved it, so does _row_offset.
RestingOffset ==
  ~offsetMoved /\ (\A t \in Threads : rpc[t].stage # "acked") => rowOffset = Len(delivered)

OffsetInv == AckedOffset /\ RestingOffset /\ OffsetInStep

\* An idle worker, and a caller past its wait, have no call of the worker out.
LEMMA WorkerSilent ==
  ASSUME IInv, wpc # "reply" \/ pc \in Settled
  PROVE  rpc["worker"].stage = "none"
<1> SUFFICES ASSUME rpc["worker"].stage # "none" PROVE FALSE
  OBVIOUS
<1>1. wpc = "reply" /\ pc \in Settled
  BY DEF IInv, CallsOut
<1>2. task \in Flushes /\ status[task] = "running"
  BY <1>1, TaskInRange DEF IInv, FlushStates
<1>3. task \notin pendingFutures \cup awaited
  BY <1>1 DEF IInv, Quiet, Settled
<1>. QED
  BY <1>1, <1>2, <1>3 DEF IInv, Tracking, Submitting, Settled

LEMMA OneOut == IInv => OneWriteInFlight
<1> SUFFICES ASSUME IInv, rpc["caller"].stage # "none" PROVE rpc["worker"].stage = "none"
  BY DEF OneWriteInFlight
<1>. QED
  BY WorkerSilent DEF IInv, CallsOut, Settled

LEMMA OffsetServe ==
  ASSUME IInv, OffsetInv, Serve
  PROVE  OffsetInv'
<1> USE DEF Threads
<1>1. PICK t \in Threads : ServeOk(t) \/ ServeFailure(t)
  BY DEF Serve
<1>2. rpc[t].stage = "sent"
  BY <1>1 DEF ServeOk, ServeFailure
<1>3. PICK u \in Threads : u # t /\ Threads = {t, u}
  OBVIOUS
<1>4. rpc[u].stage = "none"
  BY <1>2, <1>3, OneOut DEF OneWriteInFlight
<1>5. rpc \in [Threads -> [stage : {"none", "sent", "acked", "refused"}, offset : Nat]]
  BY DEF IInv, TypeInv, ServiceTypes
<1>6. UNCHANGED rowOffset
  BY DEF Serve
<1>7. CASE ServeOk(t)
  <2>1. rpc' = [rpc EXCEPT ![t] = [stage |-> "acked", offset |-> Len(delivered')]]
    BY <1>7 DEF ServeOk
  <2>2. rpc'[t] = [stage |-> "acked", offset |-> Len(delivered')] /\ rpc'[u] = rpc[u]
    BY <2>1, <1>5, <1>3
  <2>3. AckedOffset' /\ RestingOffset' /\ OffsetInStep'
    BY <2>2, <1>3, <1>4 DEF AckedOffset, RestingOffset, OffsetInStep
  <2>. QED BY <2>3 DEF OffsetInv
<1>8. CASE ServeFailure(t) /\ offsetMoved' = TRUE
  <2>1. rpc' = [rpc EXCEPT ![t] = [stage |-> "refused", offset |-> 0]] \/ rpc' = rpc
    BY <1>8, Zenon DEF ServeFailure
  <2>2. rpc'[t].stage # "acked" /\ rpc'[u].stage # "acked"
    BY <2>1, <1>2, <1>3, <1>4, <1>5
  <2>3. AckedOffset' /\ RestingOffset' /\ OffsetInStep'
    BY <2>2, <1>3, <1>8 DEF AckedOffset, RestingOffset, OffsetInStep
  <2>. QED BY <2>3 DEF OffsetInv
<1>9. CASE ServeFailure(t) /\ ~(offsetMoved' = TRUE)
  <2>1. rpc' = [rpc EXCEPT ![t] = [stage |-> "refused", offset |-> 0]]
        /\ UNCHANGED <<delivered, offsetMoved>>
    BY <1>9, Zenon DEF ServeFailure
  <2>2. rpc'[t].stage = "refused" /\ rpc'[u] = rpc[u]
    BY <2>1, <1>3, <1>5
  <2>3. AckedOffset' /\ RestingOffset' /\ OffsetInStep'
    BY <2>1, <2>2, <1>2, <1>3, <1>4, <1>6 DEF OffsetInv, AckedOffset, RestingOffset, OffsetInStep
  <2>. QED BY <2>3 DEF OffsetInv
<1>. QED
  BY <1>1, <1>7, <1>8, <1>9

\* Thread t stores the offset of the answer it waited for.
LEMMA OffsetStored ==
  ASSUME IInv, OffsetInv, NEW t \in Threads, StoreResponse(t),
         UNCHANGED delivered, offsetMoved' = FALSE
  PROVE  OffsetInv'
<1> USE DEF Threads
<1>1. PICK u \in Threads : u # t /\ Threads = {t, u}
  OBVIOUS
<1>2. rpc[u].stage = "none"
  BY <1>1, OneOut DEF OneWriteInFlight, StoreResponse
<1>3. rpc \in [Threads -> [stage : {"none", "sent", "acked", "refused"}, offset : Nat]]
  BY DEF IInv, TypeInv, ServiceTypes
<1>4. rpc'[t].stage = "none" /\ rpc'[u].stage = "none"
  BY <1>1, <1>2, <1>3 DEF StoreResponse, NoCall
<1>5. rowOffset' = Len(delivered')
  BY DEF StoreResponse, ReturnedOffset, OffsetInv, AckedOffset
<1>. QED
  BY <1>1, <1>4, <1>5 DEF OffsetInv, AckedOffset, RestingOffset, OffsetInStep

LEMMA OffsetRaised ==
  ASSUME IInv, OffsetInv, NEW t \in Threads, RaiseResponse(t),
         UNCHANGED <<delivered, rowOffset, offsetMoved>>
  PROVE  OffsetInv'
<1> USE DEF Threads
<1>1. PICK u \in Threads : u # t /\ Threads = {t, u}
  OBVIOUS
<1>2. rpc[u].stage = "none"
  BY <1>1, OneOut DEF OneWriteInFlight, RaiseResponse
<1>3. rpc \in [Threads -> [stage : {"none", "sent", "acked", "refused"}, offset : Nat]]
  BY DEF IInv, TypeInv, ServiceTypes
<1>4. rpc'[t].stage = "none" /\ rpc'[u].stage = "none"
  BY <1>1, <1>2, <1>3 DEF RaiseResponse, NoCall
<1>5. ~offsetMoved' => rowOffset' = Len(delivered')
  BY <1>1, <1>2 DEF RaiseResponse, OffsetInv, RestingOffset
<1>. QED
  BY <1>1, <1>4, <1>5 DEF OffsetInv, AckedOffset, RestingOffset, OffsetInStep

\* Thread t sends a write while no answer is out.
LEMMA OffsetSent ==
  ASSUME IInv, OffsetInv, NEW t \in Threads, SendWrite(t),
         \A u \in Threads : rpc[u].stage = "none",
         UNCHANGED <<delivered, rowOffset, offsetMoved>>
  PROVE  OffsetInv'
<1>1. rpc \in [Threads -> [stage : {"none", "sent", "acked", "refused"}, offset : Nat]]
  BY DEF IInv, TypeInv, ServiceTypes
<1>2. \A u \in Threads : rpc'[u].stage # "acked"
  BY <1>1 DEF SendWrite
<1>3. ~offsetMoved => rowOffset = Len(delivered)
  BY DEF OffsetInv, RestingOffset
<1>4. \A u \in Threads : rpc'[u].stage = "sent" => rpc'[u].offset = rowOffset
  BY <1>1 DEF SendWrite
<1>. QED
  BY <1>2, <1>3, <1>4 DEF OffsetInv, AckedOffset, RestingOffset, OffsetInStep

\* The caller sets the offset while no call is out.
LEMMA OffsetSet ==
  ASSUME IInv, OffsetInv, pc = "flushed" \/ (pc = "store_offset" /\ wpc = "idle"),
         UNCHANGED <<delivered, rpc>>, ~offsetMoved' => rowOffset' = Len(delivered)
  PROVE  OffsetInv'
<1>1. rpc["worker"].stage = "none"
  BY WorkerSilent DEF Settled
<1>2. rpc["caller"].stage = "none"
  BY DEF IInv, CallsOut
<1>. QED
  BY <1>1, <1>2 DEF OffsetInv, AckedOffset, RestingOffset, OffsetInStep, Threads

LEMMA OffsetStep ==
  ASSUME IInv, OffsetInv, [Next]_vars
  PROVE  OffsetInv'
<1> USE DEF Threads
<1>1. CASE Serve
  BY <1>1, OffsetServe
<1>2. CASE FlushRest
  <2>1. CASE UNCHANGED rpc
    BY <1>2, <2>1 DEF FlushRest, OffsetInv, AckedOffset, RestingOffset, OffsetInStep
  <2>2. CASE SendWrite("caller")
    <3>1. \A u \in Threads : rpc[u].stage = "none"
      BY <1>2, WorkerSilent DEF IInv, CallsOut, FlushRest, Settled
    <3>. QED BY <1>2, <2>2, <3>1, OffsetSent DEF FlushRest
  <2>. QED BY <1>2, <2>1, <2>2 DEF FlushRest
<1>3. CASE FlushReply
  <2>1. CASE StoreResponse("caller") /\ offsetMoved' = FALSE
    BY <1>3, <2>1, OffsetStored DEF FlushReply
  <2>2. CASE RaiseResponse("caller") /\ UNCHANGED <<rowOffset, offsetMoved>>
    BY <1>3, <2>2, OffsetRaised DEF FlushReply
  <2>. QED BY <1>3, <2>1, <2>2, Zenon DEF FlushReply
<1>4. CASE WorkerReply
  <2>1. CASE StoreResponse("worker") /\ offsetMoved' = FALSE
    BY <1>4, <2>1, OffsetStored DEF WorkerReply
  <2>2. CASE RaiseResponse("worker") /\ UNCHANGED <<rowOffset, offsetMoved>>
    BY <1>4, <2>2, OffsetRaised DEF WorkerReply
  <2>. QED BY <1>4, <2>1, <2>2, Zenon DEF WorkerReply
<1>5. CASE WorkerSend
  <2>1. \A u \in Threads : rpc[u].stage = "none"
    <3>1. wpc = "send" /\ task \in Flushes /\ status[task] = "running"
      BY <1>5, TaskInRange DEF WorkerSend, IInv, FlushStates
    <3>2. rpc["worker"].stage = "none"
      BY <3>1, WorkerSilent
    <3>3. rpc["caller"].stage = "none"
      <4> SUFFICES ASSUME rpc["caller"].stage # "none" PROVE FALSE
        OBVIOUS
      <4>1. pc = "flush_reply"
        BY DEF IInv, CallsOut
      <4>2. task \notin pendingFutures \cup awaited
        BY <4>1 DEF IInv, Quiet, Settled
      <4>. QED BY <3>1, <4>1, <4>2 DEF IInv, Tracking, Submitting
    <3>. QED BY <3>2, <3>3
  <2>. QED BY <1>5, <2>1, OffsetSent DEF WorkerSend
<1>6. CASE Flushed
  <2>1. pc = "flushed" /\ UNCHANGED <<delivered, rpc>>
    BY <1>6 DEF Flushed
  <2>2. CASE UNCHANGED <<rowOffset, offsetMoved>>
    BY <2>1, <2>2 DEF OffsetInv, AckedOffset, RestingOffset, OffsetInStep
  <2>3. CASE offsetMoved' = (rowOffset' # Len(delivered))
    BY <2>1, <2>3, OffsetSet
  <2>. QED BY <1>6, <2>2, <2>3, Zenon DEF Flushed
<1>7. CASE StoreRowOffset
  <2>1. pc = "store_offset" /\ UNCHANGED <<delivered, rpc>>
    BY <1>7 DEF StoreRowOffset
  <2>2. rowOffset' = fetchedOffset
        /\ offsetMoved' = (fetchedOffset # Len(delivered) \/ wpc # "idle")
    BY <1>7 DEF StoreRowOffset
  <2>3. CASE wpc = "idle"
    BY <2>1, <2>2, <2>3, OffsetSet
  <2>4. CASE wpc # "idle"
    <3>1. offsetMoved' = TRUE
      BY <2>2, <2>4
    <3>. QED BY <2>1, <3>1 DEF OffsetInv, AckedOffset, RestingOffset, OffsetInStep
  <2>. QED BY <2>3, <2>4
<1>8. CASE UNCHANGED <<delivered, rpc, rowOffset, offsetMoved>>
  BY <1>8 DEF OffsetInv, AckedOffset, RestingOffset, OffsetInStep
<1>. QED
  <2>1. CASE
         WriteBatch \/ CallFlushAsync \/ CloseAgain \/ AwaitPendingFlush \/
         GetRowOffset \/ RejectBatch \/ AppendBatch \/ LoadSize \/ StoreSize \/
         CheckThreshold \/ FlushAsync \/ AcquireSemaphore \/ CaptureBufferState \/
         Submit \/ AssignFuture \/ TrackFuture \/ Awaited \/ ClearBufferState \/
         CloseStream \/ JoinWorker \/ TakeTask \/ Untrack \/ RestoreLoad \/
         RestoreStore \/ RestoreLoadSize \/ RestoreStoreSize \/ ReleaseSemaphore \/
         ResolveFuture \/ UNCHANGED vars
    BY <1>8, <2>1 DEF
         WriteBatch, CallFlushAsync, CloseAgain, AwaitPendingFlush, GetRowOffset,
         RejectBatch, AppendBatch, LoadSize, StoreSize, CheckThreshold, FlushAsync,
         AcquireSemaphore, CaptureBufferState, Submit, AssignFuture, TrackFuture,
         Awaited, ClearBufferState, CloseStream, JoinWorker, TakeTask, Untrack,
         RestoreLoad, RestoreStore, RestoreLoadSize, RestoreStoreSize,
         ReleaseSemaphore, ResolveFuture, SurfaceFailedFutures
  <2>. QED
    BY <1>1, <1>2, <1>3, <1>4, <1>5, <1>6, <1>7, <2>1
    DEF Next, CallerCalls, CallerContinues, WorkerSteps

(* Every write carries the row offset the service is at, unless an answer   *)
(* was lost or the caller moved the offset.                                 *)
THEOREM OffsetsInStep == Spec => []OffsetInStep
<1>1. Init => OffsetInv
  BY DEF Init, NoCall, OffsetInv, AckedOffset, RestingOffset, OffsetInStep
<1>2. IInv /\ OffsetInv /\ [Next]_vars => OffsetInv'
  BY OffsetStep
<1>3. OffsetInv => OffsetInStep
  BY DEF OffsetInv
<1>. QED
  BY <1>1, <1>2, <1>3, Invariance, PTL DEF Spec

-----------------------------------------------------------------------------
(* How often a row occurs in a sequence.                                   *)

Where(b, s) == {i \in DOMAIN s : s[i] = b}

LEMMA WhereFinite ==
  ASSUME NEW S, NEW s \in Seq(S), NEW b
  PROVE  /\ IsFiniteSet(Where(b, s))
         /\ Count(b, s) \in Nat
         /\ Count(b, s) = 0 <=> b \notin Range(s)
<1>1. IsFiniteSet(DOMAIN s) /\ Where(b, s) \in SUBSET DOMAIN s
  BY FS_Interval DEF Where
<1>2. IsFiniteSet(Where(b, s))
  BY <1>1, FS_Subset
<1>3. Count(b, s) = Cardinality(Where(b, s))
  BY DEF Count, Where
<1>4. Where(b, s) = {} <=> b \notin Range(s)
  BY DEF Where, Range
<1>. QED
  BY <1>2, <1>3, <1>4, FS_EmptySet, FS_CardinalityType

LEMMA CountConcat ==
  ASSUME NEW S, NEW s \in Seq(S), NEW t \in Seq(S), NEW b
  PROVE  Count(b, s \o t) = Count(b, s) + Count(b, t)
<1> DEFINE shifted == {i + Len(s) : i \in Where(b, t)}
           f == [i \in Where(b, t) |-> i + Len(s)]
<1>1. IsFiniteSet(Where(b, s)) /\ IsFiniteSet(Where(b, t))
  BY WhereFinite
<1>2. Where(b, t) \subseteq 1..Len(t) /\ Where(b, s) \subseteq 1..Len(s)
      /\ Len(s) \in Nat /\ Len(t) \in Nat
  BY DEF Where
<1>3. f \in Bijection(Where(b, t), shifted)
  <2>1. f \in [Where(b, t) -> shifted]
    OBVIOUS
  <2>2. \A i, j \in Where(b, t) : f[i] = f[j] => i = j
    BY <1>2
  <2>3. \A k \in shifted : \E i \in Where(b, t) : f[i] = k
    OBVIOUS
  <2>. QED BY <2>1, <2>2, <2>3 DEF Bijection, Injection, IsInjective, Surjection
<1>4. IsFiniteSet(shifted) /\ Cardinality(shifted) = Cardinality(Where(b, t))
  BY <1>1, <1>3, FS_Bijection DEF ExistsBijection
<1>5. Where(b, s) \cap shifted = {}
  BY <1>2
<1>6. Where(b, s \o t) = Where(b, s) \cup shifted
  <2>1. DOMAIN (s \o t) = 1..(Len(s) + Len(t))
    OBVIOUS
  <2>2. \A i \in 1..Len(s) : (s \o t)[i] = s[i]
    OBVIOUS
  <2>3. \A i \in 1..Len(t) : (s \o t)[i + Len(s)] = t[i]
    OBVIOUS
  <2>4. \A k \in Where(b, s \o t) : k \in Where(b, s) \cup shifted
    <3> SUFFICES ASSUME NEW k \in Where(b, s \o t) PROVE k \in Where(b, s) \cup shifted
      OBVIOUS
    <3>1. k \in 1..(Len(s) + Len(t)) /\ (s \o t)[k] = b
      BY <2>1 DEF Where
    <3>2. CASE k <= Len(s)
      BY <1>2, <2>2, <3>1, <3>2 DEF Where
    <3>3. CASE k > Len(s)
      <4>1. k - Len(s) \in 1..Len(t) /\ k = (k - Len(s)) + Len(s)
        BY <1>2, <3>1, <3>3
      <4>2. t[k - Len(s)] = b
        BY <2>3, <3>1, <4>1
      <4>. QED BY <4>1, <4>2 DEF Where
    <3>. QED BY <1>2, <3>1, <3>2, <3>3
  <2>5. \A k \in Where(b, s) \cup shifted : k \in Where(b, s \o t)
    <3>1. \A k \in Where(b, s) : k \in Where(b, s \o t)
      BY <1>2, <2>1, <2>2 DEF Where
    <3>2. \A i \in Where(b, t) : i + Len(s) \in Where(b, s \o t)
      BY <1>2, <2>1, <2>3 DEF Where
    <3>. QED BY <3>1, <3>2
  <2>. QED BY <2>4, <2>5
<1> HIDE DEF shifted
<1>7. Cardinality(Where(b, s \o t)) = Cardinality(Where(b, s)) + Cardinality(shifted)
  <2>1. Cardinality(Where(b, s) \cup shifted)
          = Cardinality(Where(b, s)) + Cardinality(shifted) - Cardinality(Where(b, s) \cap shifted)
    BY <1>1, <1>4, FS_Union
  <2>2. Cardinality(Where(b, s) \cap shifted) = 0
    BY <1>5, FS_EmptySet
  <2>3. Cardinality(Where(b, s)) \in Nat /\ Cardinality(shifted) \in Nat
    BY <1>1, <1>4, FS_CardinalityType
  <2>. QED BY <1>6, <2>1, <2>2, <2>3
<1>. QED
  BY <1>4, <1>7 DEF Count, Where

LEMMA CountAppend ==
  ASSUME NEW S, NEW s \in Seq(S), NEW x \in S, NEW b
  PROVE  Count(b, Append(s, x)) = Count(b, s) + (IF x = b THEN 1 ELSE 0)
<1>1. Append(s, x) = s \o <<x>>
  OBVIOUS
<1>2. Count(b, <<x>>) = IF x = b THEN 1 ELSE 0
  <2>1. {i \in DOMAIN <<x>> : <<x>>[i] = b} = IF x = b THEN {1} ELSE {}
    OBVIOUS
  <2>. QED BY <2>1, FS_EmptySet, FS_Singleton DEF Count
<1>3. <<x>> \in Seq(S)
  OBVIOUS
<1>. QED
  BY <1>1, <1>2, <1>3, CountConcat

LEMMA CountEmpty == \A b : Count(b, <<>>) = 0
<1>1. \A b : {i \in DOMAIN <<>> : <<>>[i] = b} = {}
  OBVIOUS
<1>. QED
  BY <1>1, FS_EmptySet DEF Count

-----------------------------------------------------------------------------
(* Where the rows are.                                                     *)

\* No sequence of rows holds one that was not accepted.
Known ==
  /\ delivered \in Seq(1..accepted)
  /\ cachedBatches \in Seq(1..accepted)
  /\ workerBatches \in Seq(1..accepted)
  /\ \A f \in Flushes : captured[f].batches \in Seq(1..accepted)

Exempt(b) == b \in raced \cup repeatable

\* A detached buffer holds a row once.
CapturedOnce ==
  \A f \in Flushes, b \in 1..accepted : Exempt(b) \/ Count(b, captured[f].batches) <= 1

\* Until the worker stores the cache it has read, no other row moves in it.
RestoredCache ==
  wpc = "restore_store" =>
    \A b \in 1..accepted : Exempt(b) \/ Count(b, workerBatches) = Count(b, cachedBatches)

RowInv == Known /\ CapturedOnce /\ RestoredCache /\ RowsConserved

LEMMA SettledWorker ==
  ASSUME IInv, pc \in Settled
  PROVE  wpc \in {"idle", "release", "resolve"}
<1> SUFFICES ASSUME wpc # "idle" PROVE wpc \in {"release", "resolve"}
  OBVIOUS
<1>1. task \in Flushes /\ status[task] = "running"
  BY TaskInRange DEF IInv, FlushStates
<1>2. task \notin pendingFutures \cup awaited
  BY DEF IInv, Quiet, Settled
<1>. QED
  BY <1>1, <1>2 DEF IInv, Tracking, Submitting, Settled

LEMMA RunningTask ==
  ASSUME IInv, wpc # "idle"
  PROVE  /\ task \in Flushes
         /\ \A f \in Flushes : status[f] = "running" <=> f = task
BY TaskInRange DEF IInv, FlushStates

LEMMA SeqMonotone ==
  ASSUME NEW m \in Nat, NEW n \in Nat, m <= n, NEW s \in Seq(1..m)
  PROVE  s \in Seq(1..n)
OBVIOUS

\* What the steps do to the rows, in one place.
LEMMA HistoryGrows ==
  ASSUME IInv, [Next]_vars
  PROVE  /\ raced \subseteq raced' /\ repeatable \subseteq repeatable'
         /\ accepted \in Nat /\ accepted' \in Nat
         /\ AppendBatch \/ accepted' = accepted
         /\ accepted <= accepted'
<1>0. accepted \in Nat
  BY DEF IInv, TypeInv, HistoryTypes
<1>1. CASE AppendBatch
  BY <1>0, <1>1 DEF AppendBatch
<1>2. CASE Serve
  <2>1. PICK t \in Threads : ServeOk(t) \/ ServeFailure(t)
    BY <1>2 DEF Serve
  <2>2. repeatable \subseteq repeatable'
    BY <2>1, Zenon DEF ServeOk, ServeFailure
  <2>. QED BY <1>0, <1>2, <2>2 DEF Serve
<1>3. CASE Untrack
  BY <1>0, <1>3 DEF Untrack
<1>4. CASE
       WriteBatch \/ CallFlushAsync \/ CloseAgain \/ AwaitPendingFlush \/
       GetRowOffset \/ RejectBatch \/ LoadSize \/ StoreSize \/
       CheckThreshold \/ FlushAsync \/ AcquireSemaphore \/ CaptureBufferState \/
       Submit \/ AssignFuture \/ TrackFuture \/ Awaited \/ FlushRest \/
       FlushReply \/ ClearBufferState \/ Flushed \/ CloseStream \/ JoinWorker \/
       StoreRowOffset \/ TakeTask \/ WorkerSend \/ WorkerReply \/ RestoreLoad \/
       RestoreStore \/ RestoreLoadSize \/ RestoreStoreSize \/ ReleaseSemaphore \/
       ResolveFuture \/ UNCHANGED vars
  BY <1>0, <1>4 DEF
       WriteBatch, CallFlushAsync, CloseAgain, AwaitPendingFlush, GetRowOffset,
       RejectBatch, LoadSize, StoreSize, CheckThreshold, FlushAsync,
       AcquireSemaphore, CaptureBufferState, Submit, AssignFuture, TrackFuture,
       Awaited, FlushRest, FlushReply, ClearBufferState, Flushed, CloseStream,
       JoinWorker, StoreRowOffset, TakeTask, WorkerSend, WorkerReply, RestoreLoad,
       RestoreStore, RestoreLoadSize, RestoreStoreSize, ReleaseSemaphore,
       ResolveFuture, SurfaceFailedFutures
<1>. QED
  BY <1>1, <1>2, <1>3, <1>4 DEF Next, CallerCalls, CallerContinues, WorkerSteps

LEMMA KnownPayload ==
  ASSUME IInv, Known, NEW t \in Threads, rpc[t].stage = "sent"
  PROVE  Payload(t).batches \in Seq(1..accepted)
<1>1. CASE t = "worker"
  BY <1>1, RunningTask DEF Payload, CallsOut, IInv, Known
<1>2. CASE t = "caller"
  BY <1>2 DEF Payload, Known
<1>. QED
  BY <1>1, <1>2 DEF Threads

LEMMA KnownStep ==
  ASSUME IInv, Known, [Next]_vars
  PROVE  Known'
<1>1. accepted \in Nat /\ accepted' \in Nat /\ accepted <= accepted'
  BY HistoryGrows
<1>2. CASE AppendBatch
  <2>1. accepted' \in 1..accepted'
    BY <1>1, <1>2 DEF AppendBatch
  <2>2. cachedBatches \in Seq(1..accepted')
    BY <1>1, SeqMonotone DEF Known
  <2>3. cachedBatches' \in Seq(1..accepted')
    BY <1>2, <2>1, <2>2 DEF AppendBatch
  <2>4. UNCHANGED <<delivered, workerBatches, captured>>
    BY <1>2 DEF AppendBatch
  <2>5. delivered' \in Seq(1..accepted') /\ workerBatches' \in Seq(1..accepted')
    BY <1>1, <2>4, SeqMonotone DEF Known
  <2>6. \A f \in Flushes : captured'[f].batches \in Seq(1..accepted')
    BY <1>1, <2>4, SeqMonotone DEF Known
  <2>. QED BY <2>3, <2>5, <2>6 DEF Known
<1>3. CASE Serve
  <2>1. PICK t \in Threads : ServeOk(t) \/ ServeFailure(t)
    BY <1>3 DEF Serve
  <2>2. Payload(t).batches \in Seq(1..accepted)
    BY <2>1, KnownPayload DEF ServeOk, ServeFailure
  <2>3. delivered' = delivered \/ delivered' = delivered \o Payload(t).batches
    BY <2>1, Zenon DEF ServeOk, ServeFailure, Apply
  <2>a. delivered \in Seq(1..accepted) /\ delivered \o Payload(t).batches \in Seq(1..accepted)
    BY <2>2 DEF Known
  <2>4. delivered' \in Seq(1..accepted)
    BY <2>3, <2>a
  <2>5. UNCHANGED <<accepted, cachedBatches, workerBatches, captured>>
    BY <1>3 DEF Serve
  <2>. QED BY <2>4, <2>5 DEF Known
<1>4. CASE CaptureBufferState
  <2>1. captured \in [Flushes -> [batches : Seq(Nat), size : Nat]]
    BY DEF IInv, TypeInv, FutureTypes
  <2>2. captured' = [captured EXCEPT ![flushes'] = [batches |-> cachedBatches, size |-> cachedSize]]
        /\ cachedBatches' = <<>> /\ UNCHANGED <<accepted, delivered, workerBatches>>
    BY <1>4 DEF CaptureBufferState
  <2>3. \A f \in Flushes : captured'[f].batches \in Seq(1..accepted')
    BY <2>1, <2>2 DEF Known
  <2>4. <<>> \in Seq(1..accepted')
    OBVIOUS
  <2>. QED BY <2>2, <2>3, <2>4 DEF Known
<1>5. CASE ResolveFuture
  <2>1. captured \in [Flushes -> [batches : Seq(Nat), size : Nat]]
    BY DEF IInv, TypeInv, FutureTypes
  <2>2. captured' = [captured EXCEPT ![task] = Empty]
        /\ UNCHANGED <<accepted, delivered, cachedBatches, workerBatches>>
    BY <1>5 DEF ResolveFuture
  <2>3. Empty.batches \in Seq(1..accepted)
    BY DEF Empty
  <2>4. \A f \in Flushes : captured'[f].batches \in Seq(1..accepted')
    BY <2>1, <2>2, <2>3 DEF Known
  <2>. QED BY <2>2, <2>4 DEF Known
<1>6. CASE ClearBufferState \/ RestoreLoad
  <2>1. <<>> \in Seq(1..accepted)
    OBVIOUS
  <2>2. (cachedBatches' = <<>> /\ UNCHANGED workerBatches)
        \/ (workerBatches' = cachedBatches /\ UNCHANGED cachedBatches)
    BY <1>6 DEF ClearBufferState, RestoreLoad
  <2>3. UNCHANGED <<accepted, delivered, captured>>
    BY <1>6 DEF ClearBufferState, RestoreLoad
  <2>. QED BY <2>1, <2>2, <2>3 DEF Known
<1>7. CASE RestoreStore
  <2>1. task \in Flushes
    BY <1>7, RunningTask DEF RestoreStore
  <2>2. workerBatches \o captured[task].batches \in Seq(1..accepted)
    BY <2>1 DEF Known
  <2>3. <<>> \in Seq(1..accepted)
    OBVIOUS
  <2>. QED BY <1>7, <2>2, <2>3 DEF RestoreStore, Restored, Known
<1>8. CASE
       WriteBatch \/ CallFlushAsync \/ CloseAgain \/ AwaitPendingFlush \/
       GetRowOffset \/ RejectBatch \/ LoadSize \/ StoreSize \/
       CheckThreshold \/ FlushAsync \/ AcquireSemaphore \/
       Submit \/ AssignFuture \/ TrackFuture \/ Awaited \/ FlushRest \/
       FlushReply \/ Flushed \/ CloseStream \/ JoinWorker \/
       StoreRowOffset \/ TakeTask \/ WorkerSend \/ WorkerReply \/ Untrack \/
       RestoreLoadSize \/ RestoreStoreSize \/ ReleaseSemaphore \/ UNCHANGED vars
  <2>1. UNCHANGED <<accepted, delivered, cachedBatches, workerBatches, captured>>
    BY <1>8 DEF
       WriteBatch, CallFlushAsync, CloseAgain, AwaitPendingFlush, GetRowOffset,
       RejectBatch, LoadSize, StoreSize, CheckThreshold, FlushAsync,
       AcquireSemaphore, Submit, AssignFuture, TrackFuture,
       Awaited, FlushRest, FlushReply, Flushed, CloseStream,
       JoinWorker, StoreRowOffset, TakeTask, WorkerSend, WorkerReply, Untrack,
       RestoreLoadSize, RestoreStoreSize, ReleaseSemaphore, SurfaceFailedFutures
  <2>. QED BY <2>1 DEF Known
<1>. QED
  BY <1>2, <1>3, <1>4, <1>5, <1>6, <1>7, <1>8
  DEF Next, CallerCalls, CallerContinues, WorkerSteps

LEMMA KnownCount ==
  ASSUME Known, accepted \in Nat, NEW b \in 1..accepted
  PROVE  /\ Count(b, delivered) \in Nat /\ Count(b, cachedBatches) \in Nat
         /\ Count(b, workerBatches) \in Nat
         /\ \A f \in Flushes :
              /\ Count(b, captured[f].batches) \in Nat
              /\ Count(b, captured[f].batches) = 0 <=> b \notin Range(captured[f].batches)
         /\ Count(b, cachedBatches) = 0 <=> b \notin Range(cachedBatches)
BY WhereFinite DEF Known

\* A row not accepted yet is nowhere.
LEMMA UnknownCount ==
  ASSUME Known, accepted \in Nat, NEW b \in Nat, b > accepted
  PROVE  /\ Count(b, delivered) = 0 /\ Count(b, cachedBatches) = 0
         /\ \A f \in Flushes : /\ b \notin Range(captured[f].batches)
                               /\ Count(b, captured[f].batches) = 0
<1>1. \A s \in Seq(1..accepted) : b \notin Range(s)
  BY RangeOfSeq
<1>2. \A s \in Seq(1..accepted) : Count(b, s) = 0
  BY <1>1, WhereFinite
<1>. QED
  BY <1>1, <1>2 DEF Known

LEMMA CapturedOnceStep ==
  ASSUME IInv, RowInv, [Next]_vars
  PROVE  CapturedOnce'
<1> SUFFICES ASSUME NEW f \in Flushes, NEW b \in 1..accepted', ~Exempt(b)'
             PROVE  Count(b, captured'[f].batches) <= 1
  BY DEF CapturedOnce
<1>1. accepted \in Nat /\ accepted' \in Nat /\ (AppendBatch \/ accepted' = accepted)
  BY HistoryGrows
<1>2. ~Exempt(b)
  BY HistoryGrows DEF Exempt
<1>3. captured \in [Flushes -> [batches : Seq(Nat), size : Nat]]
  BY DEF IInv, TypeInv, FutureTypes
<1>4. CASE AppendBatch
  <2>1. accepted' = accepted + 1 /\ UNCHANGED captured
    BY <1>4 DEF AppendBatch
  <2>2. CASE b \in 1..accepted
    BY <1>2, <2>1, <2>2 DEF RowInv, CapturedOnce
  <2>3. CASE b = accepted + 1
    BY <1>1, <2>1, <2>3, UnknownCount DEF RowInv
  <2>. QED BY <1>1, <2>1, <2>2, <2>3
<1>5. CASE CaptureBufferState
  <2>1. captured' = [captured EXCEPT ![flushes'] = [batches |-> cachedBatches, size |-> cachedSize]]
        /\ accepted' = accepted /\ pc = "capture"
    BY <1>5 DEF CaptureBufferState
  <2>2. CASE f # flushes'
    BY <1>2, <1>3, <2>1, <2>2 DEF RowInv, CapturedOnce
  <2>3. CASE f = flushes'
    <3>1. captured'[f].batches = cachedBatches
      BY <1>3, <2>1, <2>3
    <3>2. ~Clearing
      BY <2>1 DEF Clearing, IInv, CallsOut
    <3>3. Places(b) = 1
      BY <1>2, <2>1 DEF RowInv, RowsConserved, Exempt
    <3>4. Count(b, delivered) \in Nat /\ Count(b, cachedBatches) \in Nat
      BY <1>1, <2>1, KnownCount DEF RowInv
    <3>5. Cardinality({g \in Flushes : Detached(g) /\ b \in Range(captured[g].batches)}) \in Nat
      <4>1. IsFiniteSet(Flushes)
        BY FS_Interval, BoundsAssumption DEF Flushes, BoundsAssumption
      <4>2. {g \in Flushes : Detached(g) /\ b \in Range(captured[g].batches)} \in SUBSET Flushes
        OBVIOUS
      <4>. QED BY <4>1, <4>2, FS_Subset, FS_CardinalityType
    <3>6. Places(b) = Count(b, delivered) + Count(b, cachedBatches)
            + Cardinality({g \in Flushes : Detached(g) /\ b \in Range(captured[g].batches)})
      BY <3>2 DEF Places
    <3>. QED BY <3>1, <3>3, <3>4, <3>5, <3>6
  <2>. QED BY <2>2, <2>3
<1>6. CASE ResolveFuture
  <2>1. captured' = [captured EXCEPT ![task] = Empty] /\ accepted' = accepted
    BY <1>6 DEF ResolveFuture
  <2>2. CASE f # task
    BY <1>2, <1>3, <2>1, <2>2 DEF RowInv, CapturedOnce
  <2>3. CASE f = task
    <3>1. captured'[f].batches = <<>>
      BY <1>3, <2>1, <2>3 DEF Empty
    <3>. QED BY <3>1, CountEmpty
  <2>. QED BY <2>2, <2>3
<1>7. CASE UNCHANGED <<accepted, captured>>
  BY <1>2, <1>7 DEF RowInv, CapturedOnce
<1>8. CASE
       WriteBatch \/ CallFlushAsync \/ CloseAgain \/ AwaitPendingFlush \/
       GetRowOffset \/ RejectBatch \/ LoadSize \/ StoreSize \/
       CheckThreshold \/ FlushAsync \/ AcquireSemaphore \/
       Submit \/ AssignFuture \/ TrackFuture \/ Awaited \/ FlushRest \/
       FlushReply \/ ClearBufferState \/ Flushed \/ CloseStream \/ JoinWorker \/
       StoreRowOffset \/ TakeTask \/ WorkerSend \/ WorkerReply \/ Untrack \/
       RestoreLoad \/ RestoreStore \/ RestoreLoadSize \/ RestoreStoreSize \/
       ReleaseSemaphore \/ Serve \/ UNCHANGED vars
  <2>1. UNCHANGED <<accepted, captured>>
    BY <1>8 DEF
       WriteBatch, CallFlushAsync, CloseAgain, AwaitPendingFlush, GetRowOffset,
       RejectBatch, LoadSize, StoreSize, CheckThreshold, FlushAsync,
       AcquireSemaphore, Submit, AssignFuture, TrackFuture, ClearBufferState,
       Awaited, FlushRest, FlushReply, Flushed, CloseStream,
       JoinWorker, StoreRowOffset, TakeTask, WorkerSend, WorkerReply, Untrack,
       RestoreLoad, RestoreStore, RestoreLoadSize, RestoreStoreSize,
       ReleaseSemaphore, Serve, SurfaceFailedFutures
  <2>. QED BY <1>7, <2>1
<1>. QED
  BY <1>4, <1>5, <1>6, <1>8 DEF Next, CallerCalls, CallerContinues, WorkerSteps

LEMMA RestoredCacheStep ==
  ASSUME IInv, RowInv, [Next]_vars
  PROVE  RestoredCache'
<1> SUFFICES ASSUME wpc' = "restore_store", NEW b \in 1..accepted', ~Exempt(b)'
             PROVE  Count(b, workerBatches') = Count(b, cachedBatches')
  BY DEF RestoredCache
<1>1. accepted \in Nat /\ accepted' \in Nat /\ (AppendBatch \/ accepted' = accepted)
  BY HistoryGrows
<1>2. ~Exempt(b)
  BY HistoryGrows DEF Exempt
<1>3. CASE RestoreLoad
  BY <1>3 DEF RestoreLoad
<1>4. CASE AppendBatch
  <2>1. /\ wpc = "restore_store" /\ accepted' = accepted + 1
        /\ raced' = raced \cup {accepted'}
        /\ cachedBatches' = Append(cachedBatches, accepted')
        /\ UNCHANGED workerBatches
    BY <1>4 DEF AppendBatch
  <2>2. b # accepted'
    BY <2>1 DEF Exempt
  <2>3. b \in 1..accepted
    BY <1>1, <2>1, <2>2
  <2>4. cachedBatches \in Seq(1..accepted') /\ accepted' \in 1..accepted'
    BY <1>1, <2>1, SeqMonotone DEF RowInv, Known
  <2>5. Count(b, cachedBatches') = Count(b, cachedBatches)
    <3>1. Count(b, Append(cachedBatches, accepted')) = Count(b, cachedBatches) + 0
      BY <2>2, <2>4, CountAppend
    <3>2. Count(b, cachedBatches) \in Nat
      BY <1>1, <2>3, KnownCount DEF RowInv
    <3>. QED BY <2>1, <3>1, <3>2
  <2>. QED BY <1>2, <2>1, <2>3, <2>5 DEF RowInv, RestoredCache
<1>5. CASE CaptureBufferState
  BY <1>5 DEF CaptureBufferState, WorkerLocked
<1>6. CASE ClearBufferState
  BY <1>6, SettledWorker DEF ClearBufferState, Settled
<1>7. CASE wpc = "restore_store" /\ UNCHANGED <<accepted, workerBatches, cachedBatches>>
  BY <1>2, <1>7 DEF RowInv, RestoredCache
<1>8. CASE
       WriteBatch \/ CallFlushAsync \/ CloseAgain \/ AwaitPendingFlush \/
       GetRowOffset \/ RejectBatch \/ LoadSize \/ StoreSize \/
       CheckThreshold \/ FlushAsync \/ AcquireSemaphore \/
       Submit \/ AssignFuture \/ TrackFuture \/ Awaited \/ FlushRest \/
       FlushReply \/ Flushed \/ CloseStream \/ JoinWorker \/
       StoreRowOffset \/ Serve \/ UNCHANGED vars
  <2>1. UNCHANGED <<accepted, workerBatches, cachedBatches, wpc>>
    BY <1>8 DEF
       WriteBatch, CallFlushAsync, CloseAgain, AwaitPendingFlush, GetRowOffset,
       RejectBatch, LoadSize, StoreSize, CheckThreshold, FlushAsync,
       AcquireSemaphore, Submit, AssignFuture, TrackFuture,
       Awaited, FlushRest, FlushReply, Flushed, CloseStream,
       JoinWorker, StoreRowOffset, Serve, SurfaceFailedFutures
  <2>. QED BY <1>7, <2>1
<1>9. ~(TakeTask \/ WorkerSend \/ WorkerReply \/ Untrack \/ RestoreStore \/ RestoreLoadSize
        \/ RestoreStoreSize \/ ReleaseSemaphore \/ ResolveFuture)
  BY DEF TakeTask, WorkerSend, WorkerReply, OnFailure, Untrack, RestoreStore, RestoreLoadSize,
     RestoreStoreSize, ReleaseSemaphore, ResolveFuture
<1>. QED
  BY <1>3, <1>4, <1>5, <1>6, <1>8, <1>9
  DEF Next, CallerCalls, CallerContinues, WorkerSteps

Held(b) == {f \in Flushes : Detached(f) /\ b \in Range(captured[f].batches)}
Shown(b) == IF Clearing THEN 0 ELSE Count(b, cachedBatches)

LEMMA PlacesSum ==
  ASSUME IInv, Known, accepted \in Nat, NEW b \in 1..accepted
  PROVE  /\ Places(b) = Count(b, delivered) + Shown(b) + Cardinality(Held(b))
         /\ Count(b, delivered) \in Nat /\ Shown(b) \in Nat
         /\ Cardinality(Held(b)) \in Nat /\ IsFiniteSet(Held(b))
<1>1. IsFiniteSet(Flushes)
  BY FS_Interval, BoundsAssumption DEF Flushes, BoundsAssumption
<1>2. Held(b) \in SUBSET Flushes
  BY DEF Held
<1>3. IsFiniteSet(Held(b)) /\ Cardinality(Held(b)) \in Nat
  BY <1>1, <1>2, FS_Subset, FS_CardinalityType
<1>4. Count(b, delivered) \in Nat /\ Shown(b) \in Nat
  BY KnownCount DEF Shown
<1>. QED
  BY <1>3, <1>4 DEF Places, Shown, Held

\* The three addends determine the sum, whatever the step.
LEMMA PlacesNext ==
  ASSUME NEW b
  PROVE  Places(b)' = Count(b, delivered') + Shown(b)' + Cardinality(Held(b)')
BY DEF Places, Shown, Held

LEMMA PlacesUnmoved ==
  ASSUME NEW b, UNCHANGED delivered, Shown(b)' = Shown(b), Held(b)' = Held(b)
  PROVE  Places(b)' = Places(b)
BY DEF Places, Shown, Held

LEMMA CallerCalm ==
  ASSUME IInv, pc \notin {"clear", "flush_reply"}
  PROVE  ~Clearing
BY DEF Clearing, IInv, CallsOut

\* The worker changes neither where the caller is nor its call.
LEMMA WorkerClearing ==
  ASSUME IInv, WorkerSteps
  PROVE  /\ Clearing' <=> Clearing
         /\ UNCHANGED <<delivered, accepted>>
<1>1. rpc \in [Threads -> [stage : {"none", "sent", "acked", "refused"}, offset : Nat]]
  BY DEF IInv, TypeInv, ServiceTypes
<1>2. pc' = pc /\ rpc'["caller"] = rpc["caller"] /\ UNCHANGED <<delivered, accepted>>
  BY <1>1 DEF WorkerSteps, TakeTask, WorkerSend, SendWrite, WorkerReply, StoreResponse,
     RaiseResponse, Untrack, RestoreLoad, RestoreStore, RestoreLoadSize, RestoreStoreSize,
     ReleaseSemaphore, ResolveFuture, Threads
<1>. QED
  BY <1>2 DEF Clearing

LEMMA CaptureConserves ==
  ASSUME IInv, RowInv, CaptureBufferState, NEW b \in 1..accepted, accepted \in Nat,
         Places(b) = 1
  PROVE  Places(b)' = 1
<1>1. /\ captured' = [captured EXCEPT ![flushes + 1] =
                         [batches |-> cachedBatches, size |-> cachedSize]]
      /\ status' = [status EXCEPT ![flushes + 1] = "captured"]
      /\ cachedBatches' = <<>> /\ pc = "capture" /\ pc' = "submit"
      /\ UNCHANGED <<delivered, wpc, task, rpc, accepted>>
  BY DEF CaptureBufferState
<1>2. /\ captured \in [Flushes -> [batches : Seq(Nat), size : Nat]]
      /\ status \in [Flushes -> {"none", "captured", "queued", "running", "done", "failed"}]
      /\ flushes \in Nat
  BY DEF IInv, TypeInv, FutureTypes
<1>a. flushes + 1 \in Flushes
  <2>1. flushes + 1 <= MaxFlushes
    BY <1>1, <1>2, BoundsAssumption DEF BoundsAssumption, IInv, CallBounds, TypeInv, CallerTypes
  <2>. QED BY <1>2, <2>1, BoundsAssumption DEF Flushes, BoundsAssumption
<1>b. PICK f \in Flushes : f = flushes + 1
  BY <1>a
<1>3. status[f] = "none"
  BY <1>2, <1>b DEF IInv, FlushStates, Flushes
<1>4. Shown(b) = Count(b, cachedBatches) /\ Shown(b)' = 0
  <2>1. ~Clearing
    BY <1>1, CallerCalm
  <2>2. Count(b, cachedBatches') = 0
    BY <1>1, CountEmpty
  <2>. QED BY <2>1, <2>2 DEF Shown
<1>5. f \notin Held(b)
  BY <1>3 DEF Held, Detached
<1>6. Held(b)' = IF b \in Range(cachedBatches) THEN Held(b) \cup {f} ELSE Held(b)
  <2>1. Detached(f)' /\ captured'[f].batches = cachedBatches
    <3>1. status'[f] = "captured"
      BY <1>1, <1>2, <1>b
    <3>2. captured'[f] = [batches |-> cachedBatches, size |-> cachedSize]
      BY <1>1, <1>2, <1>b
    <3>. QED BY <3>1, <3>2 DEF Detached
  <2>2. \A g \in Flushes \ {f} : Detached(g)' = Detached(g) /\ captured'[g] = captured[g]
    BY <1>1, <1>2, <1>b DEF Detached
  <2>3. \A g \in Flushes : g \in Held(b)' <=> IF g = f THEN b \in Range(cachedBatches) ELSE g \in Held(b)
    <3>1. f \in Held(b)' <=> b \in Range(cachedBatches)
      BY <2>1 DEF Held
    <3>2. \A g \in Flushes \ {f} : g \in Held(b)' <=> g \in Held(b)
      BY <2>2 DEF Held
    <3>. QED BY <3>1, <3>2
  <2>4. Held(b) \subseteq Flushes /\ Held(b)' \subseteq Flushes
    BY DEF Held
  <2>. QED BY <1>5, <2>3, <2>4
<1>7. /\ Places(b) = Count(b, delivered) + Shown(b) + Cardinality(Held(b))
      /\ Count(b, delivered) \in Nat /\ Shown(b) \in Nat
      /\ Cardinality(Held(b)) \in Nat /\ IsFiniteSet(Held(b))
  BY PlacesSum DEF RowInv
<1>8. Places(b)' = Count(b, delivered) + 0 + Cardinality(Held(b)')
  BY <1>1, <1>4, PlacesNext
<1>9. CASE b \in Range(cachedBatches)
  <2>1. Count(b, cachedBatches) = 1
    <3>1. Count(b, cachedBatches) # 0
      BY <1>9, KnownCount DEF RowInv
    <3>. QED BY <1>4, <1>7, <3>1
  <2>2. Cardinality(Held(b)') = Cardinality(Held(b)) + 1
    BY <1>5, <1>6, <1>7, <1>9, FS_AddElement
  <2>. QED BY <1>4, <1>7, <1>8, <2>1, <2>2
<1>10. CASE b \notin Range(cachedBatches)
  <2>1. Count(b, cachedBatches) = 0
    BY <1>10, KnownCount DEF RowInv
  <2>2. Held(b)' = Held(b)
    BY <1>6, <1>10
  <2>. QED BY <1>4, <1>7, <1>8, <2>1, <2>2
<1>. QED
  BY <1>9, <1>10

\* The worker's rows move as a whole: out of its buffer, to the table or the cache.
LEMMA TaskRowsMove ==
  ASSUME IInv, RowInv, accepted \in Nat, NEW b \in 1..accepted, ~Exempt(b), Places(b) = 1,
         task \in Flushes, Detached(task),
         \A f \in Flushes : Detached(f)' <=> Detached(f) /\ f # task,
         UNCHANGED captured,
         Count(b, delivered') + Shown(b)'
           = Count(b, delivered) + Shown(b) + Count(b, captured[task].batches)
  PROVE  Places(b)' = 1
<1>1. /\ Places(b) = Count(b, delivered) + Shown(b) + Cardinality(Held(b))
      /\ Count(b, delivered) \in Nat /\ Shown(b) \in Nat
      /\ Cardinality(Held(b)) \in Nat /\ IsFiniteSet(Held(b))
  BY PlacesSum DEF RowInv
<1>2. Held(b)' = Held(b) \ {task}
  BY DEF Held
<1>3. Places(b)' = Count(b, delivered') + Shown(b)' + Cardinality(Held(b)')
  BY PlacesNext
<1>4. Count(b, captured[task].batches) \in 0..1
      /\ (Count(b, captured[task].batches) = 0 <=> task \notin Held(b))
  <2>1. Count(b, captured[task].batches) \in Nat
        /\ (Count(b, captured[task].batches) = 0 <=> b \notin Range(captured[task].batches))
    BY KnownCount DEF RowInv
  <2>2. Count(b, captured[task].batches) <= 1
    BY DEF RowInv, CapturedOnce
  <2>3. task \in Held(b) <=> b \in Range(captured[task].batches)
    BY DEF Held
  <2>. QED BY <2>1, <2>2, <2>3
<1>5. CASE task \in Held(b)
  <2>1. Cardinality(Held(b)') = Cardinality(Held(b)) - 1
    BY <1>1, <1>2, <1>5, FS_RemoveElement
  <2>2. Count(b, captured[task].batches) = 1
    BY <1>4, <1>5
  <2>3. Count(b, delivered') + Shown(b)' = Count(b, delivered) + Shown(b) + 1
    BY <2>2
  <2>. QED BY <1>1, <1>3, <2>1, <2>3
<1>6. CASE task \notin Held(b)
  <2>1. Held(b)' = Held(b) /\ Count(b, captured[task].batches) = 0
    BY <1>2, <1>4, <1>6
  <2>2. Count(b, delivered') + Shown(b)' = Count(b, delivered) + Shown(b)
    BY <1>1, <2>1
  <2>. QED BY <1>1, <1>3, <2>1, <2>2
<1>. QED
  BY <1>5, <1>6

LEMMA ServeConserves ==
  ASSUME IInv, RowInv, Serve, accepted \in Nat, NEW b \in 1..accepted,
         ~Exempt(b), ~Exempt(b)', Places(b) = 1
  PROVE  Places(b)' = 1
<1>1. PICK t \in Threads : ServeOk(t) \/ ServeFailure(t)
  BY DEF Serve
<1>2. rpc[t].stage = "sent"
  BY <1>1 DEF ServeOk, ServeFailure
<1>3. rpc \in [Threads -> [stage : {"none", "sent", "acked", "refused"}, offset : Nat]]
  BY DEF IInv, TypeInv, ServiceTypes
<1>4. UNCHANGED <<pc, wpc, task, status, captured, cachedBatches>>
  BY DEF Serve
<1>5. Payload(t).batches \in Seq(1..accepted) /\ delivered \in Seq(1..accepted)
  BY <1>2, KnownPayload DEF RowInv, Known
<1>6. Count(b, delivered \o Payload(t).batches)
        = Count(b, delivered) + Count(b, Payload(t).batches)
  BY <1>5, CountConcat
<1>7. \A u \in Threads : u # t => rpc'[u] = rpc[u]
  BY <1>1, <1>3 DEF ServeOk, ServeFailure
<1>8. Count(b, delivered) \in Nat /\ Count(b, cachedBatches) \in Nat
  BY KnownCount DEF RowInv
<1>9. CASE ServeFailure(t)
  <2>1. rpc'[t].stage \in {"sent", "refused"}
    <3>1. rpc' = [rpc EXCEPT ![t] = [stage |-> "refused", offset |-> 0]] \/ rpc' = rpc
      BY <1>9, Zenon DEF ServeFailure
    <3>. QED BY <1>2, <1>3, <3>1
  <2>2. \A u \in Threads : rpc'[u].stage = "acked" <=> rpc[u].stage = "acked"
    BY <1>2, <1>7, <2>1
  <2>3. Clearing' = Clearing /\ \A f \in Flushes : Detached(f)' = Detached(f)
    BY <1>4, <2>2 DEF Clearing, Detached, Threads
  <2>4. Shown(b)' = Shown(b) /\ Held(b)' = Held(b)
    BY <1>4, <2>3 DEF Shown, Held
  <2>5. CASE delivered' = delivered
    BY <2>4, <2>5, PlacesUnmoved
  <2>6. CASE Apply(t) /\ repeatable' = repeatable \cup Range(Payload(t).batches)
    <3>1. b \notin Range(Payload(t).batches)
      BY <2>6 DEF Exempt
    <3>2. Count(b, Payload(t).batches) = 0
      BY <1>5, <3>1, WhereFinite
    <3>3. Count(b, delivered') = Count(b, delivered)
      BY <1>6, <1>8, <2>6, <3>2 DEF Apply
    <3>. QED BY <2>4, <3>3 DEF Places, Shown, Held
  <2>. QED BY <1>9, <2>5, <2>6, Zenon DEF ServeFailure
<1>10. CASE ServeOk(t) /\ t = "worker"
  <2>1. wpc = "reply" /\ task \in Flushes /\ (\A f \in Flushes : status[f] = "running" <=> f = task)
    BY <1>2, <1>10, RunningTask DEF IInv, CallsOut
  <2>2. rpc'["worker"].stage = "acked" /\ rpc'["caller"] = rpc["caller"]
    BY <1>3, <1>10 DEF ServeOk, Threads
  <2>3. Clearing' = Clearing
    BY <1>4, <2>2 DEF Clearing
  <2>4. Detached(task)
    BY <1>2, <1>10, <2>1 DEF Detached
  <2>5. \A f \in Flushes : Detached(f)' <=> Detached(f) /\ f # task
    BY <1>2, <1>4, <1>10, <2>1, <2>2 DEF Detached
  <2>6. delivered' = delivered \o captured[task].batches
    BY <1>10 DEF ServeOk, Apply, Payload
  <2>7. Count(b, delivered') = Count(b, delivered) + Count(b, captured[task].batches)
    BY <1>6, <1>10, <2>6 DEF Payload
  <2>8. Shown(b)' = Shown(b) /\ Shown(b) \in Nat /\ Count(b, captured[task].batches) \in Nat
    BY <1>4, <1>8, <2>1, <2>3, KnownCount DEF Shown, RowInv
  <2>9. Count(b, delivered') + Shown(b)'
          = Count(b, delivered) + Shown(b) + Count(b, captured[task].batches)
    BY <1>8, <2>7, <2>8
  <2>10. UNCHANGED captured
    BY <1>4
  <2>. QED BY <2>1, <2>4, <2>5, <2>9, <2>10, TaskRowsMove
<1>11. CASE ServeOk(t) /\ t = "caller"
  <2>1. pc = "flush_reply" /\ rpc["caller"].stage = "sent"
    BY <1>2, <1>11 DEF IInv, CallsOut
  <2>2. rpc'["caller"].stage = "acked" /\ rpc'["worker"] = rpc["worker"]
    BY <1>3, <1>11 DEF ServeOk, Threads
  <2>3. ~Clearing /\ Clearing'
    BY <2>1, <2>2 DEF Clearing
  <2>4. \A f \in Flushes : Detached(f)' = Detached(f)
    BY <1>4, <2>2 DEF Detached
  <2>5. Held(b)' = Held(b)
    BY <1>4, <2>4 DEF Held
  <2>6. delivered' = delivered \o cachedBatches
    BY <1>11 DEF ServeOk, Apply, Payload
  <2>7. Count(b, delivered') = Count(b, delivered) + Count(b, cachedBatches)
    BY <1>6, <1>11, <2>6 DEF Payload
  <2>8. Shown(b) = Count(b, cachedBatches) /\ Shown(b)' = 0
    BY <2>3 DEF Shown
  <2>9. Places(b) = Count(b, delivered) + Count(b, cachedBatches) + Cardinality(Held(b))
    BY <2>8, PlacesSum DEF RowInv
  <2>10. Places(b)' = Count(b, delivered') + 0 + Cardinality(Held(b))
    BY <2>5, <2>8, PlacesNext
  <2>11. Cardinality(Held(b)) \in Nat
    BY PlacesSum DEF RowInv
  <2>. QED BY <1>8, <2>7, <2>9, <2>10, <2>11
<1>. QED
  BY <1>1, <1>9, <1>10, <1>11 DEF Threads

LEMMA AppendConserves ==
  ASSUME IInv, RowInv, AppendBatch, accepted \in Nat, NEW b \in 1..accepted',
         b \in 1..accepted => Places(b) = 1
  PROVE  Places(b)' = 1
<1>1. /\ accepted' = accepted + 1 /\ pc = "append" /\ pc' = "load_size"
      /\ cachedBatches' = Append(cachedBatches, accepted')
      /\ UNCHANGED <<delivered, status, captured, wpc, rpc>>
  BY DEF AppendBatch
<1>2. ~Clearing /\ ~Clearing'
  BY <1>1, CallerCalm DEF Clearing
<1>3. Held(b)' = Held(b)
  BY <1>1 DEF Held, Detached
<1>4. Count(b, cachedBatches') = Count(b, cachedBatches) + (IF accepted' = b THEN 1 ELSE 0)
  <2>1. cachedBatches \in Seq(1..accepted') /\ accepted' \in 1..accepted'
    BY <1>1, SeqMonotone DEF RowInv, Known
  <2>. QED BY <1>1, <2>1, CountAppend
<1>5. Places(b)' = Count(b, delivered) + Count(b, cachedBatches') + Cardinality(Held(b))
  <2>1. Shown(b)' = Count(b, cachedBatches')
    BY <1>2 DEF Shown
  <2>. QED BY <1>1, <1>3, <2>1, PlacesNext
<1>6. CASE b \in 1..accepted
  <2>1. Count(b, cachedBatches') = Count(b, cachedBatches) + 0
    BY <1>1, <1>4, <1>6
  <2>2. Places(b) = Count(b, delivered) + Count(b, cachedBatches) + Cardinality(Held(b))
    BY <1>2, <1>6, PlacesSum DEF RowInv, Shown
  <2>3. Count(b, cachedBatches) \in Nat
    BY <1>6, KnownCount DEF RowInv
  <2>. QED BY <1>5, <1>6, <2>1, <2>2, <2>3
<1>7. CASE b = accepted + 1
  <2>1. /\ Count(b, delivered) = 0 /\ Count(b, cachedBatches) = 0
        /\ \A f \in Flushes : b \notin Range(captured[f].batches)
    BY <1>7, UnknownCount DEF RowInv
  <2>2. Held(b) = {}
    BY <2>1 DEF Held
  <2>3. Cardinality(Held(b)) = 0
    BY <2>2, FS_EmptySet
  <2>4. Count(b, cachedBatches') = 1
    BY <1>1, <1>4, <1>7, <2>1
  <2>. QED BY <1>5, <2>1, <2>3, <2>4
<1>. QED
  BY <1>1, <1>6, <1>7

LEMMA FlushConserves ==
  ASSUME IInv, RowInv, accepted \in Nat, NEW b \in 1..accepted, Places(b) = 1,
         FlushRest \/ FlushReply \/ ClearBufferState
  PROVE  Places(b)' = 1
<1>1. rpc \in [Threads -> [stage : {"none", "sent", "acked", "refused"}, offset : Nat]]
  BY DEF IInv, TypeInv, ServiceTypes
<1>2. rpc'["worker"] = rpc["worker"] /\ UNCHANGED <<delivered, wpc, task, status, captured>>
  BY <1>1 DEF FlushRest, FlushReply, ClearBufferState, SendWrite, StoreResponse,
     RaiseResponse, Threads
<1>3. Held(b)' = Held(b)
  BY <1>2 DEF Held, Detached
<1>4. Shown(b)' = Shown(b)
  <2>1. CASE FlushRest
    <3>1. pc = "flush_rest" /\ rpc'["caller"].stage \in {"none", "sent"}
          /\ pc' # "clear" /\ UNCHANGED cachedBatches
      BY <1>1, <2>1 DEF FlushRest, SendWrite, FlushRaises, Threads, IInv, CallsOut
    <3>2. ~Clearing /\ ~Clearing'
      BY <3>1, CallerCalm DEF Clearing
    <3>. QED BY <3>1, <3>2 DEF Shown
  <2>2. CASE FlushReply
    <3>1. pc = "flush_reply" /\ UNCHANGED cachedBatches
      BY <2>2 DEF FlushReply
    <3>2. CASE StoreResponse("caller") /\ pc' = "clear"
      <4>1. Clearing /\ Clearing'
        BY <3>2 DEF StoreResponse, Clearing
      <4>. QED BY <4>1, <3>1 DEF Shown
    <3>3. CASE RaiseResponse("caller") /\ FlushRaises
      <4>1. rpc'["caller"].stage = "none" /\ pc' # "clear"
        BY <1>1, <3>3 DEF RaiseResponse, NoCall, FlushRaises, Threads
      <4>2. ~Clearing /\ ~Clearing'
        BY <3>1, <3>3, <4>1 DEF Clearing, RaiseResponse
      <4>. QED BY <3>1, <4>2 DEF Shown
    <3>. QED BY <2>2, <3>2, <3>3, Zenon DEF FlushReply
  <2>3. CASE ClearBufferState
    <3>1. Clearing /\ cachedBatches' = <<>>
      BY <2>3 DEF ClearBufferState, Clearing
    <3>. QED BY <3>1, CountEmpty DEF Shown
  <2>. QED BY <2>1, <2>2, <2>3
<1>. QED
  BY <1>2, <1>3, <1>4, PlacesUnmoved

LEMMA WorkerConserves ==
  ASSUME IInv, RowInv, accepted \in Nat, NEW b \in 1..accepted,
         ~Exempt(b), ~Exempt(b)', Places(b) = 1, WorkerSteps
  PROVE  Places(b)' = 1
<1>1. (Clearing' <=> Clearing) /\ UNCHANGED <<delivered, accepted>>
  BY WorkerClearing
<1>2. rpc \in [Threads -> [stage : {"none", "sent", "acked", "refused"}, offset : Nat]]
  BY DEF IInv, TypeInv, ServiceTypes
<1>3. /\ captured \in [Flushes -> [batches : Seq(Nat), size : Nat]]
      /\ status \in [Flushes -> {"none", "captured", "queued", "running", "done", "failed"}]
  BY DEF IInv, TypeInv, FutureTypes
<1>4. CASE RestoreStore
  <2>1. /\ wpc = "restore_store" /\ wpc' = "restore_load_size" /\ pc' = pc
        /\ cachedBatches' = workerBatches \o captured[task].batches
        /\ UNCHANGED <<status, captured, task, rpc>>
    BY <1>4 DEF RestoreStore, Restored
  <2>2. task \in Flushes /\ (\A f \in Flushes : status[f] = "running" <=> f = task)
    BY <2>1, RunningTask
  <2>3. Detached(task) /\ (\A f \in Flushes : Detached(f)' <=> Detached(f) /\ f # task)
    BY <2>1, <2>2 DEF Detached
  <2>4. ~Clearing
    BY <2>1, SettledWorker, CallerCalm DEF Settled
  <2>5. Count(b, cachedBatches') = Count(b, workerBatches) + Count(b, captured[task].batches)
    BY <2>1, <2>2, CountConcat DEF RowInv, Known
  <2>6. Count(b, workerBatches) = Count(b, cachedBatches)
    BY <2>1 DEF RowInv, RestoredCache
  <2>7. Shown(b) = Count(b, cachedBatches) /\ Shown(b)' = Count(b, cachedBatches')
    BY <1>1, <2>4 DEF Shown
  <2>8. /\ Count(b, delivered) \in Nat /\ Count(b, cachedBatches) \in Nat
        /\ Count(b, captured[task].batches) \in Nat
    BY <2>2, KnownCount DEF RowInv
  <2>9. Count(b, delivered') + Shown(b)'
          = Count(b, delivered) + Shown(b) + Count(b, captured[task].batches)
    BY <1>1, <2>5, <2>6, <2>7, <2>8
  <2>10. UNCHANGED captured
    BY <2>1
  <2>. QED BY <2>2, <2>3, <2>9, <2>10, TaskRowsMove
<1>5. CASE TakeTask
  <2>1. PICK f \in Flushes : status[f] = "queued" /\ status' = [status EXCEPT ![f] = "running"]
    BY <1>5 DEF TakeTask, Queued
  <2>2. wpc = "idle" /\ wpc' = "send" /\ UNCHANGED <<captured, rpc, cachedBatches>>
    BY <1>5 DEF TakeTask
  <2>3. \A g \in Flushes : status[g] # "running"
    BY <2>2, TaskInRange DEF IInv, FlushStates, Flushes
  <2>4. \A g \in Flushes : Detached(g)' = Detached(g)
    BY <1>3, <2>1, <2>2, <2>3 DEF Detached
  <2>5. Held(b)' = Held(b) /\ Shown(b)' = Shown(b)
    BY <1>1, <2>2, <2>4 DEF Held, Shown
  <2>. QED BY <1>1, <2>5, PlacesUnmoved
<1>6. CASE Untrack
  <2>1. /\ wpc = "untrack" /\ UNCHANGED <<captured, rpc, cachedBatches, status, task>>
    BY <1>6 DEF Untrack
  <2>2. task \in Flushes /\ (\A f \in Flushes : status[f] = "running" <=> f = task)
    BY <2>1, RunningTask
  <2>3. \A f \in Flushes \ {task} : Detached(f)' = Detached(f)
    BY <2>1, <2>2 DEF Detached
  <2>4. ~Detached(task)
    BY <2>1, <2>2 DEF Detached
  <2>5. Detached(task)' => b \notin Range(captured[task].batches)
    <3>1. CASE wpc' = "release"
      BY <2>1, <2>2, <3>1 DEF Detached
    <3>2. CASE repeatable' = repeatable \cup Range(captured[task].batches)
      BY <3>2 DEF Exempt
    <3>. QED BY <1>6, <3>1, <3>2 DEF Untrack
  <2>6. Held(b)' = Held(b)
    BY <2>1, <2>3, <2>4, <2>5 DEF Held
  <2>7. Shown(b)' = Shown(b)
    BY <1>1, <2>1 DEF Shown
  <2>. QED BY <1>1, <2>6, <2>7, PlacesUnmoved
<1>7. CASE ResolveFuture
  <2>1. /\ wpc = "resolve" /\ UNCHANGED <<rpc, cachedBatches>>
        /\ status' = [status EXCEPT ![task] = outcome]
        /\ captured' = [captured EXCEPT ![task] = Empty]
    BY <1>7 DEF ResolveFuture
  <2>2. task \in Flushes /\ (\A f \in Flushes : status[f] = "running" <=> f = task)
    BY <2>1, RunningTask
  <2>3. outcome \in {"done", "failed"}
    BY DEF IInv, TypeInv, WorkerTypes
  <2>4. \A f \in Flushes : f = task => ~Detached(f) /\ ~Detached(f)'
    BY <1>3, <2>1, <2>2, <2>3 DEF Detached
  <2>5. \A f \in Flushes \ {task} : Detached(f)' = Detached(f) /\ captured'[f] = captured[f]
    BY <1>3, <2>1, <2>2 DEF Detached
  <2>6. Held(b)' = Held(b)
    BY <2>4, <2>5 DEF Held
  <2>7. Shown(b)' = Shown(b)
    BY <1>1, <2>1 DEF Shown
  <2>. QED BY <1>1, <2>6, <2>7, PlacesUnmoved
<1>8. CASE WorkerReply
  <2>1. wpc = "reply" /\ UNCHANGED <<captured, cachedBatches, status, task>>
    BY <1>8 DEF WorkerReply
  <2>2. (rpc["worker"].stage = "acked" /\ wpc' = "untrack")
        \/ (rpc["worker"].stage = "refused" /\ wpc' = "restore_load")
    BY <1>8 DEF WorkerReply, StoreResponse, RaiseResponse, OnFailure
  <2>3. \A f \in Flushes : Detached(f)' = Detached(f)
    BY <2>1, <2>2 DEF Detached
  <2>4. Held(b)' = Held(b) /\ Shown(b)' = Shown(b)
    BY <1>1, <2>1, <2>3 DEF Held, Shown
  <2>. QED BY <1>1, <2>4, PlacesUnmoved
<1>9. CASE WorkerSend
  <2>1. wpc = "send" /\ wpc' = "reply" /\ UNCHANGED <<captured, cachedBatches, status, task>>
    BY <1>9 DEF WorkerSend
  <2>2. rpc'["worker"].stage = "sent"
    BY <1>2, <1>9 DEF WorkerSend, SendWrite, Threads
  <2>3. \A f \in Flushes : Detached(f)' = Detached(f)
    BY <2>1, <2>2 DEF Detached
  <2>4. Held(b)' = Held(b) /\ Shown(b)' = Shown(b)
    BY <1>1, <2>1, <2>3 DEF Held, Shown
  <2>. QED BY <1>1, <2>4, PlacesUnmoved
<1>10. CASE RestoreLoad \/ RestoreLoadSize \/ RestoreStoreSize \/ ReleaseSemaphore
  <2>1. UNCHANGED <<captured, cachedBatches, status, task, rpc>>
    BY <1>10 DEF RestoreLoad, RestoreLoadSize, RestoreStoreSize, ReleaseSemaphore
  <2>2. \/ wpc = "restore_load" /\ wpc' = "restore_store"
        \/ wpc = "restore_load_size" /\ wpc' = "restore_store_size"
        \/ wpc = "restore_store_size" /\ wpc' = "release"
        \/ wpc = "release" /\ wpc' = "resolve"
    BY <1>10 DEF RestoreLoad, RestoreLoadSize, RestoreStoreSize, ReleaseSemaphore
  <2>3. \A f \in Flushes : Detached(f)' = Detached(f)
    BY <2>1, <2>2 DEF Detached
  <2>4. Held(b)' = Held(b) /\ Shown(b)' = Shown(b)
    BY <1>1, <2>1, <2>3 DEF Held, Shown
  <2>. QED BY <1>1, <2>4, PlacesUnmoved
<1>. QED
  BY <1>4, <1>5, <1>6, <1>7, <1>8, <1>9, <1>10 DEF WorkerSteps

LEMMA RowsConservedStep ==
  ASSUME IInv, RowInv, [Next]_vars
  PROVE  RowsConserved'
<1> SUFFICES ASSUME NEW b \in 1..accepted', ~Exempt(b)' PROVE Places(b)' = 1
  BY DEF RowsConserved, Exempt
<1>1. accepted \in Nat /\ (AppendBatch \/ accepted' = accepted)
  BY HistoryGrows
<1>2. ~Exempt(b)
  BY HistoryGrows DEF Exempt
<1>3. b \in 1..accepted => Places(b) = 1
  BY <1>2 DEF RowInv, RowsConserved, Exempt
<1>4. CASE AppendBatch
  BY <1>1, <1>3, <1>4, AppendConserves
<1>5. CASE accepted' = accepted /\ Serve
  BY <1>1, <1>2, <1>3, <1>5, ServeConserves
<1>6. CASE accepted' = accepted /\ CaptureBufferState
  BY <1>1, <1>3, <1>6, CaptureConserves
<1>7. CASE accepted' = accepted /\ (FlushRest \/ FlushReply \/ ClearBufferState)
  BY <1>1, <1>3, <1>7, FlushConserves
<1>8. CASE accepted' = accepted /\ WorkerSteps
  BY <1>1, <1>2, <1>3, <1>8, WorkerConserves
<1>9. CASE accepted' = accepted /\ Submit
  <2>1. /\ status' = [status EXCEPT ![flushes] = "queued"] /\ pc = "submit" /\ pc' = "assign"
        /\ UNCHANGED <<delivered, captured, cachedBatches, wpc, rpc>>
    BY <1>9 DEF Submit
  <2>2. \A f \in Flushes : status[f] = "captured" <=> f = flushes
    BY <2>1 DEF IInv, FlushStates
  <2>3. status \in [Flushes -> {"none", "captured", "queued", "running", "done", "failed"}]
    BY DEF IInv, TypeInv, FutureTypes
  <2>4. \A f \in Flushes : Detached(f)' = Detached(f)
    BY <2>1, <2>2, <2>3 DEF Detached
  <2>5. ~Clearing /\ ~Clearing'
    BY <2>1, CallerCalm DEF Clearing
  <2>6. Held(b)' = Held(b) /\ Shown(b)' = Shown(b)
    BY <2>1, <2>4, <2>5 DEF Held, Shown
  <2>. QED BY <1>3, <1>9, <2>1, <2>6, PlacesUnmoved
<1>10. CASE accepted' = accepted /\
       (WriteBatch \/ CallFlushAsync \/ CloseAgain \/ AwaitPendingFlush \/
       GetRowOffset \/ RejectBatch \/ LoadSize \/ StoreSize \/
       CheckThreshold \/ FlushAsync \/ AcquireSemaphore \/
       AssignFuture \/ TrackFuture \/ Awaited \/ Flushed \/ CloseStream \/ JoinWorker \/
       StoreRowOffset \/ UNCHANGED vars)
  <2>1. UNCHANGED <<delivered, captured, cachedBatches, wpc, rpc, status>>
    BY <1>10 DEF
       WriteBatch, CallFlushAsync, CloseAgain, AwaitPendingFlush, GetRowOffset,
       RejectBatch, LoadSize, StoreSize, CheckThreshold, FlushAsync,
       AcquireSemaphore, AssignFuture, TrackFuture, Awaited, Flushed, CloseStream,
       JoinWorker, StoreRowOffset, SurfaceFailedFutures
  <2>2. pc' = "clear" <=> pc = "clear"
    BY <1>10 DEF
       WriteBatch, CallFlushAsync, CloseAgain, AwaitPendingFlush, GetRowOffset,
       RejectBatch, LoadSize, StoreSize, CheckThreshold, FlushAsync, NextBatch,
       AcquireSemaphore, AssignFuture, TrackFuture, Awaited, Flushed, CloseStream,
       JoinWorker, StoreRowOffset, SurfaceFailedFutures, FlushRaises
  <2>3. Clearing' = Clearing
    BY <2>1, <2>2 DEF Clearing
  <2>4. Held(b)' = Held(b) /\ Shown(b)' = Shown(b)
    BY <2>1, <2>3 DEF Held, Shown, Detached
  <2>. QED BY <1>3, <1>10, <2>1, <2>4, PlacesUnmoved
<1>. QED
  BY <1>1, <1>4, <1>5, <1>6, <1>7, <1>8, <1>9, <1>10 DEF Next, CallerCalls, CallerContinues

LEMMA InitRowInv == Init => RowInv
<1> SUFFICES ASSUME Init PROVE RowInv
  OBVIOUS
<1>1. accepted = 0
  BY DEF Init
<1>2. 1..accepted = {}
  BY <1>1
<1>3. /\ delivered = <<>> /\ cachedBatches = <<>> /\ workerBatches = <<>>
      /\ \A f \in Flushes : captured[f].batches = <<>>
      /\ wpc = "idle"
  BY DEF Init, Empty
<1>4. <<>> \in Seq(1..accepted)
  OBVIOUS
<1>. QED
  BY <1>2, <1>3, <1>4 DEF RowInv, Known, CapturedOnce, RestoredCache, RowsConserved

(* Rows taken are never lost or doubled, but for those appended inside a    *)
(* restore and those of a call that applied and failed.                     *)
THEOREM RowsNeitherLostNorDoubled == Spec => []RowsConserved
<1>1. IInv /\ RowInv /\ [Next]_vars => RowInv'
  BY KnownStep, CapturedOnceStep, RestoredCacheStep, RowsConservedStep DEF RowInv
<1>2. RowInv => RowsConserved
  BY DEF RowInv
<1>. QED
  BY <1>1, <1>2, InitRowInv, Invariance, PTL DEF Spec

-----------------------------------------------------------------------------
(* The order of the rows while nothing fails.                              *)

FailureFree == failures = 0 /\ repeatable = {}

Ascending(s) == \A i, j \in DOMAIN s : i < j => s[i] < s[j]
Precedes(s, t) == \A i \in DOMAIN s, j \in DOMAIN t : s[i] < t[j]

Restoring == {"restore_load", "restore_store", "restore_load_size", "restore_store_size"}
Pending == {"captured", "queued"}

\* The flush the worker runs was captured before those that wait.
OldestFirst ==
  wpc # "idle" => \A g \in Flushes : status[g] \in Pending => task < g

\* No flush is restored: every one has rows, so a lost answer would show.
Smooth ==
  /\ wpc \notin Restoring
  /\ \A t \in Threads : rpc[t].stage # "refused"
  /\ pc \in {"acquire", "capture"} => cachedBatches # <<>>
  /\ \A f \in Flushes : status[f] \in Pending \cup {"running"} => captured[f].batches # <<>>

\* The table, then the detached buffers by number, then the cache.
Ordered ==
  /\ Ascending(delivered) /\ Ascending(cachedBatches)
  /\ \A f \in Flushes : Ascending(captured[f].batches)
  /\ \A f \in Flushes : Detached(f) =>
       Precedes(delivered, captured[f].batches) /\ Precedes(captured[f].batches, cachedBatches)
  /\ \A f, g \in Flushes : Detached(f) /\ Detached(g) /\ f < g =>
       Precedes(captured[f].batches, captured[g].batches)
  /\ ~Clearing => Precedes(delivered, cachedBatches)

OrderInv == Known /\ OldestFirst /\ (FailureFree => Smooth /\ Ordered)

LEMMA AscendingConcat ==
  ASSUME NEW s \in Seq(Nat), NEW t \in Seq(Nat), Ascending(s), Ascending(t), Precedes(s, t)
  PROVE  Ascending(s \o t)
<1>1. DOMAIN (s \o t) = 1..(Len(s) + Len(t)) /\ Len(s) \in Nat /\ Len(t) \in Nat
  OBVIOUS
<1>2. \A i \in 1..Len(s) : (s \o t)[i] = s[i] /\ i \in DOMAIN s
  OBVIOUS
<1>3. \A i \in 1..(Len(s) + Len(t)) : i > Len(s) =>
        (s \o t)[i] = t[i - Len(s)] /\ i - Len(s) \in DOMAIN t
  OBVIOUS
<1> SUFFICES ASSUME NEW i \in 1..(Len(s) + Len(t)), NEW j \in 1..(Len(s) + Len(t)), i < j
             PROVE  (s \o t)[i] < (s \o t)[j]
  BY <1>1 DEF Ascending
<1>4. CASE j <= Len(s)
  <2>1. i \in 1..Len(s) /\ j \in 1..Len(s)
    BY <1>1, <1>4
  <2>. QED BY <1>2, <2>1 DEF Ascending
<1>5. CASE i <= Len(s) /\ j > Len(s)
  <2>1. i \in 1..Len(s)
    BY <1>1, <1>5
  <2>2. (s \o t)[i] = s[i] /\ i \in DOMAIN s
    BY <1>2, <2>1
  <2>3. (s \o t)[j] = t[j - Len(s)] /\ j - Len(s) \in DOMAIN t
    BY <1>3, <1>5
  <2>. QED BY <2>2, <2>3 DEF Precedes
<1>6. CASE i > Len(s)
  <2>1. j > Len(s)
    BY <1>1, <1>6
  <2>2. (s \o t)[i] = t[i - Len(s)] /\ i - Len(s) \in DOMAIN t
    BY <1>3, <1>6
  <2>3. (s \o t)[j] = t[j - Len(s)] /\ j - Len(s) \in DOMAIN t
    BY <1>3, <2>1
  <2>4. i - Len(s) < j - Len(s)
    BY <1>1
  <2>. QED BY <2>2, <2>3, <2>4 DEF Ascending
<1>. QED
  BY <1>1, <1>4, <1>5, <1>6

LEMMA PrecedesConcat ==
  ASSUME NEW s \in Seq(Nat), NEW t \in Seq(Nat), NEW u \in Seq(Nat),
         Precedes(s, u), Precedes(t, u)
  PROVE  Precedes(s \o t, u)
<1>1. DOMAIN (s \o t) = 1..(Len(s) + Len(t)) /\ Len(s) \in Nat /\ Len(t) \in Nat
  OBVIOUS
<1>2. \A i \in 1..Len(s) : (s \o t)[i] = s[i] /\ i \in DOMAIN s
  OBVIOUS
<1>3. \A i \in 1..(Len(s) + Len(t)) : i > Len(s) =>
        (s \o t)[i] = t[i - Len(s)] /\ i - Len(s) \in DOMAIN t
  OBVIOUS
<1> SUFFICES ASSUME NEW i \in 1..(Len(s) + Len(t)), NEW j \in DOMAIN u
             PROVE  (s \o t)[i] < u[j]
  BY <1>1 DEF Precedes
<1>4. CASE i <= Len(s)
  <2>1. i \in 1..Len(s)
    BY <1>1, <1>4
  <2>2. (s \o t)[i] = s[i] /\ i \in DOMAIN s
    BY <1>2, <2>1
  <2>. QED BY <2>2 DEF Precedes
<1>5. CASE i > Len(s)
  <2>1. (s \o t)[i] = t[i - Len(s)] /\ i - Len(s) \in DOMAIN t
    BY <1>3, <1>5
  <2>. QED BY <2>1 DEF Precedes
<1>. QED
  BY <1>1, <1>4, <1>5

\* A row above every other one goes to the end.
LEMMA AppendOrdered ==
  ASSUME NEW n \in Nat, NEW s \in Seq(1..n), NEW x \in Nat, x > n
  PROVE  /\ Ascending(s) => Ascending(Append(s, x))
         /\ \A t \in Seq(1..n) : Precedes(t, s) => Precedes(t, Append(s, x))
<1>1. /\ DOMAIN Append(s, x) = 1..(Len(s) + 1) /\ Len(s) \in Nat
      /\ \A i \in 1..Len(s) : Append(s, x)[i] = s[i] /\ s[i] \in 1..n /\ i \in DOMAIN s
      /\ Append(s, x)[Len(s) + 1] = x
  OBVIOUS
<1>2. ASSUME Ascending(s), NEW i \in 1..(Len(s) + 1), NEW j \in 1..(Len(s) + 1), i < j
      PROVE  Append(s, x)[i] < Append(s, x)[j]
  <2>1. i \in 1..Len(s)
    BY <1>1, <1>2
  <2>2. Append(s, x)[i] = s[i] /\ s[i] \in 1..n /\ i \in DOMAIN s
    BY <1>1, <2>1
  <2>3. CASE j = Len(s) + 1
    BY <1>1, <2>2, <2>3
  <2>4. CASE j \in 1..Len(s)
    <3>1. Append(s, x)[j] = s[j] /\ j \in DOMAIN s
      BY <1>1, <2>4
    <3>. QED BY <1>2, <2>2, <3>1 DEF Ascending
  <2>. QED BY <1>1, <2>3, <2>4
<1>3. ASSUME NEW t \in Seq(1..n), Precedes(t, s), NEW i \in DOMAIN t, NEW j \in 1..(Len(s) + 1)
      PROVE  t[i] < Append(s, x)[j]
  <2>1. t[i] \in 1..n
    OBVIOUS
  <2>2. CASE j = Len(s) + 1
    BY <1>1, <2>1, <2>2
  <2>3. CASE j \in 1..Len(s)
    <3>1. Append(s, x)[j] = s[j] /\ j \in DOMAIN s
      BY <1>1, <2>3
    <3>. QED BY <1>3, <3>1 DEF Precedes
  <2>. QED BY <1>1, <2>2, <2>3
<1>4. Ascending(s) => Ascending(Append(s, x))
  BY <1>1, <1>2 DEF Ascending
<1>5. \A t \in Seq(1..n) : Precedes(t, s) => Precedes(t, Append(s, x))
  BY <1>1, <1>3 DEF Precedes
<1>. QED
  BY <1>4, <1>5

LEMMA EmptyOrdered ==
  Ascending(<<>>) /\ \A s : Precedes(s, <<>>) /\ Precedes(<<>>, s)
BY DEF Ascending, Precedes

LEMMA FailureFreeBefore ==
  ASSUME IInv, [Next]_vars, FailureFree'
  PROVE  FailureFree /\ UNCHANGED <<failures, repeatable>>
<1>1. repeatable = {} /\ repeatable' = {}
  BY HistoryGrows DEF FailureFree
<1>2. failures \in Nat /\ failures' = 0
  BY BoundsAssumption DEF IInv, TypeInv, ServiceTypes, FailureFree, BoundsAssumption
<1>3. failures' = failures \/ failures' = failures + 1
  <2>1. CASE Serve
    BY <2>1, Zenon DEF Serve, ServeOk, ServeFailure
  <2>2. CASE CloseStream
    BY <2>2, Zenon DEF CloseStream
  <2>3. CASE GetRowOffset
    BY <2>3, Zenon DEF GetRowOffset
  <2>4. CASE
       WriteBatch \/ CallFlushAsync \/ CloseAgain \/ AwaitPendingFlush \/
       RejectBatch \/ AppendBatch \/ LoadSize \/ StoreSize \/
       CheckThreshold \/ FlushAsync \/ AcquireSemaphore \/ CaptureBufferState \/
       Submit \/ AssignFuture \/ TrackFuture \/ Awaited \/ FlushRest \/
       FlushReply \/ ClearBufferState \/ Flushed \/ JoinWorker \/
       StoreRowOffset \/ TakeTask \/ WorkerSend \/ WorkerReply \/ Untrack \/
       RestoreLoad \/ RestoreStore \/ RestoreLoadSize \/ RestoreStoreSize \/
       ReleaseSemaphore \/ ResolveFuture \/ UNCHANGED vars
    BY <2>4 DEF
       WriteBatch, CallFlushAsync, CloseAgain, AwaitPendingFlush,
       RejectBatch, AppendBatch, LoadSize, StoreSize, CheckThreshold, FlushAsync,
       AcquireSemaphore, CaptureBufferState, Submit, AssignFuture, TrackFuture,
       Awaited, FlushRest, FlushReply, ClearBufferState, Flushed,
       JoinWorker, StoreRowOffset, TakeTask, WorkerSend, WorkerReply, Untrack, RestoreLoad,
       RestoreStore, RestoreLoadSize, RestoreStoreSize, ReleaseSemaphore, ResolveFuture
  <2>. QED BY <2>1, <2>2, <2>3, <2>4 DEF Next, CallerCalls, CallerContinues, WorkerSteps
<1>. QED
  BY <1>1, <1>2, <1>3 DEF FailureFree

LEMMA OldestFirstStep ==
  ASSUME IInv, OldestFirst, [Next]_vars
  PROVE  OldestFirst'
<1>1. /\ status \in [Flushes -> {"none", "captured", "queued", "running", "done", "failed"}]
      /\ flushes \in Nat /\ Flushes \subseteq Nat
  BY DEF IInv, TypeInv, FutureTypes, Flushes
<1>2. CASE TakeTask
  <2>1. PICK f \in Queued : OldestTask(f) /\ task' = f /\ status' = [status EXCEPT ![f] = "running"]
    BY <1>2 DEF TakeTask
  <2>2. f \in Flushes /\ status[f] = "queued" /\ f <= flushes
    BY <1>1, <2>1 DEF Queued, IInv, FlushStates
  <2>3. ASSUME NEW g \in Flushes, status'[g] \in Pending PROVE f < g
    <3>1. g # f /\ status[g] \in Pending
      BY <1>1, <2>1, <2>2, <2>3 DEF Pending
    <3>2. CASE status[g] = "queued"
      BY <1>1, <2>1, <2>2, <3>1, <3>2 DEF Queued, OldestTask
    <3>3. CASE status[g] = "captured"
      <4>1. g = flushes
        BY <3>3 DEF IInv, FlushStates
      <4>. QED BY <1>1, <2>2, <3>1, <4>1
    <3>. QED BY <3>1, <3>2, <3>3 DEF Pending
  <2>. QED BY <2>1, <2>3 DEF OldestFirst
<1>3. CASE CaptureBufferState
  <2>1. status' = [status EXCEPT ![flushes + 1] = "captured"] /\ UNCHANGED <<wpc, task>>
    BY <1>3 DEF CaptureBufferState
  <2>2. ASSUME NEW g \in Flushes, wpc # "idle", status'[g] \in Pending PROVE task < g
    <3>1. task \in Flushes /\ task <= flushes
      <4>1. task \in Flushes /\ status[task] = "running"
        BY <2>2, RunningTask
      <4>2. status[task] = "none" <=> task > flushes
        BY <4>1 DEF IInv, FlushStates
      <4>. QED BY <1>1, <4>1, <4>2
    <3>2. CASE g = flushes + 1
      BY <1>1, <3>1, <3>2
    <3>3. CASE g # flushes + 1
      BY <1>1, <2>1, <2>2, <3>3 DEF OldestFirst
    <3>. QED BY <3>2, <3>3
  <2>. QED BY <2>1, <2>2 DEF OldestFirst
<1>4. CASE Submit
  <2>1. status' = [status EXCEPT ![flushes] = "queued"] /\ pc = "submit" /\ UNCHANGED <<wpc, task>>
    BY <1>4 DEF Submit
  <2>2. \A g \in Flushes : status'[g] \in Pending => status[g] \in Pending
    BY <1>1, <2>1 DEF Pending, IInv, FlushStates
  <2>. QED BY <2>1, <2>2 DEF OldestFirst
<1>5. CASE ResolveFuture
  BY <1>5 DEF ResolveFuture, OldestFirst
<1>6. CASE
       WriteBatch \/ CallFlushAsync \/ CloseAgain \/ AwaitPendingFlush \/
       GetRowOffset \/ RejectBatch \/ AppendBatch \/ LoadSize \/ StoreSize \/
       CheckThreshold \/ FlushAsync \/ AcquireSemaphore \/
       AssignFuture \/ TrackFuture \/ Awaited \/ FlushRest \/
       FlushReply \/ ClearBufferState \/ Flushed \/ CloseStream \/ JoinWorker \/
       StoreRowOffset \/ WorkerSend \/ WorkerReply \/ Untrack \/
       RestoreLoad \/ RestoreStore \/ RestoreLoadSize \/ RestoreStoreSize \/
       ReleaseSemaphore \/ Serve \/ UNCHANGED vars
  <2>1. UNCHANGED <<status, task>> /\ (wpc = "idle" => wpc' = "idle")
    BY <1>6 DEF
       WriteBatch, CallFlushAsync, CloseAgain, AwaitPendingFlush, GetRowOffset,
       RejectBatch, AppendBatch, LoadSize, StoreSize, CheckThreshold, FlushAsync,
       AcquireSemaphore, AssignFuture, TrackFuture,
       Awaited, FlushRest, FlushReply, ClearBufferState, Flushed, CloseStream,
       JoinWorker, StoreRowOffset, WorkerSend, WorkerReply, Untrack, RestoreLoad,
       RestoreStore, RestoreLoadSize, RestoreStoreSize, ReleaseSemaphore, Serve
  <2>. QED BY <2>1 DEF OldestFirst
<1>. QED
  BY <1>2, <1>3, <1>4, <1>5, <1>6 DEF Next, CallerCalls, CallerContinues, WorkerSteps

LEMMA SmoothStep ==
  ASSUME IInv, Smooth, FailureFree, [Next]_vars, UNCHANGED <<failures, repeatable>>
  PROVE  Smooth'
<1>1. /\ status \in [Flushes -> {"none", "captured", "queued", "running", "done", "failed"}]
      /\ captured \in [Flushes -> [batches : Seq(Nat), size : Nat]]
      /\ rpc \in [Threads -> [stage : {"none", "sent", "acked", "refused"}, offset : Nat]]
      /\ failures \in Nat
  BY BoundsAssumption DEF IInv, TypeInv, FutureTypes, ServiceTypes, BoundsAssumption
<1>2. ~RestoreLoad /\ ~RestoreStore /\ ~RestoreLoadSize /\ ~RestoreStoreSize
  BY DEF Smooth, Restoring, RestoreLoad, RestoreStore, RestoreLoadSize, RestoreStoreSize
<1>3. \A t \in Threads : ~ServeFailure(t) /\ ~RaiseResponse(t)
  BY <1>1 DEF ServeFailure, RaiseResponse, Smooth
<1>4. wpc' \notin Restoring
  <2>1. CASE WorkerReply
    BY <1>3, <2>1 DEF WorkerReply, Restoring, Threads
  <2>2. CASE Untrack
    <3>1. task \in Flushes /\ status[task] = "running"
      BY <2>2, RunningTask DEF Untrack
    <3>2. captured[task].batches # <<>> /\ captured[task].batches \in Seq(Nat)
      BY <1>1, <3>1 DEF Smooth
    <3>3. captured[task].batches[1] \in Range(captured[task].batches)
      BY <3>2 DEF Range
    <3>4. repeatable' # repeatable \cup Range(captured[task].batches)
      BY <3>3 DEF FailureFree
    <3>. QED BY <2>2, <3>4 DEF Untrack, Restoring
  <2>3. CASE TakeTask \/ WorkerSend \/ ReleaseSemaphore \/ ResolveFuture
    BY <2>3 DEF TakeTask, WorkerSend, ReleaseSemaphore, ResolveFuture, Restoring
  <2>4. CASE ~WorkerSteps
    <3>1. UNCHANGED wpc
      BY <2>4 DEF Next, CallerCalls, CallerContinues, WriteBatch, CallFlushAsync, CloseAgain,
         AwaitPendingFlush, GetRowOffset, RejectBatch, AppendBatch, LoadSize, StoreSize,
         CheckThreshold, FlushAsync, AcquireSemaphore, CaptureBufferState, Submit, AssignFuture,
         TrackFuture, Awaited, FlushRest, FlushReply, ClearBufferState, Flushed, CloseStream,
         JoinWorker, StoreRowOffset, Serve
    <3>. QED BY <3>1 DEF Smooth
  <2>. QED BY <1>2, <2>1, <2>2, <2>3, <2>4 DEF WorkerSteps
<1>5. \A t \in Threads : rpc'[t].stage # "refused"
  <2>1. CASE Serve
    <3>1. PICK t \in Threads : ServeOk(t)
      BY <1>3, <2>1 DEF Serve
    <3>. QED BY <1>1, <3>1 DEF ServeOk, Smooth
  <2>2. CASE FlushRest \/ FlushReply \/ WorkerSend \/ WorkerReply
    <3>1. \/ UNCHANGED rpc
          \/ \E t \in Threads : SendWrite(t) \/ StoreResponse(t)
      BY <1>3, <2>2 DEF FlushRest, FlushReply, WorkerSend, WorkerReply, Threads
    <3>2. ASSUME NEW t \in Threads, SendWrite(t) PROVE \A u \in Threads : rpc'[u].stage # "refused"
      BY <1>1, <3>2 DEF SendWrite, Smooth
    <3>3. ASSUME NEW t \in Threads, StoreResponse(t) PROVE \A u \in Threads : rpc'[u].stage # "refused"
      BY <1>1, <3>3 DEF StoreResponse, NoCall, Smooth
    <3>. QED BY <3>1, <3>2, <3>3 DEF Smooth
  <2>3. CASE UNCHANGED rpc
    BY <2>3 DEF Smooth
  <2>4. CASE ~(Serve \/ FlushRest \/ FlushReply \/ WorkerSend \/ WorkerReply)
    <3>1. UNCHANGED rpc
      BY <2>4 DEF Next, CallerCalls, CallerContinues, WorkerSteps, WriteBatch, CallFlushAsync,
         CloseAgain, AwaitPendingFlush, GetRowOffset, RejectBatch, AppendBatch, LoadSize,
         StoreSize, CheckThreshold, FlushAsync, AcquireSemaphore, CaptureBufferState, Submit,
         AssignFuture, TrackFuture, Awaited, ClearBufferState, Flushed, CloseStream, JoinWorker,
         StoreRowOffset, TakeTask, Untrack, RestoreLoad, RestoreStore, RestoreLoadSize,
         RestoreStoreSize, ReleaseSemaphore, ResolveFuture
    <3>. QED BY <2>3, <3>1
  <2>. QED BY <2>1, <2>2, <2>4
<1>6. pc' \in {"acquire", "capture"} => cachedBatches' # <<>>
  <2> SUFFICES ASSUME pc' \in {"acquire", "capture"} PROVE cachedBatches' # <<>>
    OBVIOUS
  <2>1. CASE FlushAsync
    BY <2>1 DEF FlushAsync, NextBatch
  <2>2. CASE AcquireSemaphore
    BY <2>2 DEF AcquireSemaphore, Smooth
  <2>3. CASE WorkerSteps \/ Serve \/ UNCHANGED vars
    <3>1. UNCHANGED <<pc, cachedBatches>>
      BY <1>2, <2>3 DEF WorkerSteps, TakeTask, WorkerSend, WorkerReply, Untrack, ReleaseSemaphore,
         ResolveFuture, Serve
    <3>. QED BY <3>1 DEF Smooth
  <2>4. ~(CallerCalls \/ RejectBatch \/ AppendBatch \/ LoadSize \/ StoreSize \/ CheckThreshold
          \/ CaptureBufferState \/ Submit \/ AssignFuture \/ TrackFuture \/ Awaited \/ FlushRest
          \/ FlushReply \/ ClearBufferState \/ Flushed \/ CloseStream \/ JoinWorker
          \/ StoreRowOffset)
    BY DEF CallerCalls, WriteBatch, CallFlushAsync, CloseAgain, AwaitPendingFlush, GetRowOffset,
       RejectBatch, AppendBatch, LoadSize, StoreSize, CheckThreshold, CaptureBufferState, Submit,
       AssignFuture, TrackFuture, NextBatch, Awaited, FlushRaises, FlushRest, FlushReply,
       ClearBufferState, Flushed, CloseStream, JoinWorker, StoreRowOffset
  <2>. QED BY <2>1, <2>2, <2>3, <2>4 DEF Next, CallerContinues
<1>7. \A f \in Flushes : status'[f] \in Pending \cup {"running"} => captured'[f].batches # <<>>
  <2>1. CASE CaptureBufferState
    <3>1. /\ status' = [status EXCEPT ![flushes'] = "captured"]
          /\ captured' = [captured EXCEPT ![flushes'] =
                            [batches |-> cachedBatches, size |-> cachedSize]]
          /\ cachedBatches # <<>>
      BY <2>1 DEF CaptureBufferState, Smooth
    <3>. QED BY <1>1, <3>1 DEF Smooth
  <2>2. CASE TakeTask
    <3>1. PICK f \in Flushes : status[f] = "queued" /\ status' = [status EXCEPT ![f] = "running"]
      BY <2>2 DEF TakeTask, Queued
    <3>. QED BY <1>1, <2>2, <3>1 DEF TakeTask, Smooth, Pending
  <2>3. CASE Submit
    <3>1. status' = [status EXCEPT ![flushes] = "queued"] /\ pc = "submit" /\ UNCHANGED captured
      BY <2>3 DEF Submit
    <3>. QED BY <1>1, <3>1 DEF Smooth, Pending, IInv, FlushStates
  <2>4. CASE ResolveFuture
    <3>1. /\ status' = [status EXCEPT ![task] = outcome] /\ outcome \in {"done", "failed"}
          /\ captured' = [captured EXCEPT ![task] = Empty]
      BY <2>4 DEF ResolveFuture, IInv, TypeInv, WorkerTypes
    <3>. QED BY <1>1, <3>1 DEF Smooth, Pending
  <2>5. CASE ~(CaptureBufferState \/ TakeTask \/ Submit \/ ResolveFuture)
    <3>1. UNCHANGED <<status, captured>>
      BY <2>5 DEF Next, CallerCalls, CallerContinues, WorkerSteps, WriteBatch, CallFlushAsync,
         CloseAgain, AwaitPendingFlush, GetRowOffset, RejectBatch, AppendBatch, LoadSize,
         StoreSize, CheckThreshold, FlushAsync, AcquireSemaphore, AssignFuture, TrackFuture,
         Awaited, FlushRest, FlushReply, ClearBufferState, Flushed, CloseStream, JoinWorker,
         StoreRowOffset, WorkerSend, WorkerReply, Untrack, RestoreLoad, RestoreStore,
         RestoreLoadSize, RestoreStoreSize, ReleaseSemaphore, Serve
    <3>. QED BY <3>1 DEF Smooth
  <2>. QED BY <2>1, <2>2, <2>3, <2>4, <2>5
<1>. QED
  BY <1>4, <1>5, <1>6, <1>7 DEF Smooth

\* Buffers may leave, but nothing moves within them.
LEMMA OrderKept ==
  ASSUME Ordered, UNCHANGED <<delivered, cachedBatches, captured>>, Clearing => Clearing',
         \A f \in Flushes : Detached(f)' => Detached(f)
  PROVE  Ordered'
BY DEF Ordered

LEMMA ServeOrdered ==
  ASSUME IInv, Known, OldestFirst, Smooth, Ordered, NEW t \in Threads, ServeOk(t), Serve
  PROVE  Ordered'
<1>1. UNCHANGED <<pc, wpc, task, status, captured, cachedBatches>>
  BY DEF Serve
<1>2. rpc \in [Threads -> [stage : {"none", "sent", "acked", "refused"}, offset : Nat]]
  BY DEF IInv, TypeInv, ServiceTypes
<1>a. delivered \in Seq(Nat) /\ cachedBatches \in Seq(Nat)
  BY DEF IInv, TypeInv, ServiceTypes, CacheTypes
<1>b. captured \in [Flushes -> [batches : Seq(Nat), size : Nat]] /\ Flushes \subseteq Nat
  BY DEF IInv, TypeInv, FutureTypes, Flushes
<1>3. /\ delivered \in Seq(Nat) /\ cachedBatches \in Seq(Nat)
      /\ \A f \in Flushes : captured[f].batches \in Seq(Nat)
      /\ Flushes \subseteq Nat
  BY <1>a, <1>b
<1>4. CASE t = "worker"
  <2>1. /\ wpc = "reply" /\ task \in Flushes
        /\ \A f \in Flushes : status[f] = "running" <=> f = task
    BY <1>4, RunningTask DEF ServeOk, IInv, CallsOut
  <2>2. rpc'["worker"].stage = "acked" /\ rpc'["caller"] = rpc["caller"]
        /\ rpc["worker"].stage = "sent"
    BY <1>2, <1>4 DEF ServeOk, Threads
  <2>3. Clearing' = Clearing
    BY <1>1, <2>2 DEF Clearing
  <2>4. Detached(task)
    BY <2>1, <2>2 DEF Detached
  <2>5. \A f \in Flushes : Detached(f)' => Detached(f) /\ task < f
    <3>1. \A f \in Flushes : Detached(f)' => status[f] \in Pending
      BY <1>1, <2>1, <2>2 DEF Detached, Pending
    <3>2. \A f \in Flushes : status[f] \in Pending => Detached(f) /\ task < f
      BY <2>1 DEF Detached, Pending, OldestFirst
    <3>. QED BY <3>1, <3>2
  <2>6. delivered' = delivered \o captured[task].batches
    BY <1>4 DEF ServeOk, Apply, Payload
  <2>7. Ascending(delivered')
    BY <1>3, <2>1, <2>4, <2>6, AscendingConcat DEF Ordered
  <2>8. \A f \in Flushes : Detached(f)' => Precedes(delivered', captured[f].batches)
    <3> SUFFICES ASSUME NEW f \in Flushes, Detached(f)'
                 PROVE  Precedes(delivered \o captured[task].batches, captured[f].batches)
      BY <2>6
    <3>1. Precedes(delivered, captured[f].batches)
          /\ Precedes(captured[task].batches, captured[f].batches)
      BY <2>1, <2>4, <2>5 DEF Ordered
    <3>. QED BY <1>3, <2>1, <3>1, PrecedesConcat
  <2>9. ~Clearing => Precedes(delivered', cachedBatches)
    <3> SUFFICES ASSUME ~Clearing
                 PROVE  Precedes(delivered \o captured[task].batches, cachedBatches)
      BY <2>6
    <3>1. Precedes(delivered, cachedBatches) /\ Precedes(captured[task].batches, cachedBatches)
      BY <2>1, <2>4 DEF Ordered
    <3>. QED BY <1>3, <2>1, <3>1, PrecedesConcat
  <2>. QED BY <1>1, <2>3, <2>5, <2>7, <2>8, <2>9 DEF Ordered
<1>5. CASE t = "caller"
  <2>1. pc = "flush_reply" /\ rpc["caller"].stage = "sent"
    BY <1>5 DEF ServeOk, IInv, CallsOut
  <2>2. rpc'["caller"].stage = "acked" /\ rpc'["worker"] = rpc["worker"]
    BY <1>2, <1>5 DEF ServeOk, Threads
  <2>3. ~Clearing /\ Clearing'
    BY <2>1, <2>2 DEF Clearing
  <2>4. \A f \in Flushes : ~Detached(f)
    <3> SUFFICES ASSUME NEW f \in Flushes, Detached(f) PROVE FALSE
      OBVIOUS
    <3>1. wpc \in {"idle", "release", "resolve"}
      BY <2>1, SettledWorker DEF Settled
    <3>2. status[f] \in Pending
      BY <3>1, TaskInRange DEF Detached, Pending, IInv, FlushStates, Flushes
    <3>3. f \notin pendingFutures \cup awaited
      BY <2>1 DEF IInv, Quiet, Settled
    <3>. QED BY <2>1, <3>2, <3>3 DEF Pending, IInv, Tracking, Submitting
  <2>5. \A f \in Flushes : ~Detached(f)'
    BY <1>1, <2>2, <2>4 DEF Detached
  <2>6. delivered' = delivered \o cachedBatches
    BY <1>5 DEF ServeOk, Apply, Payload
  <2>7. Ascending(delivered')
    BY <1>3, <2>3, <2>6, AscendingConcat DEF Ordered
  <2>. QED BY <1>1, <2>3, <2>5, <2>7 DEF Ordered
<1>. QED
  BY <1>4, <1>5 DEF Threads

LEMMA CaptureOrdered ==
  ASSUME IInv, Known, Ordered, CaptureBufferState
  PROVE  Ordered'
<1>1. /\ captured' = [captured EXCEPT ![flushes + 1] =
                         [batches |-> cachedBatches, size |-> cachedSize]]
      /\ status' = [status EXCEPT ![flushes + 1] = "captured"]
      /\ cachedBatches' = <<>> /\ pc = "capture"
      /\ UNCHANGED <<delivered, wpc, task, rpc>>
  BY DEF CaptureBufferState
<1>2. /\ captured \in [Flushes -> [batches : Seq(Nat), size : Nat]]
      /\ status \in [Flushes -> {"none", "captured", "queued", "running", "done", "failed"}]
      /\ flushes \in Nat /\ Flushes \subseteq Nat
  BY DEF IInv, TypeInv, FutureTypes, Flushes
<1>3. ~Clearing
  BY <1>1, CallerCalm
<1>4. \A f \in Flushes : f = flushes + 1 => captured'[f].batches = cachedBatches
  BY <1>1, <1>2
<1>5. \A f \in Flushes : f # flushes + 1 =>
        captured'[f] = captured[f] /\ (Detached(f)' => Detached(f) /\ f < flushes + 1)
  <2> SUFFICES ASSUME NEW f \in Flushes, f # flushes + 1
               PROVE  captured'[f] = captured[f] /\ (Detached(f)' => Detached(f) /\ f < flushes + 1)
    OBVIOUS
  <2>1. captured'[f] = captured[f] /\ status'[f] = status[f]
    BY <1>1, <1>2
  <2>2. Detached(f)' => Detached(f)
    BY <1>1, <2>1 DEF Detached
  <2>3. Detached(f) => status[f] # "none"
    BY DEF Detached
  <2>4. status[f] # "none" => ~(f > flushes)
    BY DEF IInv, FlushStates
  <2>. QED BY <1>2, <2>1, <2>2, <2>3, <2>4
<1>6. Ascending(delivered') /\ Ascending(cachedBatches')
      /\ \A s : Precedes(s, cachedBatches')
  BY <1>1, EmptyOrdered DEF Ordered
<1>7. \A f \in Flushes : Ascending(captured'[f].batches)
  BY <1>4, <1>5 DEF Ordered
<1>8. \A f \in Flushes : Detached(f)' => Precedes(delivered', captured'[f].batches)
  <2>1. \A f \in Flushes : f = flushes + 1 => Precedes(delivered', captured'[f].batches)
    BY <1>1, <1>3, <1>4 DEF Ordered
  <2>2. \A f \in Flushes : f # flushes + 1 /\ Detached(f)' => Precedes(delivered', captured'[f].batches)
    BY <1>1, <1>5 DEF Ordered
  <2>. QED BY <2>1, <2>2
<1>9. \A f, g \in Flushes : Detached(f)' /\ Detached(g)' /\ f < g =>
        Precedes(captured'[f].batches, captured'[g].batches)
  <2> SUFFICES ASSUME NEW f \in Flushes, NEW g \in Flushes, Detached(f)', Detached(g)', f < g
               PROVE  Precedes(captured'[f].batches, captured'[g].batches)
    OBVIOUS
  <2>1. f # flushes + 1
    <3> SUFFICES ASSUME f = flushes + 1 PROVE FALSE
      OBVIOUS
    <3>1. g # flushes + 1 /\ g < flushes + 1
      BY <1>2, <1>5
    <3>. QED BY <1>2, <3>1
  <2>2. captured'[f] = captured[f] /\ Detached(f)
    BY <1>5, <2>1
  <2>3. CASE g = flushes + 1
    BY <1>4, <2>2, <2>3 DEF Ordered
  <2>4. CASE g # flushes + 1
    BY <1>5, <2>2, <2>4 DEF Ordered
  <2>. QED BY <2>3, <2>4
<1>. QED
  BY <1>6, <1>7, <1>8, <1>9 DEF Ordered

LEMMA AppendKeepsOrder ==
  ASSUME IInv, Known, Ordered, AppendBatch
  PROVE  Ordered'
<1>1. /\ accepted' = accepted + 1 /\ pc = "append" /\ pc' = "load_size"
      /\ cachedBatches' = Append(cachedBatches, accepted + 1)
      /\ UNCHANGED <<delivered, status, captured, wpc, rpc>>
  BY DEF AppendBatch
<1>2. ~Clearing
  BY <1>1, CallerCalm
<1>3. accepted \in Nat /\ accepted + 1 \in Nat /\ accepted + 1 > accepted
  BY DEF IInv, TypeInv, HistoryTypes
<1>4. cachedBatches \in Seq(1..accepted)
  BY DEF Known
<1>5. /\ Ascending(cachedBatches) => Ascending(cachedBatches')
      /\ \A t \in Seq(1..accepted) : Precedes(t, cachedBatches) => Precedes(t, cachedBatches')
  BY <1>1, <1>3, <1>4, AppendOrdered
<1>6. \A f \in Flushes : Detached(f)' => Detached(f)
  BY <1>1 DEF Detached
<1>. QED
  BY <1>1, <1>2, <1>5, <1>6 DEF Ordered, Known

LEMMA OrderedStep ==
  ASSUME IInv, Known, OldestFirst, Smooth, Ordered, FailureFree, [Next]_vars,
         UNCHANGED <<failures, repeatable>>
  PROVE  Ordered'
<1>1. /\ status \in [Flushes -> {"none", "captured", "queued", "running", "done", "failed"}]
      /\ captured \in [Flushes -> [batches : Seq(Nat), size : Nat]]
      /\ rpc \in [Threads -> [stage : {"none", "sent", "acked", "refused"}, offset : Nat]]
      /\ failures \in Nat
  BY BoundsAssumption DEF IInv, TypeInv, FutureTypes, ServiceTypes, BoundsAssumption
<1>2. ~RestoreLoad /\ ~RestoreStore /\ ~RestoreLoadSize /\ ~RestoreStoreSize
  BY DEF Smooth, Restoring, RestoreLoad, RestoreStore, RestoreLoadSize, RestoreStoreSize
<1>3. \A t \in Threads : ~ServeFailure(t) /\ ~RaiseResponse(t)
  BY <1>1 DEF ServeFailure, RaiseResponse, Smooth
<1>4. CASE Serve
  BY <1>3, <1>4, ServeOrdered DEF Serve
<1>5. CASE ClearBufferState
  <2>1. /\ cachedBatches' = <<>> /\ UNCHANGED <<delivered, captured, status, wpc, rpc>>
    BY <1>5 DEF ClearBufferState
  <2>2. \A f \in Flushes : Detached(f)' => Detached(f)
    BY <2>1 DEF Detached
  <2>. QED BY <2>1, <2>2, EmptyOrdered DEF Ordered
<1>6. CASE FlushReply \/ FlushRest
  <2>1. /\ UNCHANGED <<delivered, cachedBatches, captured, status, wpc>>
        /\ rpc'["worker"] = rpc["worker"]
    BY <1>1, <1>6 DEF FlushReply, FlushRest, StoreResponse, RaiseResponse, SendWrite, Threads
  <2>2. \A f \in Flushes : Detached(f)' => Detached(f)
    BY <2>1 DEF Detached
  <2>3. Clearing => Clearing'
    <3>1. CASE FlushReply
      BY <1>3, <3>1 DEF FlushReply, Clearing, Threads
    <3>2. CASE FlushRest
      BY <3>2, CallerCalm DEF FlushRest
    <3>. QED BY <1>6, <3>1, <3>2
  <2>. QED BY <2>1, <2>2, <2>3, OrderKept
<1>7. CASE ResolveFuture
  <2>1. /\ wpc = "resolve" /\ UNCHANGED <<rpc, cachedBatches, delivered, pc>>
        /\ status' = [status EXCEPT ![task] = outcome]
        /\ captured' = [captured EXCEPT ![task] = Empty]
        /\ outcome \in {"done", "failed"}
    BY <1>7 DEF ResolveFuture, IInv, TypeInv, WorkerTypes
  <2>2. task \in Flushes /\ (\A f \in Flushes : status[f] = "running" <=> f = task)
    BY <2>1, RunningTask
  <2>3. \A f \in Flushes : f = task => ~Detached(f)' /\ captured'[f].batches = <<>>
    BY <1>1, <2>1, <2>2 DEF Detached, Empty
  <2>4. \A f \in Flushes : f # task => captured'[f] = captured[f] /\ (Detached(f)' => Detached(f))
    BY <1>1, <2>1, <2>2 DEF Detached
  <2>5. \A f \in Flushes : Ascending(captured'[f].batches)
    BY <2>3, <2>4, EmptyOrdered DEF Ordered
  <2>6. Clearing' = Clearing
    BY <2>1 DEF Clearing
  <2>7. \A f \in Flushes : Detached(f)' => Detached(f) /\ captured'[f] = captured[f]
    BY <2>3, <2>4
  <2>. QED BY <2>1, <2>5, <2>6, <2>7 DEF Ordered
<1>8. CASE TakeTask \/ WorkerSend \/ WorkerReply \/ Untrack \/ ReleaseSemaphore
  <2>1. /\ UNCHANGED <<delivered, cachedBatches, captured, pc>>
        /\ rpc'["caller"] = rpc["caller"]
    BY <1>1, <1>8 DEF TakeTask, WorkerSend, WorkerReply, Untrack, ReleaseSemaphore, SendWrite,
       StoreResponse, RaiseResponse, Threads
  <2>2. Clearing' = Clearing
    BY <2>1 DEF Clearing
  <2>3. wpc' \notin Restoring
    BY SmoothStep DEF Smooth
  <2>4. \A f \in Flushes : Detached(f)' => Detached(f)
    <3>1. CASE TakeTask
      <4>1. PICK f \in Flushes : status[f] = "queued" /\ status' = [status EXCEPT ![f] = "running"]
        BY <3>1 DEF TakeTask, Queued
      <4>2. \A g \in Flushes : status[g] # "running"
        BY <3>1, TaskInRange DEF TakeTask, IInv, FlushStates, Flushes
      <4>. QED BY <1>1, <4>1, <4>2 DEF Detached
    <3>2. CASE WorkerSend
      <4>1. wpc = "send" /\ UNCHANGED status
        BY <3>2 DEF WorkerSend
      <4>. QED BY <4>1 DEF Detached
    <3>3. CASE WorkerReply \/ Untrack \/ ReleaseSemaphore
      <4>1. UNCHANGED status /\ wpc' \in {"untrack", "release", "resolve", "restore_load"}
        BY <3>3 DEF WorkerReply, Untrack, ReleaseSemaphore, OnFailure
      <4>. QED BY <2>3, <4>1 DEF Detached, Restoring
    <3>. QED BY <1>8, <3>1, <3>2, <3>3
  <2>. QED BY <2>1, <2>2, <2>4, OrderKept
<1>9. CASE Submit
  <2>1. /\ status' = [status EXCEPT ![flushes] = "queued"] /\ pc = "submit"
        /\ UNCHANGED <<delivered, captured, cachedBatches, wpc, rpc>>
    BY <1>9 DEF Submit
  <2>2. \A f \in Flushes : status[f] = "captured" <=> f = flushes
    BY <2>1 DEF IInv, FlushStates
  <2>3. \A f \in Flushes : Detached(f)' => Detached(f)
    BY <1>1, <2>1, <2>2 DEF Detached
  <2>4. ~Clearing
    BY <2>1, CallerCalm
  <2>. QED BY <2>1, <2>3, <2>4, OrderKept
<1>10. CASE
       WriteBatch \/ CallFlushAsync \/ CloseAgain \/ AwaitPendingFlush \/
       GetRowOffset \/ RejectBatch \/ LoadSize \/ StoreSize \/
       CheckThreshold \/ FlushAsync \/ AcquireSemaphore \/
       AssignFuture \/ TrackFuture \/ Awaited \/ Flushed \/ CloseStream \/ JoinWorker \/
       StoreRowOffset
  <2>1. UNCHANGED <<delivered, captured, cachedBatches, wpc, rpc, status>>
        /\ pc \notin {"clear", "flush_reply"}
    BY <1>10 DEF
       WriteBatch, CallFlushAsync, CloseAgain, AwaitPendingFlush, GetRowOffset,
       RejectBatch, LoadSize, StoreSize, CheckThreshold, FlushAsync,
       AcquireSemaphore, AssignFuture, TrackFuture, Awaited, Flushed, CloseStream,
       JoinWorker, StoreRowOffset, SurfaceFailedFutures
  <2>2. ~Clearing /\ \A f \in Flushes : Detached(f)' => Detached(f)
    BY <2>1, CallerCalm DEF Detached
  <2>. QED BY <2>1, <2>2, OrderKept
<1>11. CASE UNCHANGED vars
  BY <1>11 DEF Ordered, Detached, Clearing
<1>. QED
  BY <1>2, <1>4, <1>5, <1>6, <1>7, <1>8, <1>9, <1>10, <1>11, CaptureOrdered, AppendKeepsOrder
  DEF Next, CallerCalls, CallerContinues, WorkerSteps

(* While nothing fails, the table receives the rows in the order write_batch *)
(* took them, whichever flushes carry them.                                  *)
THEOREM OrderKeptWithoutFailure == Spec => []OrderWithoutFailure
<1>1. Init => OrderInv
  <2> SUFFICES ASSUME Init PROVE OrderInv
    OBVIOUS
  <2>1. Known
    BY InitRowInv DEF RowInv
  <2>2. /\ delivered = <<>> /\ cachedBatches = <<>> /\ pc = "idle" /\ wpc = "idle"
        /\ \A f \in Flushes : status[f] = "none" /\ captured[f].batches = <<>>
        /\ \A t \in Threads : rpc[t].stage = "none"
    BY DEF Init, Empty, NoCall
  <2>3. Smooth /\ OldestFirst
    BY <2>2 DEF Smooth, OldestFirst, Restoring, Pending
  <2>4. Ordered
    BY <2>2, EmptyOrdered DEF Ordered
  <2>. QED BY <2>1, <2>3, <2>4 DEF OrderInv
<1>2. IInv /\ OrderInv /\ [Next]_vars => OrderInv'
  <2> SUFFICES ASSUME IInv, OrderInv, [Next]_vars PROVE OrderInv'
    OBVIOUS
  <2>1. Known' /\ OldestFirst'
    BY KnownStep, OldestFirstStep DEF OrderInv
  <2>2. ASSUME FailureFree' PROVE Smooth' /\ Ordered'
    <3>1. FailureFree /\ UNCHANGED <<failures, repeatable>>
      BY <2>2, FailureFreeBefore
    <3>. QED BY <3>1, SmoothStep, OrderedStep DEF OrderInv
  <2>. QED BY <2>1, <2>2 DEF OrderInv
<1>3. OrderInv => OrderWithoutFailure
  BY DEF OrderInv, FailureFree, Ordered, Ascending, OrderWithoutFailure
<1>. QED
  BY <1>1, <1>2, <1>3, Invariance, PTL DEF Spec

-----------------------------------------------------------------------------
(* What a flush that returns has delivered.                                *)

\* A call that failed although it was applied left its rows in the table.
Applied ==
  /\ repeatable \subseteq Range(delivered)
  /\ rpc["worker"].stage = "acked" \/ wpc = "untrack" =>
       Range(captured[task].batches) \subseteq Range(delivered)

Drained == pc = "flushed" => cachedBatches = <<>>

ArrowInv == IInv /\ RowInv /\ Applied /\ Drained

AllDelivered == 1..accepted \subseteq Range(delivered) \cup raced

LEMMA RangeConcat ==
  ASSUME NEW s \in Seq(Nat), NEW t \in Seq(Nat)
  PROVE  Range(s \o t) = Range(s) \cup Range(t)
<1>1. ASSUME NEW i \in DOMAIN (s \o t) PROVE (s \o t)[i] \in Range(s) \cup Range(t)
  <2>1. CASE i <= Len(s)
    BY <2>1 DEF Range
  <2>2. CASE i > Len(s)
    <3>1. i - Len(s) \in DOMAIN t /\ (s \o t)[i] = t[i - Len(s)]
      BY <2>2
    <3>. QED BY <3>1 DEF Range
  <2>. QED BY <2>1, <2>2
<1>2. ASSUME NEW i \in DOMAIN s PROVE s[i] \in Range(s \o t)
  <2>1. i \in DOMAIN (s \o t) /\ (s \o t)[i] = s[i]
    OBVIOUS
  <2>. QED BY <2>1 DEF Range
<1>3. ASSUME NEW i \in DOMAIN t PROVE t[i] \in Range(s \o t)
  <2>1. Len(s) + i \in DOMAIN (s \o t) /\ (s \o t)[Len(s) + i] = t[i]
    OBVIOUS
  <2>. QED BY <2>1 DEF Range
<1>. QED BY <1>1, <1>2, <1>3 DEF Range

LEMMA ServeDelivers ==
  ASSUME IInv, Serve
  PROVE  /\ Range(delivered) \subseteq Range(delivered')
         /\ UNCHANGED <<pc, wpc, task, captured, cachedBatches, accepted, raced>>
         /\ repeatable' \subseteq repeatable \cup Range(delivered')
         /\ rpc'["worker"].stage = "acked" =>
              rpc["worker"].stage = "acked" \/ Range(captured[task].batches) \subseteq Range(delivered')
<1>1. PICK t \in Threads : ServeOk(t) \/ ServeFailure(t)
  BY DEF Serve
<1>2. UNCHANGED <<pc, wpc, task, captured, cachedBatches, accepted, raced>>
  BY DEF Serve
<1>3. rpc[t].stage = "sent" /\ (Apply(t) \/ UNCHANGED delivered)
  BY <1>1 DEF ServeOk, ServeFailure
<1>4. delivered \in Seq(Nat) /\ Payload(t).batches \in Seq(Nat)
  BY <1>3, PayloadType DEF IInv, TypeInv, ServiceTypes
<1>5. Apply(t) => Range(delivered') = Range(delivered) \cup Range(Payload(t).batches)
  BY <1>4, RangeConcat DEF Apply
<1>6. repeatable' \subseteq repeatable \cup Range(delivered')
  <2>1. UNCHANGED repeatable \/ (Apply(t) /\ repeatable' = repeatable \cup Range(Payload(t).batches))
    BY <1>1, Zenon DEF ServeOk, ServeFailure
  <2>. QED BY <1>5, <2>1
<1>7. ASSUME rpc'["worker"].stage = "acked", rpc["worker"].stage # "acked"
      PROVE  Range(captured[task].batches) \subseteq Range(delivered')
  <2>1. rpc \in [Threads -> [stage : {"none", "sent", "acked", "refused"}, offset : Nat]]
    BY DEF IInv, TypeInv, ServiceTypes
  <2>2. ServeOk(t) /\ t = "worker"
    BY <1>1, <1>7, <2>1 DEF ServeOk, ServeFailure, Threads
  <2>. QED BY <1>5, <2>2 DEF ServeOk, Payload
<1>. QED BY <1>2, <1>3, <1>5, <1>6, <1>7

LEMMA DeliveredGrows ==
  ASSUME IInv, [Next]_vars
  PROVE  Range(delivered) \subseteq Range(delivered')
<1>1. Serve \/ UNCHANGED delivered
  BY DEF Next, CallerCalls, CallerContinues, WorkerSteps, WriteBatch, CallFlushAsync,
     CloseAgain, AwaitPendingFlush, GetRowOffset, RejectBatch, AppendBatch, LoadSize, StoreSize,
     CheckThreshold, FlushAsync, AcquireSemaphore, CaptureBufferState, Submit, AssignFuture,
     TrackFuture, Awaited, FlushRest, FlushReply, ClearBufferState, Flushed, CloseStream,
     JoinWorker, StoreRowOffset, TakeTask, WorkerSend, WorkerReply, Untrack, RestoreLoad,
     RestoreStore, RestoreLoadSize, RestoreStoreSize, ReleaseSemaphore, ResolveFuture
<1>. QED BY <1>1, ServeDelivers

LEMMA AppliedStep ==
  ASSUME IInv, Applied, [Next]_vars
  PROVE  Applied'
<1>. DEFINE Here == Range(captured[task].batches)
<1>0. /\ rpc \in [Threads -> [stage : {"none", "sent", "acked", "refused"}, offset : Nat]]
      /\ rpc["worker"].stage # "none" => wpc = "reply"
  BY DEF IInv, TypeInv, ServiceTypes, CallsOut
<1>1. CASE Serve
  BY <1>1, ServeDelivers DEF Applied
<1>2. CASE WorkerReply
  <2>1. UNCHANGED <<captured, task, delivered, repeatable>>
    BY <1>2 DEF WorkerReply
  <2>2. rpc'["worker"].stage = "none"
    BY <1>0, <1>2 DEF WorkerReply, StoreResponse, RaiseResponse, NoCall, Threads
  <2>3. wpc' = "untrack" => rpc["worker"].stage = "acked"
    BY <1>2 DEF WorkerReply, StoreResponse, OnFailure
  <2>. QED BY <2>1, <2>2, <2>3 DEF Applied
<1>3. CASE Untrack
  <2>1. /\ wpc = "untrack" /\ repeatable' \subseteq repeatable \cup Here
        /\ UNCHANGED <<delivered, captured, task, rpc>>
    BY <1>3 DEF Untrack
  <2>2. wpc' # "untrack" /\ rpc'["worker"].stage = "none"
    BY <1>0, <1>3, <2>1 DEF Untrack, Threads
  <2>. QED BY <2>1, <2>2 DEF Applied
<1>4. CASE TakeTask
  <2>1. rpc'["worker"].stage = "none" /\ wpc' # "untrack" /\ UNCHANGED <<repeatable, delivered>>
    BY <1>0, <1>4 DEF TakeTask, Threads
  <2>. QED BY <2>1 DEF Applied
<1>5. CASE WorkerSend
  <2>1. rpc'["worker"].stage = "sent" /\ wpc' # "untrack" /\ UNCHANGED <<repeatable, delivered>>
    BY <1>0, <1>5 DEF WorkerSend, SendWrite, Threads
  <2>. QED BY <2>1 DEF Applied
<1>6. CASE ResolveFuture
  <2>1. rpc'["worker"].stage = "none" /\ wpc' # "untrack" /\ UNCHANGED <<repeatable, delivered>>
    BY <1>0, <1>6 DEF ResolveFuture, Threads
  <2>. QED BY <2>1 DEF Applied
<1>7. CASE RestoreLoad \/ RestoreStore \/ RestoreLoadSize \/ RestoreStoreSize \/ ReleaseSemaphore
  <2>1. rpc'["worker"].stage = "none" /\ wpc' # "untrack" /\ UNCHANGED <<repeatable, delivered>>
    BY <1>0, <1>7 DEF RestoreLoad, RestoreStore, RestoreLoadSize, RestoreStoreSize,
       ReleaseSemaphore, Threads
  <2>. QED BY <2>1 DEF Applied
<1>8. CASE FlushRest \/ FlushReply
  <2>1. rpc'["worker"] = rpc["worker"] /\ UNCHANGED <<repeatable, delivered, captured, task, wpc>>
    BY <1>0, <1>8 DEF FlushRest, FlushReply, SendWrite, StoreResponse, RaiseResponse, Threads
  <2>. QED BY <2>1 DEF Applied
<1>9. CASE CaptureBufferState
  <2>1. UNCHANGED <<repeatable, delivered, task, wpc, rpc>> /\ flushes' = flushes + 1
        /\ captured' = [captured EXCEPT ![flushes'] = [batches |-> cachedBatches, size |-> cachedSize]]
    BY <1>9 DEF CaptureBufferState
  <2>2. wpc # "idle" => task \in Flushes /\ task <= flushes
    BY RunningTask, BoundsAssumption DEF IInv, FlushStates, Flushes, TypeInv, FutureTypes,
       BoundsAssumption
  <2>3. ASSUME wpc # "idle" PROVE captured'[task] = captured[task]
    <3>1. task # flushes'
      BY <2>1, <2>2, <2>3 DEF Flushes, IInv, TypeInv, FutureTypes
    <3>. QED BY <2>1, <2>2, <2>3, <3>1 DEF IInv, TypeInv, FutureTypes
  <2>. QED BY <1>0, <2>1, <2>3 DEF Applied
<1>10. CASE
       WriteBatch \/ CallFlushAsync \/ CloseAgain \/ AwaitPendingFlush \/
       GetRowOffset \/ RejectBatch \/ AppendBatch \/ LoadSize \/ StoreSize \/
       CheckThreshold \/ FlushAsync \/ AcquireSemaphore \/ Submit \/
       AssignFuture \/ TrackFuture \/ Awaited \/ ClearBufferState \/ Flushed \/
       CloseStream \/ JoinWorker \/ StoreRowOffset \/ UNCHANGED vars
  <2>1. UNCHANGED <<repeatable, delivered, task, wpc, rpc, captured>>
    BY <1>10 DEF
       WriteBatch, CallFlushAsync, CloseAgain, AwaitPendingFlush, GetRowOffset,
       RejectBatch, AppendBatch, LoadSize, StoreSize, CheckThreshold, FlushAsync,
       AcquireSemaphore, Submit, AssignFuture, TrackFuture, Awaited,
       ClearBufferState, Flushed, CloseStream, JoinWorker, StoreRowOffset, SurfaceFailedFutures
  <2>. QED BY <2>1 DEF Applied
<1>. QED
  BY <1>1, <1>2, <1>3, <1>4, <1>5, <1>6, <1>7, <1>8, <1>9, <1>10
  DEF Next, CallerCalls, CallerContinues, WorkerSteps

LEMMA DrainedStep ==
  ASSUME IInv, Drained, [Next]_vars
  PROVE  Drained'
<1>. SUFFICES ASSUME pc' = "flushed" PROVE cachedBatches' = <<>>
  BY DEF Drained
<1>1. CASE WorkerSteps \/ Serve \/ UNCHANGED vars
  <2>1. pc = "flushed"
    BY <1>1 DEF WorkerSteps, TakeTask, WorkerSend, WorkerReply, Untrack, RestoreLoad,
       RestoreStore, RestoreLoadSize, RestoreStoreSize, ReleaseSemaphore, ResolveFuture, Serve
  <2>2. wpc \in {"idle", "release", "resolve"}
    BY <2>1, SettledWorker DEF Settled
  <2>3. UNCHANGED cachedBatches
    BY <1>1, <2>2 DEF WorkerSteps, TakeTask, WorkerSend, WorkerReply, Untrack, RestoreLoad,
       RestoreStore, RestoreLoadSize, RestoreStoreSize, ReleaseSemaphore, ResolveFuture, Serve
  <2>. QED BY <2>1, <2>3 DEF Drained
<1>2. CASE CallerCalls \/ CallerContinues
  <2>1. FlushRest \/ ClearBufferState
    BY <1>2 DEF CallerCalls, CallerContinues, NextBatch, FlushRaises, WriteBatch,
       CallFlushAsync, CloseAgain, AwaitPendingFlush, GetRowOffset, RejectBatch, AppendBatch,
       LoadSize, StoreSize, CheckThreshold, FlushAsync, AcquireSemaphore, CaptureBufferState,
       Submit, AssignFuture, TrackFuture, Awaited, FlushReply, Flushed, CloseStream, JoinWorker,
       StoreRowOffset
  <2>2. CASE FlushRest
    BY <2>2 DEF FlushRest, FlushRaises
  <2>3. CASE ClearBufferState
    BY <2>3 DEF ClearBufferState
  <2>. QED BY <2>1, <2>2, <2>3
<1>. QED BY <1>1, <1>2 DEF Next

LEMMA ArrowStepInv ==
  ASSUME ArrowInv, [Next]_vars
  PROVE  ArrowInv'
BY NextIInv, KnownStep, CapturedOnceStep, RestoredCacheStep, RowsConservedStep, AppliedStep,
   DrainedStep DEF ArrowInv, RowInv

LEMMA ArrowInitInv == Init => ArrowInv
<1>. SUFFICES ASSUME Init PROVE Applied /\ Drained
  BY InitIInv, InitRowInv DEF ArrowInv
<1>. QED BY DEF Init, Applied, Drained, NoCall, Threads

\* flush() has nothing left to send.
LEMMA FlushDelivers ==
  ASSUME ArrowInv, pc = "flushed"
  PROVE  AllDelivered
<1>1. wpc \in {"idle", "release", "resolve"} /\ cachedBatches = <<>>
  BY SettledWorker DEF ArrowInv, Drained, Settled
<1>2. \A f \in Flushes : ~Detached(f)
  <2>. SUFFICES ASSUME NEW f \in Flushes, Detached(f) PROVE FALSE
    OBVIOUS
  <2>1. status[f] \in {"captured", "queued"}
    BY <1>1 DEF Detached
  <2>2. f \notin pendingFutures \cup awaited /\ ~Submitting(f)
    BY DEF ArrowInv, IInv, Quiet, Settled, Submitting
  <2>. QED BY <2>1, <2>2 DEF ArrowInv, IInv, Tracking
<1>3. ASSUME NEW b \in 1..accepted, b \notin raced \cup repeatable
      PROVE  b \in Range(delivered)
  <2>1. Places(b) = 1
    BY <1>3 DEF ArrowInv, RowInv, RowsConserved
  <2>2. Count(b, cachedBatches) = 0
    BY <1>1, CountEmpty
  <2>3. {f \in Flushes : Detached(f) /\ b \in Range(captured[f].batches)} = {}
    BY <1>2
  <2>4. Cardinality({f \in Flushes : Detached(f) /\ b \in Range(captured[f].batches)}) = 0
    BY <2>3, FS_EmptySet
  <2>5. Count(b, delivered) + (IF Clearing THEN 0 ELSE 0) + 0 = 1
    BY <2>1, <2>2, <2>4, Zenon DEF Places
  <2>6. Count(b, delivered) # 0
    BY <2>5
  <2>7. {i \in DOMAIN delivered : delivered[i] = b} # {}
    BY <2>6, FS_EmptySet DEF Count
  <2>. QED BY <2>7 DEF Range
<1>. QED BY <1>3 DEF AllDelivered, ArrowInv, Applied

-----------------------------------------------------------------------------
(* The record writer                                                       *)

AsyncSteps == {"flush_async", "acquire", "capture", "submit", "assign", "track"}
TakenSteps == {"load_size", "store_size", "threshold"} \cup AsyncSteps
FlushSteps == {"await", "flush_rest", "flush_reply", "clear", "flushed"}

\* Which calls of the Arrow writer are inside which of the record writer.
Stages ==
  /\ stage \in {"flush_records", "write_batch", "flush_arrow", "close_arrow"} => pc = "idle"
  /\ stage = "batching" =>
       /\ pc \in {"idle", "append"} \cup TakenSteps
       /\ pc # "idle" => op = "write_batch" /\ left = 1
  /\ stage # "batching" =>
       /\ pc \notin {"append", "load_size", "store_size", "threshold"}
       /\ pc \in AsyncSteps => op = "flush_async"
  /\ stage = "flushing" =>
       pc \in FlushSteps \cup {"idle"} /\ (pc # "idle" => op = "flush" /\ result = "none")
  /\ pc = "append" => accepted < MaxBatches
  /\ stage \in {"flush_arrow", "flushing", "close_arrow", "closing"} => rowBuffer = <<>>

RowRecord == [row : Nat, cells : Seq(Seq(Nat))]
RecordTypes ==
  /\ rows \in Nat /\ rowBuffer \in Seq(RowRecord) /\ pendingItems \in Seq(Seq(Nat))
  /\ blobFiles \in Nat /\ accepted \in 0..MaxBatches
  /\ DOMAIN content = Batches /\ \A k \in Batches : content[k] \in Seq(RowRecord)

\* Rows are numbered as they are taken.
Numbered ==
  /\ RowIds(rowBuffer) \subseteq 1..rows
  /\ \A k \in 1..accepted : RowIds(content[k]) \subseteq 1..rows

InOneBatch(r) == \E k \in 1..accepted : BatchesOf(r) = {k}

\* Every row is in the buffer or in one batch.
OnceEach ==
  \A r \in (1..rows) \ resent :
    IF r \in RowIds(rowBuffer) THEN BatchesOf(r) = {} ELSE InOneBatch(r)

\* The buffer is in the Arrow writer's cache as well.
JustBatched ==
  /\ accepted >= 1 /\ content[accepted] = rowBuffer
  /\ \A r \in (1..rows) \ resent : InOneBatch(r)

Covered == \A r \in 1..rows : r \in RowIds(rowBuffer) \/ BatchesOf(r) # {}

Batched ==
  /\ Covered
  /\ stage # "batching" \/ pc = "append" => OnceEach
  /\ stage = "batching" /\ pc # "append" =>
       JustBatched \/ (pc = "idle" /\ result = "raised" /\ OnceEach)

\* A cell has its blob's reference, or its placeholder.
CellMatches(r, j, cell) ==
  \/ cell = <<r, j>>
  \/ \E m \in DOMAIN pendingItems : cell = <<m>> /\ pendingItems[m] = <<r, j>>

Matching ==
  /\ \A i \in DOMAIN rowBuffer : \A j \in DOMAIN rowBuffer[i].cells :
       CellMatches(rowBuffer[i].row, j, rowBuffer[i].cells[j])
  /\ stage \in {"write_batch", "batching"} =>
       \A i \in DOMAIN rowBuffer : \A j \in DOMAIN rowBuffer[i].cells :
         rowBuffer[i].cells[j] = <<rowBuffer[i].row, j>>
  /\ \A k \in 1..accepted : \A i \in DOMAIN content[k] : \A j \in DOMAIN content[k][i].cells :
       content[k][i].cells[j] = <<content[k][i].row, j>>

BlobsCounted ==
  /\ Len(rowBuffer) <= rows /\ rows <= MaxRows
  /\ \A i \in DOMAIN rowBuffer : Len(rowBuffer[i].cells) <= MaxBlobs
  /\ blobFiles = Cardinality(BlobCells)

Deliveries ==
  /\ stage = "flushing" /\ pc = "idle" /\ result = "ok" => AllDelivered
  /\ stage \in {"close_arrow", "closing"} => AllDelivered
  /\ RecordsDelivered

RecordInv ==
  /\ ArrowInv
  /\ Stages /\ RecordTypes /\ Numbered /\ Batched /\ Matching /\ BlobsCounted /\ Deliveries

-----------------------------------------------------------------------------
(* Steps of the record writer                                              *)

ArrowGoesOn == ArrowStep(CallerContinues) \/ ArrowStep(WorkerSteps) \/ ArrowStep(Serve)

\* The record writer's own steps, which are none of the Arrow writer's.
OwnSteps ==
  \/ Write \/ WriteRaises \/ CallFlush \/ NothingToFlush \/ UploadPendingBlobs
  \/ BatchTaken \/ BatchRaises \/ ArrowFlushed \/ ArrowReturns

CallsArrow == DirectCall \/ CallWriteBatch \/ CallArrowFlush \/ CallArrowClose

LEMMA RecordSteps == RecordNext <=> OwnSteps \/ CallsArrow \/ ArrowGoesOn
BY DEF RecordNext, RecordContinues, OwnSteps, CallsArrow, ArrowGoesOn

LEMMA OwnStepsKeep ==
  ASSUME OwnSteps
  PROVE  UNCHANGED vars /\ UNCHANGED content
BY DEF OwnSteps, Write, WriteRaises, CallFlush, NothingToFlush, UploadPendingBlobs, BatchTaken,
   BatchRaises, ArrowFlushed, ArrowReturns, recordHistory

LEMMA CallsKeep ==
  ASSUME CallsArrow
  PROVE  /\ UNCHANGED <<rowBuffer, pendingItems, blobFiles, rows, content, resent, accepted, raced>>
         /\ UNCHANGED delivered /\ Next
BY DEF CallsArrow, DirectCall, CallWriteBatch, CallArrowFlush, CallArrowClose, recordBuffer,
   recordHistory, Next, CallerCalls, CallFlushAsync, CloseAgain, AwaitPendingFlush, WriteBatch,
   SurfaceFailedFutures

LEMMA GoesOnKeeps ==
  ASSUME ArrowGoesOn
  PROVE  /\ UNCHANGED <<stage, request, answer, rowBuffer, pendingItems, blobFiles, rows, resent>>
         /\ CallerContinues \/ WorkerSteps \/ Serve
         /\ Next
BY DEF ArrowGoesOn, ArrowStep, recordCall, recordBuffer, Next

LEMMA ArrowSteps ==
  ASSUME [RecordNext]_recordVars
  PROVE  [Next]_vars
BY RecordSteps, OwnStepsKeep, CallsKeep, GoesOnKeeps DEF recordVars

LEMMA OthersStay ==
  ASSUME WorkerSteps \/ Serve
  PROVE  UNCHANGED <<pc, op, result, left, accepted, raced>>
BY DEF WorkerSteps, TakeTask, WorkerSend, WorkerReply, Untrack, RestoreLoad, RestoreStore,
   RestoreLoadSize, RestoreStoreSize, ReleaseSemaphore, ResolveFuture, Serve

LEMMA BatchGoesOn ==
  ASSUME CallerContinues, pc \in {"append"} \cup TakenSteps, op = "write_batch", left = 1
  PROVE  /\ op' = op /\ pc' \in {"idle"} \cup TakenSteps
         /\ pc' # "idle" => left' = 1
         /\ pc = "append" => \/ AppendBatch /\ pc' = "load_size"
                             \/ pc' = "idle" /\ result' = "raised" /\ accepted' = accepted
         /\ pc # "append" => ~AppendBatch
BY DEF CallerContinues, TakenSteps, AsyncSteps, NextBatch, RejectBatch, AppendBatch, LoadSize,
   StoreSize, CheckThreshold, FlushAsync, AcquireSemaphore, CaptureBufferState, Submit,
   AssignFuture, TrackFuture, Awaited, FlushRest, FlushReply, ClearBufferState, Flushed,
   CloseStream, JoinWorker, StoreRowOffset

LEMMA AsyncGoesOn ==
  ASSUME CallerContinues, pc \in AsyncSteps, op = "flush_async"
  PROVE  op' = op /\ pc' \in {"idle"} \cup AsyncSteps
BY DEF CallerContinues, AsyncSteps, NextBatch, RejectBatch, AppendBatch, LoadSize, StoreSize,
   CheckThreshold, FlushAsync, AcquireSemaphore, CaptureBufferState, Submit, AssignFuture,
   TrackFuture, Awaited, FlushRest, FlushReply, ClearBufferState, Flushed, CloseStream,
   JoinWorker, StoreRowOffset

LEMMA FlushGoesOn ==
  ASSUME CallerContinues, pc \notin {"append"} \cup TakenSteps
  PROVE  /\ op' = op /\ pc' \notin {"append"} \cup TakenSteps /\ pc # "idle"
         /\ op = "flush" /\ result = "none" /\ pc \in FlushSteps =>
              /\ pc' \in FlushSteps \cup {"idle"}
              /\ pc' # "idle" => result' = "none"
              /\ pc' = "idle" /\ result' = "ok" =>
                   pc = "flushed" /\ UNCHANGED <<accepted, raced, delivered>>
BY DEF CallerContinues, TakenSteps, AsyncSteps, FlushSteps, FlushRaises, RejectBatch,
   AppendBatch, LoadSize, StoreSize, CheckThreshold, FlushAsync, AcquireSemaphore,
   CaptureBufferState, Submit, AssignFuture, TrackFuture, Awaited, FlushRest, FlushReply,
   ClearBufferState, Flushed, CloseStream, JoinWorker, StoreRowOffset

\* A batch is cached inside write_batch, and nowhere else.
LEMMA Cached ==
  ASSUME IInv, Stages, RecordTypes, RecordNext
  PROVE  \/ UNCHANGED <<accepted, content>>
         \/ /\ ArrowGoesOn /\ stage = "batching" /\ pc = "append" /\ pc' = "load_size"
            /\ accepted < MaxBatches /\ accepted' = accepted + 1
            /\ content' = [content EXCEPT ![accepted'] = rowBuffer]
<1>1. CASE OwnSteps
  BY <1>1, OwnStepsKeep
<1>2. CASE CallsArrow
  BY <1>2, CallsKeep
<1>3. CASE ArrowGoesOn
  <2>1. content' = IF accepted' # accepted THEN [content EXCEPT ![accepted'] = rowBuffer] ELSE content
    BY <1>3 DEF ArrowGoesOn, ArrowStep
  <2>2. CASE AppendBatch
    <3>1. pc = "append" /\ accepted' = accepted + 1 /\ pc' = "load_size"
      BY <2>2 DEF AppendBatch
    <3>2. stage = "batching" /\ accepted < MaxBatches /\ accepted \in Nat
      BY <3>1 DEF Stages, RecordTypes
    <3>. QED BY <1>3, <2>1, <3>1, <3>2
  <2>3. CASE accepted' = accepted
    BY <2>1, <2>3
  <2>. QED BY <1>3, <2>2, <2>3, GoesOnKeeps, HistoryGrows
<1>. QED BY <1>1, <1>2, <1>3, RecordSteps

LEMMA StagesStep ==
  ASSUME IInv, Stages, RecordTypes, RecordNext
  PROVE  Stages'
<1>1. CASE OwnSteps
  <2>1. UNCHANGED <<pc, op, result, left, accepted>>
    BY <1>1, OwnStepsKeep
  <2>2. CASE Write \/ WriteRaises \/ CallFlush
    BY <2>1, <2>2 DEF Write, WriteRaises, CallFlush, Room, Stages, recordBuffer
  <2>3. CASE NothingToFlush \/ UploadPendingBlobs
    BY <2>1, <2>3 DEF NothingToFlush, UploadPendingBlobs, AfterRecords, EndRecordCall, Step,
       Stages, recordBuffer
  <2>4. CASE BatchTaken \/ BatchRaises
    BY <2>1, <2>4 DEF BatchTaken, BatchRaises, AfterRecords, EndRecordCall, Step, Stages,
       Returned, ClearedRows, AsyncSteps
  <2>5. CASE ArrowFlushed \/ ArrowReturns
    BY <2>1, <2>5 DEF ArrowFlushed, ArrowReturns, EndRecordCall, Step, Stages, Returned,
       recordBuffer, AsyncSteps
  <2>. QED BY <1>1, <2>2, <2>3, <2>4, <2>5 DEF OwnSteps
<1>2. CASE DirectCall
  BY <1>2 DEF DirectCall, CallFlushAsync, CloseAgain, AwaitPendingFlush, Stages, recordCall,
     recordBuffer, AsyncSteps
<1>3. CASE CallWriteBatch
  <2>1. /\ pc' \in {"idle", "append"} /\ (pc' = "append" => op' = "write_batch")
        /\ left' = 1 /\ stage' = "batching" /\ accepted' = accepted
        /\ \E n \in 1..MaxTableBatches : accepted + n <= MaxBatches /\ left' = n
    BY <1>3 DEF CallWriteBatch, WriteBatch, SurfaceFailedFutures, Step
  <2>2. accepted < MaxBatches
    BY <2>1, BoundsAssumption DEF BoundsAssumption, RecordTypes
  <2>. QED BY <2>1, <2>2 DEF Stages, TakenSteps
<1>4. CASE CallArrowFlush
  BY <1>4 DEF CallArrowFlush, AwaitPendingFlush, Stages, Step, recordBuffer, FlushSteps,
     AsyncSteps
<1>5. CASE CallArrowClose
  BY <1>5 DEF CallArrowClose, CloseAgain, AwaitPendingFlush, Stages, Step, recordBuffer,
     AsyncSteps
<1>6. CASE ArrowGoesOn
  <2>1. UNCHANGED <<stage, rowBuffer>> /\ (CallerContinues \/ WorkerSteps \/ Serve)
    BY <1>6, GoesOnKeeps
  <2>2. CASE WorkerSteps \/ Serve
    BY <2>1, <2>2, OthersStay DEF Stages
  <2>3. CASE CallerContinues /\ stage = "batching"
    <3>1. pc \in {"append"} \cup TakenSteps /\ op = "write_batch" /\ left = 1
      BY <2>3, FlushGoesOn DEF Stages, TakenSteps, AsyncSteps
    <3>2. op' = op /\ pc' \in {"idle"} \cup TakenSteps /\ (pc' # "idle" => left' = 1)
      BY <2>3, <3>1, BatchGoesOn
    <3>. QED BY <2>1, <2>3, <3>1, <3>2 DEF Stages, TakenSteps, AsyncSteps
  <2>4. CASE CallerContinues /\ stage # "batching"
    <3>1. pc \notin AsyncSteps => pc \notin {"append"} \cup TakenSteps
      BY <2>4 DEF Stages, TakenSteps
    <3>3. CASE pc \in AsyncSteps
      <4>1. op' = op /\ pc' \in {"idle"} \cup AsyncSteps /\ op = "flush_async"
        BY <2>4, <3>3, AsyncGoesOn DEF Stages
      <4>. QED BY <2>1, <2>4, <3>3, <4>1 DEF Stages, AsyncSteps, FlushSteps
    <3>4. CASE pc \notin AsyncSteps
      BY <2>1, <2>4, <3>1, <3>4, FlushGoesOn DEF Stages, TakenSteps
    <3>. QED BY <3>3, <3>4
  <2>. QED BY <2>1, <2>2, <2>3, <2>4
<1>. QED BY <1>1, <1>2, <1>3, <1>4, <1>5, <1>6, RecordSteps DEF CallsArrow

-----------------------------------------------------------------------------
(* Rows and cells                                                          *)

LEMMA RowIdsAppended ==
  ASSUME NEW s \in Seq(RowRecord), NEW e
  PROVE  RowIds(Append(s, e)) = RowIds(s) \cup {e.row}
<1>1. /\ DOMAIN Append(s, e) = DOMAIN s \cup {Len(s) + 1}
      /\ Append(s, e)[Len(s) + 1] = e
      /\ \A k \in DOMAIN s : Append(s, e)[k] = s[k]
  OBVIOUS
<1>. QED BY <1>1 DEF RowIds

\* What write() and the upload of the blobs make of the buffer.
NewRow(n) == [row |-> rows + 1, cells |-> [j \in 1..n |-> <<NextIndex + j>>]]
NewItems(n) == [j \in 1..n |-> <<rows + 1, j>>]
RefusedItems(n) == [j \in 1..n |-> <<0, j>>]

LEMMA NewTypes ==
  ASSUME RecordTypes, NEW n \in Nat
  PROVE  NewRow(n) \in RowRecord /\ NewItems(n) \in Seq(Seq(Nat)) /\ RefusedItems(n) \in Seq(Seq(Nat))
<1>1. Len(pendingItems) \in Nat /\ rows \in Nat
  BY DEF RecordTypes
<1>2. \A j \in 1..n : /\ <<NextIndex + j>> \in Seq(Nat)
                      /\ <<rows + 1, j>> \in Seq(Nat) /\ <<0, j>> \in Seq(Nat)
  BY <1>1 DEF NextIndex
<1>3. [j \in 1..n |-> <<NextIndex + j>>] \in Seq(Seq(Nat))
  BY <1>2
<1>4. NewItems(n) \in Seq(Seq(Nat)) /\ RefusedItems(n) \in Seq(Seq(Nat))
  BY <1>2 DEF NewItems, RefusedItems
<1>. QED BY <1>1, <1>3, <1>4 DEF NewRow, RowRecord

LEMMA ReplacedCells ==
  ASSUME RecordTypes, Matching, NEW i \in DOMAIN rowBuffer, NEW j \in DOMAIN rowBuffer[i].cells
  PROVE  Resolve(rowBuffer[i].cells[j]) = <<rowBuffer[i].row, j>>
<1>. DEFINE cell == rowBuffer[i].cells[j]
<1>. HIDE DEF cell
<1>1. CASE cell = <<rowBuffer[i].row, j>>
  <2>1. Len(cell) = 2
    BY <1>1
  <2>. QED BY <1>1, <2>1 DEF Resolve, IsPlaceholder, cell
<1>2. CASE \E m \in DOMAIN pendingItems : cell = <<m>> /\ pendingItems[m] = <<rowBuffer[i].row, j>>
  <2>1. PICK m \in DOMAIN pendingItems : cell = <<m>> /\ pendingItems[m] = <<rowBuffer[i].row, j>>
    BY <1>2
  <2>2. Len(cell) = 1 /\ cell[1] = m
    BY <2>1
  <2>. QED BY <2>1, <2>2 DEF Resolve, IsPlaceholder, cell
<1>3. CellMatches(rowBuffer[i].row, j, rowBuffer[i].cells[j])
  BY DEF Matching
<1>. QED BY <1>1, <1>2, <1>3 DEF CellMatches, cell

LEMMA ReplacedTypes ==
  ASSUME RecordTypes, Matching
  PROVE  /\ ReplacedBuffer \in Seq(RowRecord) /\ Len(ReplacedBuffer) = Len(rowBuffer)
         /\ \A i \in DOMAIN rowBuffer : /\ ReplacedBuffer[i].row = rowBuffer[i].row
                                      /\ DOMAIN ReplacedBuffer[i].cells = DOMAIN rowBuffer[i].cells
                                      /\ Len(ReplacedBuffer[i].cells) = Len(rowBuffer[i].cells)
                                      /\ \A j \in DOMAIN rowBuffer[i].cells :
                                           ReplacedBuffer[i].cells[j] = <<rowBuffer[i].row, j>>
<1>1. ASSUME NEW i \in DOMAIN rowBuffer
      PROVE  /\ WithReferences(rowBuffer[i]) \in RowRecord
             /\ WithReferences(rowBuffer[i]).row = rowBuffer[i].row
             /\ DOMAIN WithReferences(rowBuffer[i]).cells = DOMAIN rowBuffer[i].cells
             /\ Len(WithReferences(rowBuffer[i]).cells) = Len(rowBuffer[i].cells)
             /\ \A j \in DOMAIN rowBuffer[i].cells :
                  WithReferences(rowBuffer[i]).cells[j] = <<rowBuffer[i].row, j>>
  <2>. DEFINE cells == [j \in DOMAIN rowBuffer[i].cells |-> Resolve(rowBuffer[i].cells[j])]
  <2>1. rowBuffer[i] \in RowRecord
    BY <1>1 DEF RecordTypes
  <2>2. rowBuffer[i].row \in Nat /\ rowBuffer[i].cells \in Seq(Seq(Nat))
    BY <2>1 DEF RowRecord
  <2>3. \A j \in DOMAIN rowBuffer[i].cells : cells[j] = <<rowBuffer[i].row, j>>
    BY ReplacedCells
  <2>4. \A j \in DOMAIN rowBuffer[i].cells : cells[j] \in Seq(Nat)
    <3>1. ASSUME NEW j \in DOMAIN rowBuffer[i].cells PROVE cells[j] \in Seq(Nat)
      <4>1. j \in Nat
        BY <2>2
      <4>2. \A r \in Nat : <<r, j>> \in Seq(Nat)
        BY <4>1
      <4>3. cells[j] = <<rowBuffer[i].row, j>>
        BY <2>3
      <4>. QED BY <2>2, <4>2, <4>3
    <3>. QED BY <3>1
  <2>5. /\ DOMAIN cells = 1..Len(rowBuffer[i].cells)
        /\ Len(rowBuffer[i].cells) \in Nat
    BY <2>2
  <2>8. cells = [j \in DOMAIN cells |-> cells[j]]
    OBVIOUS
  <2>. HIDE DEF cells
  <2>6. cells \in Seq(Seq(Nat)) /\ Len(cells) = Len(rowBuffer[i].cells)
    <3>1. cells = [j \in 1..Len(rowBuffer[i].cells) |-> cells[j]]
      BY <2>5, <2>8
    <3>2. \A j \in 1..Len(rowBuffer[i].cells) : cells[j] \in Seq(Nat)
      BY <2>2, <2>4
    <3>. QED BY <2>5, <3>1, <3>2
  <2>7. WithReferences(rowBuffer[i]) = [row |-> rowBuffer[i].row, cells |-> cells]
    BY DEF WithReferences, cells
  <2>. QED BY <2>2, <2>3, <2>5, <2>6, <2>7 DEF RowRecord
<1>2. DOMAIN rowBuffer = 1..Len(rowBuffer) /\ Len(rowBuffer) \in Nat
  BY DEF RecordTypes
<1>3. ReplacedBuffer = [i \in 1..Len(rowBuffer) |-> WithReferences(rowBuffer[i])]
  BY <1>2 DEF ReplacedBuffer
<1>4. ReplacedBuffer \in Seq(RowRecord) /\ Len(ReplacedBuffer) = Len(rowBuffer)
  BY <1>1, <1>2, <1>3
<1>5. \A i \in DOMAIN rowBuffer : ReplacedBuffer[i] = WithReferences(rowBuffer[i])
  BY DEF ReplacedBuffer
<1>. QED BY <1>1, <1>4, <1>5

LEMMA Writes ==
  ASSUME Write
  PROVE  /\ rows' = rows + 1 /\ rows < MaxRows /\ stage = "idle" /\ stage' \in {"idle", "flush_records"}
         /\ UNCHANGED <<vars, content, resent>>
         /\ \E n \in 0..MaxBlobs :
              /\ rowBuffer' = Append(rowBuffer, NewRow(n))
              /\ pendingItems' = pendingItems \o NewItems(n)
              /\ blobFiles' = blobFiles + n
BY DEF Write, Room, NewRow, NewItems

LEMMA Uploads ==
  ASSUME UploadPendingBlobs
  PROVE  /\ rowBuffer' = ReplacedBuffer \/ (UNCHANGED rowBuffer /\ stage' = "idle")
         /\ stage = "flush_records" /\ stage' \in {"idle", "write_batch"}
         /\ UNCHANGED <<vars, pendingItems, blobFiles, recordHistory>>
<1>1. stage = "flush_records" /\ stage' \in {"idle", "write_batch"}
  BY DEF UploadPendingBlobs, EndRecordCall, Step
<1>2. UNCHANGED <<vars, pendingItems, blobFiles, recordHistory>>
  BY DEF UploadPendingBlobs
<1>3. rowBuffer' = ReplacedBuffer \/ (UNCHANGED rowBuffer /\ EndRecordCall("raised"))
  BY Zenon DEF UploadPendingBlobs
<1>. QED BY <1>1, <1>2, <1>3 DEF EndRecordCall

LEMMA BufferMoves ==
  ASSUME RecordNext
  PROVE  \/ UNCHANGED <<rowBuffer, pendingItems, blobFiles, rows>>
         \/ Write \/ WriteRaises \/ UploadPendingBlobs \/ BatchTaken
BY RecordSteps, CallsKeep, GoesOnKeeps DEF OwnSteps, CallFlush, NothingToFlush, BatchRaises,
   KeptRows, ArrowFlushed, ArrowReturns, recordBuffer, recordHistory

LEMMA RecordTypesStep ==
  ASSUME IInv, Stages, RecordTypes, Matching, RecordNext
  PROVE  RecordTypes'
<1>. USE RecordBoundsAssumption, BoundsAssumption DEF RecordBoundsAssumption, BoundsAssumption
<1>1. /\ accepted' \in 0..MaxBatches
      /\ DOMAIN content' = Batches /\ \A k \in Batches : content'[k] \in Seq(RowRecord)
  <2>1. CASE UNCHANGED <<accepted, content>>
    BY <2>1 DEF RecordTypes
  <2>2. CASE /\ accepted < MaxBatches /\ accepted' = accepted + 1
             /\ content' = [content EXCEPT ![accepted'] = rowBuffer]
    BY <2>2 DEF RecordTypes
  <2>. QED BY <2>1, <2>2, Cached
<1>2. rows' \in Nat /\ rowBuffer' \in Seq(RowRecord) /\ pendingItems' \in Seq(Seq(Nat)) /\ blobFiles' \in Nat
  <2>1. CASE Write
    <3>1. PICK n \in 0..MaxBlobs : /\ rowBuffer' = Append(rowBuffer, NewRow(n))
                                   /\ pendingItems' = pendingItems \o NewItems(n)
                                   /\ blobFiles' = blobFiles + n
      BY <2>1, Writes
    <3>2. NewRow(n) \in RowRecord /\ NewItems(n) \in Seq(Seq(Nat))
      BY NewTypes
    <3>. QED BY <2>1, <3>1, <3>2, Writes DEF RecordTypes
  <2>2. CASE WriteRaises
    <3>1. PICK n \in 1..MaxBlobs : pendingItems' = pendingItems \o RefusedItems(n)
      BY <2>2 DEF WriteRaises, RefusedItems
    <3>2. RefusedItems(n) \in Seq(Seq(Nat))
      BY NewTypes
    <3>. QED BY <2>2, <3>1, <3>2 DEF WriteRaises, recordHistory, RecordTypes
  <2>3. CASE UploadPendingBlobs
    BY <2>3, Uploads, ReplacedTypes DEF recordHistory, RecordTypes
  <2>4. CASE BatchTaken
    BY <2>4 DEF BatchTaken, ClearedRows, ClearedCount, recordHistory, RecordTypes
  <2>. QED BY <2>1, <2>2, <2>3, <2>4, BufferMoves DEF RecordTypes
<1>. QED BY <1>1, <1>2 DEF RecordTypes

LEMMA SameRowIds ==
  ASSUME RecordTypes
  PROVE  RowIds(ReplacedBuffer) = RowIds(rowBuffer)
BY DEF RowIds, ReplacedBuffer, WithReferences

LEMMA RowIdsMove ==
  ASSUME RecordTypes, RecordNext
  PROVE  \/ RowIds(rowBuffer') = RowIds(rowBuffer) /\ rows' = rows
         \/ Write /\ RowIds(rowBuffer') = RowIds(rowBuffer) \cup {rows + 1} /\ rows' = rows + 1
         \/ BatchTaken /\ RowIds(rowBuffer') = {} /\ rows' = rows
<1>1. CASE Write
  <2>1. PICK n \in 0..MaxBlobs : rowBuffer' = Append(rowBuffer, NewRow(n))
    BY <1>1, Writes
  <2>2. NewRow(n).row = rows + 1
    BY DEF NewRow
  <2>. QED BY <1>1, <2>1, <2>2, RowIdsAppended, Writes DEF RecordTypes
<1>2. CASE WriteRaises
  BY <1>2 DEF WriteRaises, recordHistory
<1>3. CASE UploadPendingBlobs
  BY <1>3, SameRowIds, Uploads DEF recordHistory
<1>4. CASE BatchTaken
  BY <1>4 DEF BatchTaken, ClearedRows, RowIds, recordHistory
<1>. QED BY <1>1, <1>2, <1>3, <1>4, BufferMoves

LEMMA NumberedStep ==
  ASSUME IInv, Stages, RecordTypes, Numbered, RecordNext
  PROVE  Numbered'
<1>0. rows \in Nat /\ rows' \in Nat /\ 1..rows \subseteq 1..rows' /\ accepted \in Nat
  BY RowIdsMove DEF RecordTypes
<1>1. RowIds(rowBuffer') \subseteq 1..rows'
  BY <1>0, RowIdsMove DEF Numbered
<1>2. ASSUME NEW k \in 1..accepted' PROVE RowIds(content'[k]) \subseteq 1..rows'
  <2>1. CASE UNCHANGED <<accepted, content>>
    BY <1>0, <1>2, <2>1 DEF Numbered
  <2>2. CASE /\ accepted < MaxBatches /\ accepted' = accepted + 1
             /\ content' = [content EXCEPT ![accepted'] = rowBuffer]
    <3>1. k \in 1..accepted \/ k = accepted'
      BY <1>0, <1>2, <2>2
    <3>2. accepted' \in Batches
      BY <1>0, <2>2, BoundsAssumption DEF BoundsAssumption, Batches
    <3>3. content'[k] = IF k = accepted' THEN rowBuffer ELSE content[k]
      <4>1. k \in Batches
        BY <1>0, <1>2, <2>2, BoundsAssumption DEF BoundsAssumption, Batches
      <4>. QED BY <2>2, <4>1 DEF RecordTypes
    <3>. QED BY <1>0, <3>1, <3>3 DEF Numbered
  <2>. QED BY <2>1, <2>2, Cached
<1>. QED BY <1>1, <1>2 DEF Numbered

-----------------------------------------------------------------------------
(* Every row is buffered or batched once                                   *)

LEMMA BatchesMove ==
  ASSUME IInv, Stages, RecordTypes, RecordNext
  PROVE  \/ /\ UNCHANGED <<accepted, content>>
            /\ \A r \in Nat : BatchesOf(r)' = BatchesOf(r)
         \/ /\ ArrowGoesOn /\ stage = "batching" /\ pc = "append" /\ pc' = "load_size"
            /\ accepted' = accepted + 1 /\ content'[accepted'] = rowBuffer
            /\ \A k \in 1..accepted : content'[k] = content[k]
            /\ \A r \in Nat : BatchesOf(r)' =
                 IF r \in RowIds(rowBuffer) THEN BatchesOf(r) \cup {accepted'} ELSE BatchesOf(r)
<1>1. CASE UNCHANGED <<accepted, content>>
  BY <1>1 DEF BatchesOf
<1>2. CASE /\ ArrowGoesOn /\ stage = "batching" /\ pc = "append" /\ pc' = "load_size"
           /\ accepted < MaxBatches /\ accepted' = accepted + 1
           /\ content' = [content EXCEPT ![accepted'] = rowBuffer]
  <2>1. accepted \in Nat /\ accepted' \in Batches /\ 1..accepted' = 1..accepted \cup {accepted'}
        /\ accepted' \notin 1..accepted
    BY <1>2, BoundsAssumption DEF BoundsAssumption, Batches, RecordTypes
  <2>2. 1..accepted \subseteq Batches
    BY BoundsAssumption DEF BoundsAssumption, Batches, RecordTypes
  <2>3. content'[accepted'] = rowBuffer /\ \A k \in 1..accepted : content'[k] = content[k]
    BY <1>2, <2>1, <2>2 DEF RecordTypes
  <2>4. ASSUME NEW r \in Nat
        PROVE  BatchesOf(r)' = IF r \in RowIds(rowBuffer) THEN BatchesOf(r) \cup {accepted'}
                                                          ELSE BatchesOf(r)
    <3>1. BatchesOf(r)' = {k \in 1..accepted' : r \in RowIds(content'[k])}
      BY DEF BatchesOf, RowIds
    <3>2. \A k \in 1..accepted : RowIds(content'[k]) = RowIds(content[k])
      BY <2>3
    <3>3. RowIds(content'[accepted']) = RowIds(rowBuffer)
      BY <2>3
    <3>. QED BY <2>1, <3>1, <3>2, <3>3, Zenon DEF BatchesOf
  <2>. QED BY <1>2, <2>3, <2>4
<1>. QED BY <1>1, <1>2, Cached

\* A row that has not been written yet is in no batch.
LEMMA NewRowUnbatched ==
  ASSUME RecordTypes, Numbered
  PROVE  BatchesOf(rows + 1) = {} /\ rows + 1 \notin RowIds(rowBuffer)
BY DEF RecordTypes, Numbered, BatchesOf

LEMMA CoveredStep ==
  ASSUME IInv, Stages, RecordTypes, Numbered, Batched, RecordNext
  PROVE  Covered'
<1>0. rows \in Nat /\ rows' \in Nat /\ 1..rows \subseteq Nat /\ 1..rows' \subseteq Nat /\ accepted \in Nat
  BY RowIdsMove DEF RecordTypes
<1>1. \A r \in Nat : BatchesOf(r) \subseteq BatchesOf(r)'
  BY BatchesMove
<1>2. ASSUME NEW r \in 1..rows' PROVE r \in RowIds(rowBuffer') \/ BatchesOf(r)' # {}
  <2>1. CASE RowIds(rowBuffer') = RowIds(rowBuffer) /\ rows' = rows
    BY <1>0, <1>1, <1>2, <2>1 DEF Batched, Covered
  <2>2. CASE RowIds(rowBuffer') = RowIds(rowBuffer) \cup {rows + 1} /\ rows' = rows + 1
    <3>1. r \in 1..rows \/ r = rows + 1
      BY <1>0, <1>2, <2>2
    <3>. QED BY <1>0, <1>1, <2>2, <3>1 DEF Batched, Covered
  <2>3. CASE BatchTaken /\ RowIds(rowBuffer') = {} /\ rows' = rows
    <3>1. JustBatched
      BY <2>3 DEF BatchTaken, Returned, Batched
    <3>2. r \in RowIds(rowBuffer) => accepted \in BatchesOf(r)
      BY <1>0, <3>1 DEF JustBatched, BatchesOf
    <3>. QED BY <1>0, <1>1, <1>2, <2>3, <3>2 DEF Batched, Covered
  <2>. QED BY <2>1, <2>2, <2>3, RowIdsMove
<1>. QED BY <1>2 DEF Covered

LEMMA OnceEachStays ==
  ASSUME OnceEach, RowIds(rowBuffer') = RowIds(rowBuffer), UNCHANGED <<rows, accepted, content>>,
         resent \subseteq resent'
  PROVE  OnceEach'
<1>1. \A r : BatchesOf(r)' = BatchesOf(r) /\ (r \in RowIds(rowBuffer))' = (r \in RowIds(rowBuffer))
  BY DEF BatchesOf, RowIds
<1>. QED BY <1>1 DEF OnceEach, InOneBatch

LEMMA JustBatchedStays ==
  ASSUME JustBatched, UNCHANGED <<rowBuffer, rows, accepted, content, resent>>
  PROVE  JustBatched'
<1>1. \A r : BatchesOf(r)' = BatchesOf(r)
  BY DEF BatchesOf
<1>. QED BY <1>1 DEF JustBatched, InOneBatch

\* AppendBatch puts the buffer into a batch of its own.
LEMMA BecomesBatched ==
  ASSUME RecordTypes, OnceEach, UNCHANGED <<rowBuffer, rows, resent>>,
         accepted' = accepted + 1, content'[accepted'] = rowBuffer,
         \A r \in Nat : BatchesOf(r)' =
           IF r \in RowIds(rowBuffer) THEN BatchesOf(r) \cup {accepted'} ELSE BatchesOf(r)
  PROVE  JustBatched'
<1>1. accepted \in Nat /\ 1..rows \subseteq Nat
  BY DEF RecordTypes
<1>2. ASSUME NEW r \in (1..rows) \ resent
      PROVE  \E k \in 1..accepted' : BatchesOf(r)' = {k}
  <2>1. CASE r \in RowIds(rowBuffer)
    <3>1. BatchesOf(r)' = {accepted'}
      BY <1>1, <2>1 DEF OnceEach
    <3>. QED BY <1>1, <3>1
  <2>2. CASE r \notin RowIds(rowBuffer)
    <3>1. PICK k \in 1..accepted : BatchesOf(r) = {k}
      BY <2>2 DEF OnceEach, InOneBatch
    <3>. QED BY <1>1, <2>2, <3>1
  <2>. QED BY <2>1, <2>2
<1>. QED BY <1>1, <1>2 DEF JustBatched, InOneBatch

LEMMA BatchedArrow ==
  ASSUME IInv, Stages, RecordTypes, Numbered, Batched, RecordNext, ArrowGoesOn
  PROVE  /\ stage # "batching" \/ pc' = "append" => OnceEach'
         /\ stage = "batching" /\ pc' # "append" =>
              JustBatched' \/ (pc' = "idle" /\ result' = "raised" /\ OnceEach')
<1>1. UNCHANGED <<rowBuffer, rows, resent, stage>> /\ (CallerContinues \/ WorkerSteps \/ Serve)
  BY GoesOnKeeps
<1>2. CASE UNCHANGED <<accepted, content>>
  <2>1. OnceEach => OnceEach'
    BY <1>1, <1>2, OnceEachStays DEF RowIds
  <2>2. JustBatched => JustBatched'
    BY <1>1, <1>2, JustBatchedStays
  <2>3. CASE stage # "batching"
    BY <2>1, <2>3 DEF Batched
  <2>4. CASE stage = "batching" /\ (WorkerSteps \/ Serve)
    BY <2>1, <2>2, <2>4, OthersStay DEF Batched
  <2>5. CASE stage = "batching" /\ CallerContinues
    <3>1. pc \in {"append"} \cup TakenSteps /\ op = "write_batch" /\ left = 1
      BY <2>5, FlushGoesOn DEF Stages, TakenSteps, AsyncSteps
    <3>2. pc' \in {"idle"} \cup TakenSteps
      BY <2>5, <3>1, BatchGoesOn
    <3>3. CASE pc = "append"
      <4>1. ~AppendBatch
        BY <1>2 DEF AppendBatch, RecordTypes
      <4>2. pc' = "idle" /\ result' = "raised"
        BY <2>5, <3>1, <3>3, <4>1, BatchGoesOn
      <4>. QED BY <2>1, <2>5, <3>3, <4>2 DEF Batched
    <3>4. CASE pc # "append"
      <4>1. JustBatched
        BY <2>5, <3>1, <3>4 DEF Batched, TakenSteps, AsyncSteps
      <4>. QED BY <2>2, <2>5, <3>2, <4>1 DEF TakenSteps, AsyncSteps
    <3>. QED BY <3>3, <3>4
  <2>. QED BY <1>1, <2>3, <2>4, <2>5
<1>3. CASE /\ stage = "batching" /\ pc = "append" /\ pc' = "load_size"
           /\ accepted' = accepted + 1 /\ content'[accepted'] = rowBuffer
           /\ \A r \in Nat : BatchesOf(r)' =
                IF r \in RowIds(rowBuffer) THEN BatchesOf(r) \cup {accepted'} ELSE BatchesOf(r)
  <2>1. OnceEach
    BY <1>3 DEF Batched
  <2>. QED BY <1>1, <1>3, <2>1, BecomesBatched
<1>. QED BY <1>2, <1>3, BatchesMove

LEMMA BatchTakenOnce ==
  ASSUME RecordTypes, Batched, BatchTaken
  PROVE  stage' # "batching" /\ OnceEach'
<1>1. JustBatched /\ stage' # "batching"
  BY DEF BatchTaken, Returned, Batched, AfterRecords, EndRecordCall, Step
<1>2. rowBuffer' = <<>> /\ UNCHANGED <<rows, resent, accepted, content>>
  BY DEF BatchTaken, ClearedRows, recordHistory
<1>3. \A r : BatchesOf(r)' = BatchesOf(r)
  BY <1>2 DEF BatchesOf
<1>4. \A r : (r \in RowIds(rowBuffer))' = FALSE
  BY <1>2 DEF RowIds
<1>. QED BY <1>1, <1>2, <1>3, <1>4 DEF OnceEach, InOneBatch, JustBatched

LEMMA BatchRaisesOnce ==
  ASSUME RecordTypes, Batched, BatchRaises
  PROVE  stage' # "batching" /\ OnceEach'
<1>1. stage = "batching" /\ pc = "idle" /\ stage' # "batching"
  BY DEF BatchRaises, Returned, EndRecordCall
<1>2. UNCHANGED <<rowBuffer, rows, accepted, content>> /\ resent \subseteq resent'
  BY DEF BatchRaises, KeptRows
<1>3. \A r : BatchesOf(r)' = BatchesOf(r) /\ (r \in RowIds(rowBuffer))' = (r \in RowIds(rowBuffer))
  BY <1>2 DEF BatchesOf, RowIds
<1>4. CASE JustBatched
  <2>1. RowIds(rowBuffer) \subseteq resent'
    BY <1>4 DEF BatchRaises, JustBatched, RecordTypes
  <2>. QED BY <1>1, <1>2, <1>3, <1>4, <2>1 DEF OnceEach, InOneBatch, JustBatched
<1>5. CASE OnceEach
  BY <1>1, <1>2, <1>5, OnceEachStays DEF RowIds
<1>. QED BY <1>1, <1>4, <1>5 DEF Batched

LEMMA WriteOnce ==
  ASSUME IInv, Stages, RecordTypes, Numbered, Batched, Write, RecordNext
  PROVE  stage' # "batching" /\ OnceEach'
<1>1. stage = "idle" /\ stage' # "batching" /\ rows' = rows + 1 /\ UNCHANGED <<accepted, content, resent>>
  BY Writes
<1>2. OnceEach
  BY <1>1 DEF Batched
<1>3. rows \in Nat /\ 1..rows' = 1..rows \cup {rows + 1}
  BY <1>1 DEF RecordTypes
<1>4. RowIds(rowBuffer') = RowIds(rowBuffer) \cup {rows + 1}
  BY <1>1, <1>3, RowIdsMove DEF Write, BatchTaken, Returned
<1>5. \A r : BatchesOf(r)' = BatchesOf(r)
  BY <1>1 DEF BatchesOf
<1>6. BatchesOf(rows + 1) = {}
  BY NewRowUnbatched
<1>7. \A r \in (1..rows') \ resent' :
        IF r \in RowIds(rowBuffer') THEN BatchesOf(r)' = {} ELSE \E k \in 1..accepted' : BatchesOf(r)' = {k}
  BY <1>1, <1>2, <1>3, <1>4, <1>5, <1>6 DEF OnceEach, InOneBatch
<1>. QED BY <1>1, <1>7 DEF OnceEach, InOneBatch, RowIds

LEMMA BatchedStep ==
  ASSUME IInv, Stages, RecordTypes, Numbered, Batched, RecordNext
  PROVE  Batched'
<1>1. Covered'
  BY CoveredStep
<1>2. CASE ArrowGoesOn
  BY <1>1, <1>2, BatchedArrow, GoesOnKeeps DEF Batched
<1>3. CASE CallsArrow
  <2>1. OnceEach /\ stage # "batching"
    BY <1>3 DEF Batched, CallsArrow, DirectCall, CallWriteBatch, CallArrowFlush, CallArrowClose
  <2>2. OnceEach'
    BY <1>3, <2>1, CallsKeep, OnceEachStays DEF RowIds
  <2>3. stage' = "batching" => pc' = "append" \/ (pc' = "idle" /\ result' = "raised")
    BY <1>3, <2>1 DEF CallsArrow, DirectCall, CallWriteBatch, CallArrowFlush, CallArrowClose,
       Step, recordCall, WriteBatch
  <2>. QED BY <1>1, <2>2, <2>3 DEF Batched
<1>4. CASE WriteRaises \/ CallFlush \/ NothingToFlush \/ UploadPendingBlobs \/ ArrowFlushed \/ ArrowReturns
  <2>1. stage # "batching" /\ stage' # "batching"
    BY <1>4 DEF WriteRaises, Room, CallFlush, NothingToFlush, UploadPendingBlobs, ArrowFlushed,
       ArrowReturns, AfterRecords, EndRecordCall, Step, Returned
  <2>2. UNCHANGED <<rows, accepted, content, resent>>
    BY <1>4 DEF WriteRaises, CallFlush, NothingToFlush, UploadPendingBlobs, ArrowFlushed,
       ArrowReturns, recordHistory
  <2>3. RowIds(rowBuffer') = RowIds(rowBuffer)
    BY <1>4, SameRowIds, Uploads DEF WriteRaises, CallFlush, NothingToFlush, ArrowFlushed,
       ArrowReturns, recordBuffer
  <2>. QED BY <1>1, <2>1, <2>2, <2>3, OnceEachStays DEF Batched
<1>5. CASE Write \/ BatchTaken \/ BatchRaises
  BY <1>1, <1>5, WriteOnce, BatchTakenOnce, BatchRaisesOnce DEF Batched
<1>. QED BY <1>2, <1>3, <1>4, <1>5, RecordSteps DEF OwnSteps

-----------------------------------------------------------------------------
(* References, and the count of blobs                                      *)

LEMMA ItemsAppended ==
  ASSUME NEW s \in Seq(Seq(Nat)), RecordTypes, pendingItems' = pendingItems \o s,
         NEW r, NEW j, NEW cell, CellMatches(r, j, cell)
  PROVE  CellMatches(r, j, cell)'
<1>1. \A m \in DOMAIN pendingItems : m \in DOMAIN pendingItems' /\ pendingItems'[m] = pendingItems[m]
  BY DEF RecordTypes
<1>. QED BY <1>1 DEF CellMatches

LEMMA MatchingStep ==
  ASSUME IInv, Stages, RecordTypes, Matching, RecordNext
  PROVE  Matching'
<1>. DEFINE Buffered == \A i \in DOMAIN rowBuffer : \A j \in DOMAIN rowBuffer[i].cells :
                          CellMatches(rowBuffer[i].row, j, rowBuffer[i].cells[j])
            Uploaded == \A i \in DOMAIN rowBuffer : \A j \in DOMAIN rowBuffer[i].cells :
                          rowBuffer[i].cells[j] = <<rowBuffer[i].row, j>>
            Sent(k) == \A i \in DOMAIN content[k] : \A j \in DOMAIN content[k][i].cells :
                          content[k][i].cells[j] = <<content[k][i].row, j>>
<1>1. \A k \in 1..accepted' : Sent(k)'
  <2>1. CASE UNCHANGED <<accepted, content>>
    BY <2>1 DEF Matching
  <2>2. CASE /\ stage = "batching" /\ accepted' = accepted + 1 /\ content'[accepted'] = rowBuffer
             /\ \A k \in 1..accepted : content'[k] = content[k]
    <3>1. ASSUME NEW k \in 1..accepted' PROVE k \in 1..accepted \/ k = accepted'
      BY <2>2, <3>1 DEF RecordTypes
    <3>2. Uploaded
      BY <2>2 DEF Matching
    <3>3. \A k \in 1..accepted : Sent(k)
      BY DEF Matching
    <3>. QED BY <2>2, <3>1, <3>2, <3>3
  <2>. QED BY <2>1, <2>2, BatchesMove
<1>2. Buffered' /\ (stage' \in {"write_batch", "batching"} => Uploaded')
  <2>0. Buffered /\ (stage \in {"write_batch", "batching"} => Uploaded)
    BY DEF Matching
  <2>1. CASE Write
    <3>1. PICK n \in 0..MaxBlobs : /\ rowBuffer' = Append(rowBuffer, NewRow(n))
                                   /\ pendingItems' = pendingItems \o NewItems(n)
      BY <2>1, Writes
    <3>2. n \in Nat /\ NewItems(n) \in Seq(Seq(Nat)) /\ NewRow(n) \in RowRecord
      BY NewTypes, RecordBoundsAssumption DEF RecordBoundsAssumption
    <3>3. /\ DOMAIN rowBuffer' = DOMAIN rowBuffer \cup {Len(rowBuffer) + 1}
          /\ \A i \in DOMAIN rowBuffer : rowBuffer'[i] = rowBuffer[i]
          /\ rowBuffer'[Len(rowBuffer) + 1] = NewRow(n)
      BY <3>1, <3>2 DEF RecordTypes
    <3>4. ASSUME NEW j \in DOMAIN NewRow(n).cells
          PROVE  \E m \in DOMAIN pendingItems' :
                   NewRow(n).cells[j] = <<m>> /\ pendingItems'[m] = <<NewRow(n).row, j>>
      <4>1. j \in 1..n /\ NewRow(n).row = rows + 1 /\ NewRow(n).cells[j] = <<NextIndex + j>>
        BY <3>4 DEF NewRow
      <4>2. /\ NextIndex + j \in DOMAIN pendingItems'
            /\ pendingItems'[NextIndex + j] = NewItems(n)[j]
        <5>1. Len(NewItems(n)) = n
          BY <3>2 DEF NewItems
        <5>. QED BY <3>1, <3>2, <4>1, <5>1 DEF NextIndex, RecordTypes
      <4>3. NewItems(n)[j] = <<rows + 1, j>>
        BY <4>1 DEF NewItems
      <4>. QED BY <4>1, <4>2, <4>3
    <3>5. ASSUME NEW i \in DOMAIN rowBuffer, NEW j \in DOMAIN rowBuffer[i].cells
          PROVE  CellMatches(rowBuffer[i].row, j, rowBuffer[i].cells[j])'
      <4>1. CellMatches(rowBuffer[i].row, j, rowBuffer[i].cells[j])
        BY <2>0
      <4>. QED BY <3>1, <3>2, <3>3, <4>1, ItemsAppended DEF CellMatches
    <3>6. stage' \notin {"write_batch", "batching"}
      BY <2>1, Writes
    <3>7. ASSUME NEW i \in DOMAIN rowBuffer', NEW j \in DOMAIN rowBuffer'[i].cells
          PROVE  CellMatches(rowBuffer[i].row, j, rowBuffer[i].cells[j])'
      <4>1. CASE i \in DOMAIN rowBuffer
        BY <3>3, <3>5, <3>7, <4>1
      <4>2. CASE rowBuffer'[i] = NewRow(n)
        BY <3>4, <3>7, <4>2 DEF CellMatches
      <4>. QED BY <3>3, <3>7, <4>1, <4>2
    <3>. QED BY <3>6, <3>7
  <2>2. CASE WriteRaises
    <3>1. PICK n \in 1..MaxBlobs : pendingItems' = pendingItems \o RefusedItems(n)
      BY <2>2 DEF WriteRaises, RefusedItems
    <3>2. RefusedItems(n) \in Seq(Seq(Nat))
      BY NewTypes, RecordBoundsAssumption DEF RecordBoundsAssumption
    <3>3. UNCHANGED <<rowBuffer, stage>> /\ stage = "idle"
      BY <2>2 DEF WriteRaises, Room
    <3>4. \A r, j, cell : CellMatches(r, j, cell) => CellMatches(r, j, cell)'
      BY <3>1, <3>2, ItemsAppended
    <3>. QED BY <2>0, <3>3, <3>4
  <2>3. CASE UploadPendingBlobs
    <3>1. CASE rowBuffer' = ReplacedBuffer
      <4>1. Uploaded'
        BY <3>1, ReplacedTypes DEF RecordTypes
      <4>. QED BY <4>1 DEF CellMatches
    <3>2. CASE UNCHANGED rowBuffer /\ stage' = "idle"
      <4>1. UNCHANGED pendingItems
        BY <2>3, Uploads
      <4>. QED BY <2>0, <3>2, <4>1 DEF CellMatches
    <3>. QED BY <2>3, <3>1, <3>2, Uploads
  <2>4. CASE BatchTaken
    BY <2>4 DEF BatchTaken, ClearedRows
  <2>5. CASE UNCHANGED <<rowBuffer, pendingItems>> /\ ~UploadPendingBlobs
    <3>1. stage' \in {"write_batch", "batching"} => stage \in {"write_batch", "batching"}
      BY <2>5, RecordSteps, GoesOnKeeps DEF OwnSteps, CallsArrow, Write, WriteRaises, CallFlush,
         NothingToFlush, BatchTaken, BatchRaises, ArrowFlushed, ArrowReturns, AfterRecords,
         EndRecordCall, Step, DirectCall, CallWriteBatch, CallArrowFlush, CallArrowClose,
         recordCall
    <3>2. (Buffered => Buffered') /\ (Uploaded => Uploaded')
      BY <2>5 DEF CellMatches
    <3>. QED BY <2>0, <3>1, <3>2
  <2>. QED BY <2>1, <2>2, <2>3, <2>4, <2>5, BufferMoves
<1>. QED BY <1>1, <1>2 DEF Matching

\* The cells the write of a row of n blobs adds.
LEMMA CellsAdded ==
  ASSUME NEW i \in Nat, NEW n \in Nat
  PROVE  IsFiniteSet({i} \X (1..n)) /\ Cardinality({i} \X (1..n)) = n
<1>1. IsFiniteSet({i}) /\ Cardinality({i}) = 1
  BY FS_Singleton
<1>2. IsFiniteSet(1..n) /\ Cardinality(1..n) = n
  BY FS_Interval
<1>3. /\ IsFiniteSet({i} \X (1..n))
      /\ Cardinality({i} \X (1..n)) = Cardinality({i}) * Cardinality(1..n)
  BY <1>1, <1>2, FS_Product, Zenon
<1>. QED BY <1>1, <1>2, <1>3

LEMMA BlobCellsFinite == IsFiniteSet(BlobCells)
<1>0. IsFiniteSet(1..MaxRows) /\ IsFiniteSet(1..MaxBlobs)
  BY FS_Interval, RecordBoundsAssumption DEF RecordBoundsAssumption
<1>1. IsFiniteSet((1..MaxRows) \X (1..MaxBlobs))
  BY <1>0, FS_Product, Zenon
<1>2. BlobCells \subseteq (1..MaxRows) \X (1..MaxBlobs)
  BY DEF BlobCells
<1>. QED BY <1>1, <1>2, FS_Subset

LEMMA BlobsCountedStep ==
  ASSUME IInv, Stages, RecordTypes, Matching, BlobsCounted, RecordNext
  PROVE  BlobsCounted'
<1>0. Len(rowBuffer) \in Nat /\ rows \in Nat /\ DOMAIN rowBuffer = 1..Len(rowBuffer)
  BY DEF RecordTypes
<1>1. CASE Write
  <2>1. PICK n \in 0..MaxBlobs : /\ rowBuffer' = Append(rowBuffer, NewRow(n))
                                 /\ blobFiles' = blobFiles + n
    BY <1>1, Writes
  <2>2. n \in Nat /\ NewRow(n) \in RowRecord
    BY NewTypes, RecordBoundsAssumption DEF RecordBoundsAssumption
  <2>3. rows' = rows + 1 /\ rows < MaxRows
    BY <1>1, Writes
  <2>4. /\ Len(rowBuffer') = Len(rowBuffer) + 1
        /\ DOMAIN rowBuffer' = DOMAIN rowBuffer \cup {Len(rowBuffer) + 1}
        /\ \A i \in DOMAIN rowBuffer : rowBuffer'[i] = rowBuffer[i]
        /\ rowBuffer'[Len(rowBuffer) + 1] = NewRow(n)
    BY <2>1, <2>2 DEF RecordTypes
  <2>5. DOMAIN NewRow(n).cells = 1..n /\ Len(NewRow(n).cells) = n
    BY <2>2 DEF NewRow
  <2>. DEFINE New == {Len(rowBuffer) + 1} \X (1..n)
  <2>6. IsFiniteSet(New) /\ Cardinality(New) = n
    <3>1. Len(rowBuffer) + 1 \in Nat
      BY <1>0
    <3>. QED BY <2>2, <3>1, CellsAdded, Zenon
  <2>7. BlobCells' = BlobCells \cup New
    <3>1. ASSUME NEW p \in (1..MaxRows) \X (1..MaxBlobs), p[1] \in DOMAIN rowBuffer
          PROVE  p \in BlobCells' <=> p \in BlobCells
      BY <2>4, <3>1 DEF BlobCells
    <3>2. ASSUME NEW p \in (1..MaxRows) \X (1..MaxBlobs), p[1] = Len(rowBuffer) + 1
          PROVE  p \in BlobCells' <=> p[2] \in 1..n
      BY <2>4, <2>5, <3>2 DEF BlobCells
    <3>3. Len(rowBuffer) + 1 \in 1..MaxRows /\ 1..n \subseteq 1..MaxBlobs
      BY <1>0, <2>3, RecordBoundsAssumption DEF BlobsCounted, RecordBoundsAssumption
    <3>4. New \subseteq (1..MaxRows) \X (1..MaxBlobs) /\ \A p \in New : p[1] = Len(rowBuffer) + 1 /\ p[2] \in 1..n
      BY <3>3
    <3>5. \A p \in BlobCells : p \in (1..MaxRows) \X (1..MaxBlobs) /\ p[1] \in DOMAIN rowBuffer
      BY DEF BlobCells
    <3>6. \A p \in BlobCells' : /\ p \in (1..MaxRows) \X (1..MaxBlobs)
                                /\ p[1] \in DOMAIN rowBuffer \/ p[1] = Len(rowBuffer) + 1
      BY <2>4 DEF BlobCells
    <3>7. \A p \in (1..MaxRows) \X (1..MaxBlobs) :
            p[1] = Len(rowBuffer) + 1 /\ p[2] \in 1..n => p \in New
      OBVIOUS
    <3>. HIDE DEF New
    <3>. QED BY <3>1, <3>2, <3>4, <3>5, <3>6, <3>7
  <2>8. BlobCells \cap New = {}
    BY <1>0 DEF BlobCells
  <2>9. Cardinality(BlobCells') = Cardinality(BlobCells) + n
    <3>1. Cardinality(BlobCells \cap New) = 0
      BY <2>8, FS_EmptySet
    <3>2. Cardinality(BlobCells) \in Nat
      BY BlobCellsFinite, FS_CardinalityType
    <3>. HIDE DEF New
    <3>3. Cardinality(BlobCells \cup New) =
            Cardinality(BlobCells) + Cardinality(New) - Cardinality(BlobCells \cap New)
      BY <2>6, BlobCellsFinite, FS_Union, Zenon
    <3>. QED BY <2>2, <2>6, <2>7, <3>1, <3>2, <3>3
  <2>10. blobFiles' = Cardinality(BlobCells')
    BY <2>1, <2>9 DEF BlobsCounted
  <2>11. \A i \in DOMAIN rowBuffer' : Len(rowBuffer'[i].cells) <= MaxBlobs
    BY <2>1, <2>4, <2>5 DEF BlobsCounted
  <2>12. Len(rowBuffer') <= rows' /\ rows' <= MaxRows
    BY <1>0, <2>3, <2>4, RecordBoundsAssumption DEF BlobsCounted, RecordBoundsAssumption
  <2>. QED BY <2>10, <2>11, <2>12 DEF BlobsCounted
<1>2. CASE UploadPendingBlobs /\ rowBuffer' = ReplacedBuffer
  <2>1. UNCHANGED <<blobFiles, rows>>
    BY <1>2, Uploads DEF recordHistory
  <2>2. /\ Len(rowBuffer') = Len(rowBuffer) /\ DOMAIN rowBuffer' = DOMAIN rowBuffer
        /\ \A i \in DOMAIN rowBuffer : /\ DOMAIN rowBuffer'[i].cells = DOMAIN rowBuffer[i].cells
                                      /\ Len(rowBuffer'[i].cells) = Len(rowBuffer[i].cells)
    BY <1>0, <1>2, ReplacedTypes
  <2>3. BlobCells' = BlobCells
    BY <2>2 DEF BlobCells
  <2>. QED BY <2>1, <2>2, <2>3 DEF BlobsCounted
<1>3. CASE BatchTaken
  <2>1. rowBuffer' = <<>> /\ blobFiles' = 0 /\ rows' = rows
    BY <1>3 DEF BatchTaken, ClearedRows, ClearedCount, recordHistory
  <2>2. BlobCells' = {}
    BY <2>1 DEF BlobCells
  <2>3. Cardinality(BlobCells') = 0
    BY <2>2, FS_EmptySet
  <2>. QED BY <1>0, <2>1, <2>3 DEF BlobsCounted
<1>4. CASE UNCHANGED <<rowBuffer, blobFiles, rows>>
  <2>1. BlobCells' = BlobCells
    BY <1>4 DEF BlobCells
  <2>. QED BY <1>4, <2>1 DEF BlobsCounted
<1>5. CASE WriteRaises
  <2>1. UNCHANGED <<rowBuffer, blobFiles, rows>>
    BY <1>5 DEF WriteRaises, recordHistory
  <2>. QED BY <1>4, <2>1
<1>6. CASE UploadPendingBlobs /\ UNCHANGED rowBuffer
  <2>1. UNCHANGED <<rowBuffer, blobFiles, rows>>
    BY <1>6, Uploads DEF recordHistory
  <2>. QED BY <1>4, <2>1
<1>. QED BY <1>1, <1>2, <1>3, <1>4, <1>5, <1>6, BufferMoves, Uploads

-----------------------------------------------------------------------------
(* What flush() and close() promise                                        *)

LEMMA RacedGrows ==
  ASSUME IInv, Stages, RecordTypes, RecordNext
  PROVE  raced \subseteq raced'
BY RecordSteps, OwnStepsKeep, CallsKeep, GoesOnKeeps, HistoryGrows, OthersStay DEF OwnSteps

\* A call that ends with nothing buffered and all batches in the table.
LEMMA AllRowsDelivered ==
  ASSUME RecordTypes, Batched, rowBuffer = <<>>, AllDelivered
  PROVE  \A r \in 1..rows : BatchesOf(r) \cap (Range(delivered) \cup raced) # {}
<1>1. ASSUME NEW r \in 1..rows PROVE BatchesOf(r) \cap (Range(delivered) \cup raced) # {}
  <2>1. RowIds(rowBuffer) = {}
    BY DEF RowIds
  <2>2. BatchesOf(r) # {}
    BY <2>1 DEF Batched, Covered
  <2>3. BatchesOf(r) \subseteq 1..accepted
    BY DEF BatchesOf
  <2>. QED BY <2>2, <2>3 DEF AllDelivered
<1>. QED BY <1>1

LEMMA DeliveriesStep ==
  ASSUME ArrowInv, Stages, RecordTypes, Numbered, Batched, Deliveries, RecordNext
  PROVE  Deliveries'
<1>0. /\ IInv /\ [Next]_vars /\ raced \subseteq raced' /\ Range(delivered) \subseteq Range(delivered')
      /\ 1..rows \subseteq Nat
  BY RacedGrows, ArrowSteps, DeliveredGrows DEF ArrowInv, recordVars, RecordTypes
<1>1. stage # "batching" => UNCHANGED <<accepted, content>>
  BY <1>0, Cached
<1>2. stage # "batching" /\ AllDelivered => AllDelivered'
  BY <1>0, <1>1 DEF AllDelivered
<1>3. stage' = "flushing" /\ pc' = "idle" /\ result' = "ok" => AllDelivered'
  <2>. SUFFICES ASSUME stage' = "flushing", pc' = "idle", result' = "ok" PROVE AllDelivered'
    OBVIOUS
  <2>1. ArrowGoesOn
    BY RecordSteps DEF CallsArrow, OwnSteps, DirectCall, recordCall, CallWriteBatch,
       CallArrowFlush, CallArrowClose, AwaitPendingFlush, Step, Write, Room, WriteRaises,
       CallFlush, NothingToFlush, AfterRecords, EndRecordCall, UploadPendingBlobs, BatchTaken,
       BatchRaises, ArrowFlushed, ArrowReturns, Returned
  <2>2. stage = "flushing" /\ (CallerContinues \/ WorkerSteps \/ Serve)
    BY <2>1, GoesOnKeeps
  <2>3. CASE WorkerSteps \/ Serve
    BY <1>2, <2>2, <2>3, OthersStay DEF Deliveries
  <2>4. CASE CallerContinues
    <3>1. pc # "idle" /\ op = "flush" /\ result = "none" /\ pc \in FlushSteps
      <4>1. pc # "idle"
        BY <2>4 DEF CallerContinues, RejectBatch, AppendBatch, LoadSize, StoreSize,
           CheckThreshold, FlushAsync, AcquireSemaphore, CaptureBufferState, Submit,
           AssignFuture, TrackFuture, Awaited, FlushRest, FlushReply, ClearBufferState, Flushed,
           CloseStream, JoinWorker, StoreRowOffset
      <4>. QED BY <2>2, <4>1 DEF Stages
    <3>2. pc = "flushed" /\ UNCHANGED <<accepted, raced, delivered>>
      BY <2>4, <3>1, FlushGoesOn DEF FlushSteps, TakenSteps, AsyncSteps
    <3>3. AllDelivered
      BY <3>2, FlushDelivers
    <3>. QED BY <1>2, <2>2, <3>3
  <2>. QED BY <2>2, <2>3, <2>4
<1>4. stage' \in {"close_arrow", "closing"} => AllDelivered'
  <2>. SUFFICES ASSUME stage' \in {"close_arrow", "closing"} PROVE AllDelivered'
    OBVIOUS
  <2>1. ArrowFlushed \/ stage \in {"close_arrow", "closing"}
    BY RecordSteps, GoesOnKeeps DEF CallsArrow, OwnSteps, DirectCall, recordCall,
       CallWriteBatch, CallArrowFlush, CallArrowClose, Step, Write, Room, WriteRaises,
       CallFlush, NothingToFlush, AfterRecords, EndRecordCall, UploadPendingBlobs, BatchTaken,
       BatchRaises, ArrowReturns
  <2>2. stage # "batching" /\ AllDelivered
    BY <2>1 DEF ArrowFlushed, Returned, Deliveries
  <2>. QED BY <1>2, <2>2
<1>5. RecordsDelivered'
  <2>. SUFFICES ASSUME stage' = "idle", request' \in {"flush", "close"}, answer' = "ok"
                PROVE  \A r \in 1..rows' : BatchesOf(r)' \cap (Range(delivered) \cup raced)' # {}
    BY DEF RecordsDelivered
  <2>1. ArrowFlushed \/ (ArrowReturns /\ stage = "closing") \/ UNCHANGED <<stage, request, answer, rows>>
    BY RecordSteps, GoesOnKeeps DEF CallsArrow, OwnSteps, DirectCall, recordCall, recordHistory,
       CallWriteBatch, CallArrowFlush, CallArrowClose,
       Step, Write, WriteRaises, CallFlush, NothingToFlush, AfterRecords, EndRecordCall,
       UploadPendingBlobs, BatchTaken, BatchRaises, ArrowReturns, Returned
  <2>2. CASE UNCHANGED <<stage, request, answer, rows>>
    <3>1. \A r \in 1..rows : BatchesOf(r)' = BatchesOf(r)
      BY <1>1, <2>2 DEF BatchesOf
    <3>2. \A r \in 1..rows : BatchesOf(r) \cap (Range(delivered) \cup raced) # {}
      BY <2>2 DEF Deliveries, RecordsDelivered
    <3>3. (Range(delivered) \cup raced)' = Range(delivered') \cup raced'
      OBVIOUS
    <3>. QED BY <1>0, <2>2, <3>1, <3>2, <3>3
  <2>3. CASE ArrowFlushed \/ (ArrowReturns /\ stage = "closing")
    <3>1. rowBuffer = <<>> /\ AllDelivered
      BY <2>3 DEF ArrowFlushed, ArrowReturns, Returned, Stages, Deliveries
    <3>2. UNCHANGED <<rows, accepted, content, delivered, raced>>
      BY <2>3, OwnStepsKeep DEF OwnSteps, ArrowFlushed, ArrowReturns, recordHistory
    <3>3. \A r \in 1..rows : BatchesOf(r)' = BatchesOf(r)
      BY <3>2 DEF BatchesOf
    <3>4. (Range(delivered) \cup raced)' = Range(delivered) \cup raced
      BY <3>2
    <3>. QED BY <3>1, <3>2, <3>3, <3>4, AllRowsDelivered
  <2>. QED BY <2>1, <2>2, <2>3
<1>. QED BY <1>3, <1>4, <1>5 DEF Deliveries

-----------------------------------------------------------------------------
(* The inductive invariant of the record writer                            *)

LEMMA RecordInitInv == RecordInit => RecordInv
<1>. SUFFICES ASSUME RecordInit PROVE RecordInv
  OBVIOUS
<1>1. ArrowInv
  BY ArrowInitInv DEF RecordInit
<1>2. /\ pc = "idle" /\ accepted = 0 /\ stage = "idle" /\ rows = 0 /\ rowBuffer = <<>> /\ request = "none"
      /\ pendingItems = <<>> /\ blobFiles = 0 /\ content = [k \in Batches |-> <<>>]
  BY DEF RecordInit, Init
<1>3. 1..accepted = {} /\ 1..rows = {}
  BY <1>2
<1>4. Stages /\ Batched /\ Matching /\ Deliveries
  BY <1>2, <1>3 DEF Stages, AsyncSteps, Batched, Covered, OnceEach, Matching, Deliveries,
     RecordsDelivered
<1>5. RecordTypes /\ Numbered
  BY <1>2, <1>3, BoundsAssumption DEF BoundsAssumption, RecordTypes, Numbered, RowIds
<1>6. BlobsCounted
  <2>1. BlobCells = {}
    BY <1>2 DEF BlobCells
  <2>2. Cardinality(BlobCells) = 0
    BY <2>1, FS_EmptySet
  <2>. QED BY <1>2, <2>2, RecordBoundsAssumption DEF BlobsCounted, RecordBoundsAssumption
<1>. QED BY <1>1, <1>4, <1>5, <1>6 DEF RecordInv

LEMMA RecordStill ==
  ASSUME RecordInv, UNCHANGED recordVars
  PROVE  RecordInv'
<1>1. ArrowInv'
  BY ArrowSteps, ArrowStepInv DEF RecordInv
<1>. USE DEF RecordInv, recordVars, recordCall, recordBuffer, recordHistory
<1>2. Stages' /\ RecordTypes'
  BY DEF Stages, RecordTypes
<1>3. Numbered' /\ \A r : BatchesOf(r)' = BatchesOf(r)
  BY DEF Numbered, RowIds, BatchesOf
<1>4. Batched'
  BY <1>3 DEF Batched, Covered, OnceEach, JustBatched, InOneBatch, RowIds
<1>5. Matching'
  BY DEF Matching, CellMatches
<1>6. BlobsCounted'
  BY DEF BlobsCounted, BlobCells
<1>7. Deliveries'
  BY <1>3 DEF Deliveries, AllDelivered, RecordsDelivered
<1>. QED BY <1>1, <1>2, <1>3, <1>4, <1>5, <1>6, <1>7

LEMMA RecordStepInv == RecordInv /\ [RecordNext]_recordVars => RecordInv'
<1>1. ASSUME RecordInv, RecordNext PROVE RecordInv'
  <2>1. ArrowInv'
    BY <1>1, ArrowSteps, ArrowStepInv DEF RecordInv
  <2>. QED BY <1>1, <2>1, StagesStep, RecordTypesStep, NumberedStep, BatchedStep, MatchingStep,
     BlobsCountedStep, DeliveriesStep DEF RecordInv, ArrowInv
<1>. QED BY <1>1, RecordStill

LEMMA RecordInvariant == RecordSpec => []RecordInv
BY RecordInitInv, RecordStepInv, PTL DEF RecordSpec

LEMMA OnceEachCounts ==
  ASSUME RecordTypes, OnceEach, NEW r \in (1..rows) \ resent
  PROVE  Cardinality(BatchesOf(r)) + (IF r \in RowIds(rowBuffer) THEN 1 ELSE 0) = 1
<1>1. CASE r \in RowIds(rowBuffer)
  <2>1. Cardinality(BatchesOf(r)) = 0
    BY <1>1, FS_EmptySet DEF OnceEach
  <2>. QED BY <1>1, <2>1
<1>2. CASE r \notin RowIds(rowBuffer)
  <2>1. PICK k \in 1..accepted : BatchesOf(r) = {k}
    BY <1>2 DEF OnceEach, InOneBatch
  <2>2. Cardinality(BatchesOf(r)) = 1
    BY <2>1, FS_Singleton
  <2>. QED BY <1>2, <2>2
<1>. QED BY <1>1, <1>2

(* Through any calls that raise at any point, a row write() has taken is in *)
(* the row buffer or in one Arrow batch, and in one of them only, unless    *)
(* its batch was cached by a write_batch that raised for an older flush.    *)
THEOREM BatchedOnceTheorem == RecordSpec => []RowsBatchedOnce
<1>1. RecordInv => RowsBatchedOnce
  BY OnceEachCounts DEF RecordInv, Batched, RowsBatchedOnce
<1>. QED BY <1>1, RecordInvariant, PTL

(* flush() and close() of the record writer return without an exception     *)
(* only when every row written is in the table, whatever mix of buffers,    *)
(* pending flushes and direct calls of the Arrow writer it went through.    *)
THEOREM RecordsDeliveredTheorem == RecordSpec => []RecordsDelivered
<1>1. RecordInv => RecordsDelivered
  BY DEF RecordInv, Deliveries
<1>. QED BY <1>1, RecordInvariant, PTL

(* A cell reaches the Arrow writer with the reference of its own blob, for  *)
(* any number of rows, blobs, refused rows and repeated uploads; every      *)
(* placeholder has its item and the blob count is that of buffered cells.   *)
THEOREM ReferencesTheorem == RecordSpec => []ReferencesMatch
<1>1. ASSUME RecordInv PROVE ReferencesMatch
  <2>1. \A p \in BlobCells : LET cell == rowBuffer[p[1]].cells[p[2]]
                             IN  IsPlaceholder(cell) => cell[1] \in DOMAIN pendingItems
    <3>1. ASSUME NEW p \in BlobCells, IsPlaceholder(rowBuffer[p[1]].cells[p[2]])
          PROVE  rowBuffer[p[1]].cells[p[2]][1] \in DOMAIN pendingItems
      <4>. DEFINE cell == rowBuffer[p[1]].cells[p[2]]
      <4>1. CellMatches(rowBuffer[p[1]].row, p[2], cell)
        BY <1>1 DEF RecordInv, Matching, BlobCells
      <4>. HIDE DEF cell
      <4>2. cell # <<rowBuffer[p[1]].row, p[2]>>
        BY <3>1 DEF IsPlaceholder, cell
      <4>3. PICK m \in DOMAIN pendingItems : cell = <<m>>
        BY <4>1, <4>2 DEF CellMatches
      <4>. QED BY <4>3 DEF cell
    <3>. QED BY <3>1
  <2>. QED BY <1>1, <2>1 DEF RecordInv, Matching, BlobsCounted, ReferencesMatch
<1>. QED BY <1>1, RecordInvariant, PTL
-----------------------------------------------------------------------------
(* Calls of the record writer come to an end                               *)

\* What a call finds on its way: room for its batch and its flush, the result
\* of the Arrow writer's call, an answer, futures of flushes that were started.
WayOpen ==
  /\ stage \in {"flush_records", "write_batch"} => accepted < MaxBatches /\ flushes < MaxFlushes
  /\ stage \in {"batching", "flushing", "closing"} /\ pc = "idle" => result # "none"
  /\ pc = "flush_reply" => rpc["caller"].stage # "none"
  /\ wpc = "reply" => rpc["worker"].stage # "none"
  /\ \A f \in pendingFutures \cup awaited : f <= flushes

\* The caller's own steps inside a call.
LEMMA WayOfCaller ==
  ASSUME IInv, WayOpen, CallerContinues
  PROVE  /\ pc # "idle"
         /\ pc' = "idle" => result' # "none"
         /\ pc' = "flush_reply" => rpc'["caller"].stage # "none"
         /\ UNCHANGED wpc /\ rpc'["worker"].stage = rpc["worker"].stage
         /\ \A f \in pendingFutures' \cup awaited' : f <= flushes'
<1>1. rpc \in [Threads -> [stage : {"none", "sent", "acked", "refused"}, offset : Nat]]
  BY DEF IInv, TypeInv, ServiceTypes
<1>. USE <1>1 DEF WayOpen, Threads
<1>2. CASE RejectBatch \/ AppendBatch \/ LoadSize \/ StoreSize \/ CheckThreshold
  BY <1>2 DEF RejectBatch, AppendBatch, LoadSize, StoreSize, CheckThreshold, NextBatch
<1>3. CASE FlushAsync \/ AcquireSemaphore \/ Submit \/ AssignFuture
  BY <1>3 DEF FlushAsync, SurfaceFailedFutures, NextBatch, AcquireSemaphore, Submit, AssignFuture
<1>4. CASE CaptureBufferState \/ TrackFuture
  <2>1. flushes \in Nat /\ \A f \in pendingFutures \cup awaited : f \in Nat
    BY BoundsAssumption DEF IInv, TypeInv, FutureTypes, Flushes, BoundsAssumption
  <2>2. /\ UNCHANGED <<wpc, rpc, awaited>> /\ pc # "idle" /\ pc' # "flush_reply"
        /\ flushes' \in {flushes, flushes + 1}
        /\ pendingFutures' \subseteq pendingFutures \cup {flushes}
        /\ pc' = "idle" => result' = "ok"
    BY <1>4 DEF CaptureBufferState, TrackFuture, Tracked, NextBatch
  <2>3. \A f \in pendingFutures' \cup awaited' : f <= flushes'
    BY <2>1, <2>2
  <2>. QED BY <2>2, <2>3
<1>5. CASE Awaited \/ FlushRest \/ FlushReply \/ ClearBufferState
  BY <1>5 DEF Awaited, FlushRest, FlushReply, ClearBufferState, FlushRaises, SendWrite,
     StoreResponse, RaiseResponse, NoCall
<1>6. CASE Flushed \/ CloseStream \/ JoinWorker \/ StoreRowOffset
  BY <1>6 DEF Flushed, CloseStream, JoinWorker, StoreRowOffset
<1>. QED BY <1>2, <1>3, <1>4, <1>5, <1>6 DEF CallerContinues

LEMMA WayOfOthers ==
  ASSUME IInv, WayOpen, WorkerSteps \/ Serve
  PROVE  /\ UNCHANGED <<pc, result, accepted, flushes>>
         /\ rpc["caller"].stage # "none" => rpc'["caller"].stage # "none"
         /\ wpc' = "reply" => rpc'["worker"].stage # "none"
         /\ pendingFutures' \subseteq pendingFutures /\ awaited' = awaited
<1>1. rpc \in [Threads -> [stage : {"none", "sent", "acked", "refused"}, offset : Nat]]
  BY DEF IInv, TypeInv, ServiceTypes
<1>. USE <1>1 DEF WayOpen, Threads
<1>2. CASE TakeTask \/ RestoreLoad \/ RestoreStore \/ RestoreLoadSize \/ RestoreStoreSize
  BY <1>2 DEF TakeTask, RestoreLoad, RestoreStore, RestoreLoadSize, RestoreStoreSize
<1>3. CASE WorkerSend \/ WorkerReply \/ Untrack \/ ReleaseSemaphore \/ ResolveFuture
  BY <1>3 DEF WorkerSend, SendWrite, WorkerReply, StoreResponse, RaiseResponse, OnFailure, NoCall,
     Untrack, ReleaseSemaphore, ResolveFuture
<1>4. CASE Serve
  <2>1. \A t \in Threads : rpc[t].stage # "none" => rpc'[t].stage # "none"
    BY <1>4 DEF Serve, ServeOk, ServeFailure
  <2>. QED BY <1>4, <2>1 DEF Serve
<1>. QED BY <1>2, <1>3, <1>4 DEF WorkerSteps

LEMMA WayOpenStep ==
  ASSUME RecordInv, WayOpen, [RecordNext]_recordVars
  PROVE  WayOpen'
<1>0. IInv /\ Stages /\ flushes \in Nat /\ accepted \in Nat
  BY DEF RecordInv, ArrowInv, IInv, TypeInv, FutureTypes, HistoryTypes
<1>1. CASE OwnSteps
  <2>1. UNCHANGED vars
    BY <1>1, OwnStepsKeep
  <2>2. CASE Write \/ WriteRaises \/ CallFlush
    BY <2>1, <2>2 DEF Write, WriteRaises, CallFlush, Room, WayOpen, recordBuffer
  <2>3. CASE NothingToFlush \/ UploadPendingBlobs \/ BatchTaken \/ BatchRaises
    BY <2>1, <2>3 DEF NothingToFlush, UploadPendingBlobs, BatchTaken, BatchRaises, AfterRecords,
       EndRecordCall, Step, WayOpen
  <2>4. CASE ArrowFlushed \/ ArrowReturns
    BY <2>1, <2>4 DEF ArrowFlushed, ArrowReturns, EndRecordCall, Step, WayOpen
  <2>. QED BY <1>1, <2>2, <2>3, <2>4 DEF OwnSteps
<1>2. CASE CallsArrow
  <2>1. UNCHANGED <<accepted, flushes, rpc, wpc>>
    BY <1>2 DEF CallsArrow, DirectCall, CallWriteBatch, CallArrowFlush, CallArrowClose,
       CallFlushAsync, CloseAgain, AwaitPendingFlush, WriteBatch, SurfaceFailedFutures,
       recordHistory
  <2>2. /\ pc' # "flush_reply" /\ (pc' = "idle" => result' # "none")
        /\ pendingFutures' \cup awaited' \subseteq pendingFutures \cup awaited
    BY <1>2 DEF CallsArrow, DirectCall, CallWriteBatch, CallArrowFlush, CallArrowClose,
       CallFlushAsync, CloseAgain, AwaitPendingFlush, WriteBatch, SurfaceFailedFutures
  <2>3. stage' \in {"idle", "batching", "flushing", "closing"}
    BY <1>2 DEF CallsArrow, DirectCall, CallWriteBatch, CallArrowFlush, CallArrowClose, Step,
       recordCall
  <2>. QED BY <2>1, <2>2, <2>3 DEF WayOpen
<1>3. CASE ArrowGoesOn
  <2>1. UNCHANGED stage /\ (CallerContinues \/ WorkerSteps \/ Serve)
    BY <1>3, GoesOnKeeps
  <2>2. CASE CallerContinues
    <3>1. stage \notin {"flush_records", "write_batch"}
      BY <1>0, <2>2, WayOfCaller DEF Stages, RecordInv
    <3>. QED BY <1>0, <2>1, <2>2, <3>1, WayOfCaller DEF WayOpen
  <2>3. CASE WorkerSteps \/ Serve
    BY <1>0, <2>1, <2>3, WayOfOthers DEF WayOpen
  <2>. QED BY <2>1, <2>2, <2>3
<1>4. CASE UNCHANGED recordVars
  BY <1>4 DEF recordVars, recordCall, WayOpen
<1>. QED BY <1>1, <1>2, <1>3, <1>4, RecordSteps

LEMMA WayStaysOpen == RecordSpec => []WayOpen
<1>1. RecordInit => WayOpen
  BY DEF RecordInit, Init, WayOpen
<1>. QED BY <1>1, WayOpenStep, RecordInvariant, PTL DEF RecordSpec
LEMMA WorkerGoesOn ==
  ASSUME IInv, WayOpen, wpc # "idle" \/ Queued # {}
  PROVE  WorkerGuard \/ ServiceGuard
<1>1. /\ rpc \in [Threads -> [stage : {"none", "sent", "acked", "refused"}, offset : Nat]]
      /\ wpc = "reply" => rpc["worker"].stage # "none"
  BY DEF IInv, TypeInv, ServiceTypes, WayOpen
<1>2. wpc = "reply" => rpc["worker"].stage \in {"acked", "refused"} \/ ServiceGuard
  BY <1>1 DEF Threads, ServiceGuard
<1>. QED BY <1>2 DEF WorkerGuard

LEMMA SomebodyGoesOn ==
  ASSUME RecordInv, WayOpen, InCall
  PROVE  CallerGuard \/ WorkerGuard \/ ServiceGuard
<1>0. IInv
  BY DEF RecordInv, ArrowInv
<1>1. CASE ~AwaitsOthers
  BY <1>1 DEF CallerGuard, WayOpen
<1>2. CASE AwaitsLock
  BY <1>2 DEF AwaitsLock, WorkerLocked, WorkerGuard
<1>3. CASE pc = "acquire" /\ semaphore = 0
  <2>1. Cardinality(Holders) # 0
    BY <1>0, <1>3, HoldersFinite, BoundsAssumption DEF BoundsAssumption, IInv, PermitsBalance
  <2>2. PICK f \in Flushes : HoldsPermit(f)
    BY <2>1, FS_EmptySet DEF Holders
  <2>3. 0 \notin Flushes
    BY DEF Flushes
  <2>4. wpc # "idle" \/ Queued # {}
    BY <1>0, <1>3, <2>2, <2>3 DEF HoldsPermit, IInv, FlushStates, Queued
  <2>. QED BY <1>0, <2>4, WorkerGoesOn
<1>4. CASE pc = "await" /\ ~AwaitOver
  <2>1. PICK f \in awaited : ~Resolved(f)
    BY <1>4 DEF AwaitOver
  <2>2. f \in Flushes /\ f <= flushes /\ flushes \in Nat
    BY <1>0, <2>1 DEF WayOpen, IInv, TypeInv, FutureTypes
  <2>3. status[f] \in {"captured", "queued", "running"}
    <3>1. ~(f > flushes)
      BY <2>2, BoundsAssumption DEF Flushes, BoundsAssumption
    <3>. QED BY <1>0, <2>1, <2>2, <3>1 DEF Resolved, IInv, TypeInv, FutureTypes, FlushStates
  <2>4. 0 \notin Flushes
    BY DEF Flushes
  <2>5. wpc # "idle" \/ Queued # {}
    BY <1>0, <1>4, <2>2, <2>3, <2>4 DEF IInv, FlushStates, Queued
  <2>. QED BY <1>0, <2>5, WorkerGoesOn
<1>5. CASE pc = "flush_reply" /\ rpc["caller"].stage = "sent"
  BY <1>5 DEF ServiceGuard, Threads
<1>6. CASE pc = "join" /\ (wpc # "idle" \/ Queued # {})
  BY <1>0, <1>6, WorkerGoesOn
<1>. QED BY <1>1, <1>2, <1>3, <1>4, <1>5, <1>6 DEF AwaitsOthers

(* No call of the record writer, nor a direct one of the Arrow writer, ever *)
(* waits for a permit, a future, the lock or the executor while nobody is   *)
(* left to bring it, for any number of buffers, batches and failures.       *)
THEOREM NobodyIsStuck == RecordSpec /\ []GuardsSuffice => []CallNotStuck
<1>1. RecordInv /\ WayOpen /\ GuardsSuffice => CallNotStuck
  BY SomebodyGoesOn DEF CallNotStuck
<1>. QED BY <1>1, RecordInvariant, WayStaysOpen, PTL

\* Steps that are left: of the flush the worker runs, of the Arrow writer's
\* call, of the record writer's call.
WorkerWork ==
  CASE wpc = "idle" -> 0
    [] wpc = "resolve" -> 1
    [] wpc = "release" -> 2
    [] wpc = "restore_store_size" -> 3
    [] wpc = "restore_load_size" -> 4
    [] wpc = "restore_store" -> 5
    [] wpc = "restore_load" -> 6
    [] wpc = "untrack" -> 7
    [] wpc = "reply" -> IF rpc["worker"].stage = "sent" THEN 9 ELSE 8
    [] wpc = "send" -> 10

CallerWork ==
  CASE pc = "idle" -> 0
    [] pc \in {"store_offset", "join", "track"} -> 1
    [] pc \in {"close_stream", "assign"} -> 2
    [] pc = "flushed" -> 3
    [] pc = "clear" -> 4
    [] pc = "flush_reply" -> IF rpc["caller"].stage = "sent" THEN 6 ELSE 5
    [] pc = "flush_rest" -> 7
    [] pc = "await" -> 8
    [] pc = "submit" -> 14
    [] pc = "capture" -> 15
    [] pc = "acquire" -> 16
    [] pc = "flush_async" -> 17
    [] pc = "threshold" -> 18
    [] pc = "store_size" -> 19
    [] pc = "load_size" -> 20
    [] pc = "append" -> 21

RecordWork ==
  CASE stage = "idle" -> 0
    [] stage = "closing" -> 1
    [] stage = "close_arrow" -> 10
    [] stage = "flushing" -> 11
    [] stage = "flush_arrow" -> 20
    [] stage = "batching" -> 21
    [] stage = "write_batch" -> 43
    [] stage = "flush_records" -> 44

\* All that is left to do, each queued flush taking eleven steps, and each
\* failure that is still to come one.
Work ==
  (MaxFailures - failures) + 11 * Cardinality(Queued) + WorkerWork + CallerWork + RecordWork

StageTypes ==
  stage \in {"idle", "flush_records", "write_batch", "batching", "flush_arrow", "flushing",
             "close_arrow", "closing"}

LEMMA StageTypesStep ==
  ASSUME StageTypes, [RecordNext]_recordVars
  PROVE  StageTypes'
<1>1. CASE OwnSteps
  BY <1>1 DEF OwnSteps, StageTypes, Write, WriteRaises, CallFlush, NothingToFlush,
     UploadPendingBlobs, BatchTaken, BatchRaises, ArrowFlushed, ArrowReturns, AfterRecords,
     EndRecordCall, Step
<1>2. CASE CallsArrow
  BY <1>2 DEF CallsArrow, StageTypes, DirectCall, CallWriteBatch, CallArrowFlush, CallArrowClose,
     Step, recordCall
<1>3. CASE ArrowGoesOn \/ UNCHANGED recordVars
  BY <1>3, GoesOnKeeps DEF StageTypes, recordVars, recordCall
<1>. QED BY <1>1, <1>2, <1>3, RecordSteps

LEMMA StagesTyped == RecordSpec => []StageTypes
<1>1. RecordInit => StageTypes
  BY DEF RecordInit, StageTypes
<1>. QED BY <1>1, StageTypesStep, PTL DEF RecordSpec

LEMMA QueuedFinite ==
  ASSUME TypeInv
  PROVE  IsFiniteSet(Queued) /\ Cardinality(Queued) \in Nat
<1>1. IsFiniteSet(Flushes)
  BY FS_Interval, BoundsAssumption DEF Flushes, BoundsAssumption
<1>2. IsFiniteSet(Queued)
  BY <1>1, FS_Subset DEF Queued
<1>. QED BY <1>2, FS_CardinalityType

LEMMA WorkIsNat ==
  ASSUME TypeInv, StageTypes
  PROVE  /\ WorkerWork \in Nat /\ CallerWork \in Nat /\ RecordWork \in Nat
         /\ MaxFailures - failures \in Nat /\ Cardinality(Queued) \in Nat /\ Work \in Nat
<1>1. WorkerWork \in Nat
  BY DEF WorkerWork, TypeInv, WorkerTypes
<1>2. CallerWork \in Nat
  BY DEF CallerWork, TypeInv, CallerTypes
<1>3. RecordWork \in Nat
  BY DEF RecordWork, StageTypes
<1>4. MaxFailures - failures \in Nat
  BY BoundsAssumption DEF BoundsAssumption, TypeInv, ServiceTypes
<1>. QED BY <1>1, <1>2, <1>3, <1>4, QueuedFinite DEF Work
LEMMA OwnWork ==
  ASSUME OwnSteps, InCall
  PROVE  /\ UNCHANGED vars
         /\ RecordWork' < RecordWork
<1>1. UNCHANGED vars
  BY OwnStepsKeep
<1>2. ~(Write \/ WriteRaises \/ CallFlush)
  BY DEF InCall, Write, WriteRaises, CallFlush, Room
<1>3. \/ stage = "flush_records" /\ stage' \in {"write_batch", "flush_arrow", "idle"}
      \/ stage = "batching" /\ stage' \in {"flush_arrow", "idle"}
      \/ stage = "flushing" /\ stage' \in {"close_arrow", "idle"}
      \/ stage = "closing" /\ stage' = "idle"
  BY <1>2 DEF OwnSteps, NothingToFlush, UploadPendingBlobs, BatchTaken, BatchRaises, ArrowFlushed,
     ArrowReturns, AfterRecords, EndRecordCall, Step, Returned
<1>. QED BY <1>1, <1>3 DEF RecordWork

LEMMA CallWork ==
  ASSUME CallsArrow, InCall, Stages
  PROVE  /\ UNCHANGED <<failures, status, wpc, rpc>>
         /\ CallerWork' + RecordWork' < CallerWork + RecordWork
<1>1. ~DirectCall
  BY DEF DirectCall, InCall, CallFlushAsync, CloseAgain, AwaitPendingFlush
<1>2. /\ pc = "idle"
      /\ \/ stage = "write_batch" /\ stage' = "batching" /\ pc' \in {"append", "idle"}
         \/ stage = "flush_arrow" /\ stage' = "flushing" /\ pc' = "await"
         \/ stage = "close_arrow" /\ stage' = "closing" /\ pc' \in {"await", "idle"}
      /\ UNCHANGED <<failures, status, wpc, rpc>>
  BY <1>1 DEF CallsArrow, CallWriteBatch, CallArrowFlush, CallArrowClose, CloseAgain,
     AwaitPendingFlush, WriteBatch, Step
<1>. QED BY <1>2 DEF CallerWork, RecordWork

\* The caller goes on: a flush it submits is eleven steps of the worker's.
LEMMA ContinuedWork ==
  ASSUME IInv, CallerContinues, pc \in TakenSteps /\ op = "write_batch" => left = 1
  PROVE  /\ UNCHANGED wpc /\ rpc'["worker"].stage = rpc["worker"].stage
         /\ failures' \in {failures, failures + 1}
         /\ \/ CallerWork' < CallerWork /\ Queued' = Queued
            \/ /\ CallerWork = 14 /\ CallerWork' = 2
               /\ Cardinality(Queued') = Cardinality(Queued) + 1
<1>0. /\ rpc \in [Threads -> [stage : {"none", "sent", "acked", "refused"}, offset : Nat]]
      /\ failures \in Nat
      /\ status \in [Flushes -> {"none", "captured", "queued", "running", "done", "failed"}]
  BY BoundsAssumption DEF IInv, TypeInv, FutureTypes, ServiceTypes, BoundsAssumption
<1>1. CASE RejectBatch \/ AppendBatch \/ LoadSize \/ StoreSize \/ CheckThreshold
  <2>1. /\ UNCHANGED <<wpc, rpc, failures, status>>
        /\ \/ pc = "append" /\ pc' \in {"idle", "load_size"}
           \/ pc = "load_size" /\ pc' = "store_size"
           \/ pc = "store_size" /\ pc' = "threshold"
           \/ pc = "threshold" /\ pc' \in {"flush_async", "idle"}
    BY <1>1 DEF RejectBatch, AppendBatch, LoadSize, StoreSize, CheckThreshold, NextBatch,
       TakenSteps
  <2>. QED BY <1>0, <2>1 DEF CallerWork, Queued
<1>2. CASE FlushAsync \/ AcquireSemaphore \/ AssignFuture \/ TrackFuture
  <2>1. /\ UNCHANGED <<wpc, rpc, failures, status>>
        /\ \/ pc = "flush_async" /\ pc' \in {"idle", "acquire"}
           \/ pc = "acquire" /\ pc' = "capture"
           \/ pc = "assign" /\ pc' = "track"
           \/ pc = "track" /\ pc' = "idle"
    BY <1>2 DEF FlushAsync, AcquireSemaphore, AssignFuture, TrackFuture, NextBatch,
       TakenSteps, AsyncSteps
  <2>. QED BY <1>0, <2>1 DEF CallerWork, Queued
<1>3. CASE CaptureBufferState
  <2>1. UNCHANGED <<wpc, rpc, failures>> /\ pc = "capture" /\ pc' = "submit"
    BY <1>3 DEF CaptureBufferState
  <2>2. flushes + 1 \in Flushes => status[flushes + 1] # "queued"
    BY <1>3, BoundsAssumption DEF IInv, FlushStates, TypeInv, FutureTypes, BoundsAssumption
  <2>3. Queued' = Queued
    BY <1>0, <1>3, <2>2 DEF CaptureBufferState, Queued
  <2>. QED BY <1>0, <2>1, <2>3 DEF CallerWork
<1>4. CASE Submit
  <2>1. UNCHANGED <<wpc, rpc, failures>> /\ pc = "submit" /\ pc' = "assign"
    BY <1>4 DEF Submit
  <2>2. flushes \in Flushes /\ status[flushes] = "captured"
    BY <1>4, BoundsAssumption DEF Submit, IInv, CallBounds, FlushStates, TypeInv, FutureTypes,
       Flushes, BoundsAssumption
  <2>3. Queued' = Queued \cup {flushes} /\ flushes \notin Queued
    BY <1>0, <1>4, <2>2 DEF Submit, Queued
  <2>4. Cardinality(Queued') = Cardinality(Queued) + 1
    BY <2>3, QueuedFinite, FS_AddElement DEF IInv
  <2>. QED BY <1>0, <2>1, <2>4 DEF CallerWork
<1>5. CASE Awaited \/ ClearBufferState \/ Flushed \/ JoinWorker \/ StoreRowOffset \/ CloseStream
  <2>1. /\ UNCHANGED <<wpc, rpc, status>> /\ failures' \in {failures, failures + 1}
        /\ \/ pc = "await" /\ pc' \in {"flush_rest", "close_stream", "idle"}
           \/ pc = "clear" /\ pc' = "flushed"
           \/ pc = "flushed" /\ pc' \in {"idle", "close_stream"}
           \/ pc = "join" /\ pc' = "idle"
           \/ pc = "store_offset" /\ pc' = "idle"
           \/ pc = "close_stream" /\ pc' = "join"
    BY <1>0, <1>5 DEF Awaited, FlushRaises, ClearBufferState, Flushed, JoinWorker, StoreRowOffset,
       CloseStream
  <2>. QED BY <1>0, <2>1 DEF CallerWork, Queued
<1>6. CASE FlushRest
  <2>1. /\ UNCHANGED <<wpc, failures, status>> /\ rpc'["worker"].stage = rpc["worker"].stage
        /\ pc = "flush_rest"
        /\ pc' \in {"flushed", "close_stream", "idle", "flush_reply"}
    BY <1>0, <1>6 DEF FlushRest, FlushRaises, SendWrite, Threads
  <2>. QED BY <1>0, <2>1 DEF CallerWork, Queued
<1>7. CASE FlushReply
  <2>1. /\ UNCHANGED <<wpc, failures, status>> /\ rpc'["worker"].stage = rpc["worker"].stage
        /\ pc = "flush_reply" /\ rpc["caller"].stage # "sent"
        /\ pc' \in {"clear", "close_stream", "idle"}
    BY <1>0, <1>7 DEF FlushReply, FlushRaises, StoreResponse, RaiseResponse, NoCall, Threads
  <2>. QED BY <1>0, <2>1 DEF CallerWork, Queued
<1>. QED BY <1>1, <1>2, <1>3, <1>4, <1>5, <1>6, <1>7 DEF CallerContinues

LEMMA WorkerSpends ==
  ASSUME IInv, WorkerSteps
  PROVE  /\ UNCHANGED <<pc, failures>> /\ rpc'["caller"].stage = rpc["caller"].stage
         /\ \/ WorkerWork' < WorkerWork /\ Queued' = Queued
            \/ /\ WorkerWork = 0 /\ WorkerWork' = 10
               /\ Cardinality(Queued') = Cardinality(Queued) - 1
<1>0. /\ rpc \in [Threads -> [stage : {"none", "sent", "acked", "refused"}, offset : Nat]]
      /\ status \in [Flushes -> {"none", "captured", "queued", "running", "done", "failed"}]
  BY DEF IInv, TypeInv, FutureTypes, ServiceTypes
<1>1. CASE TakeTask
  <2>1. UNCHANGED <<pc, failures, rpc>> /\ wpc = "idle" /\ wpc' = "send"
    BY <1>1 DEF TakeTask
  <2>2. PICK f \in Queued : status' = [status EXCEPT ![f] = "running"]
    BY <1>1 DEF TakeTask
  <2>3. Queued' = Queued \ {f}
    BY <1>0, <2>2 DEF Queued
  <2>4. Cardinality(Queued') = Cardinality(Queued) - 1
    BY <2>2, <2>3, QueuedFinite, FS_RemoveElement DEF IInv
  <2>. QED BY <2>1, <2>4 DEF WorkerWork
<1>2. CASE WorkerSend \/ WorkerReply
  <2>1. /\ UNCHANGED <<pc, failures, status>> /\ rpc'["caller"].stage = rpc["caller"].stage
        /\ \/ wpc = "send" /\ wpc' = "reply"
           \/ /\ wpc = "reply" /\ rpc["worker"].stage # "sent"
              /\ wpc' \in {"untrack", "restore_load"}
    BY <1>0, <1>2 DEF WorkerSend, WorkerReply, SendWrite, StoreResponse, RaiseResponse, NoCall,
       OnFailure, Threads
  <2>. QED BY <2>1 DEF WorkerWork, Queued
<1>3. CASE Untrack \/ RestoreLoad \/ RestoreStore \/ RestoreLoadSize \/ RestoreStoreSize
           \/ ReleaseSemaphore
  <2>1. /\ UNCHANGED <<pc, failures, status, rpc>>
        /\ \/ wpc = "untrack" /\ wpc' \in {"restore_load", "release"}
           \/ wpc = "restore_load" /\ wpc' = "restore_store"
           \/ wpc = "restore_store" /\ wpc' = "restore_load_size"
           \/ wpc = "restore_load_size" /\ wpc' = "restore_store_size"
           \/ wpc = "restore_store_size" /\ wpc' = "release"
           \/ wpc = "release" /\ wpc' = "resolve"
    BY <1>3 DEF Untrack, RestoreLoad, RestoreStore, RestoreLoadSize, RestoreStoreSize,
       ReleaseSemaphore
  <2>. QED BY <2>1 DEF WorkerWork, Queued
<1>4. CASE ResolveFuture
  <2>1. UNCHANGED <<pc, failures, rpc>> /\ wpc = "resolve" /\ wpc' = "idle"
    BY <1>4 DEF ResolveFuture
  <2>2. Queued' = Queued
    BY <1>0, <1>4 DEF ResolveFuture, Queued, IInv, FlushStates, TypeInv, WorkerTypes
  <2>. QED BY <2>1, <2>2 DEF WorkerWork
<1>. QED BY <1>1, <1>2, <1>3, <1>4 DEF WorkerSteps

LEMMA AnswerSpends ==
  ASSUME IInv, Serve
  PROVE  /\ UNCHANGED <<pc, wpc, status>> /\ failures' \in {failures, failures + 1}
         /\ WorkerWork' <= WorkerWork /\ CallerWork' <= CallerWork
         /\ \/ failures' = failures + 1
            \/ WorkerWork' < WorkerWork \/ CallerWork' < CallerWork
<1>0. /\ rpc \in [Threads -> [stage : {"none", "sent", "acked", "refused"}, offset : Nat]]
      /\ failures \in Nat
      /\ pc \in {"idle", "append", "load_size", "store_size", "threshold", "flush_async",
             "acquire", "capture", "submit", "assign", "track", "await", "flush_rest",
             "flush_reply", "clear", "flushed", "close_stream", "join", "store_offset"}
      /\ wpc \in {"idle", "send", "reply", "untrack", "restore_load", "restore_store",
              "restore_load_size", "restore_store_size", "release", "resolve"}
  BY BoundsAssumption DEF IInv, TypeInv, CallerTypes, WorkerTypes, ServiceTypes, BoundsAssumption
<1>1. UNCHANGED <<pc, wpc, status>>
  BY DEF Serve
<1>2. PICK t \in Threads :
        /\ rpc[t].stage = "sent"
        /\ \/ failures' = failures /\ rpc'[t].stage # "sent"
           \/ failures' = failures + 1
        /\ \A u \in Threads : rpc[u].stage # "sent" => rpc'[u].stage # "sent"
  BY <1>0 DEF Serve, ServeOk, ServeFailure
<1>3. (t = "worker" => wpc = "reply") /\ (t = "caller" => pc = "flush_reply")
  BY <1>2 DEF IInv, CallsOut
<1>4. WorkerWork' <= WorkerWork
  BY <1>0, <1>1, <1>2 DEF WorkerWork, Threads
<1>5. CallerWork' <= CallerWork
  BY <1>0, <1>1, <1>2 DEF CallerWork, Threads
<1>6. t = "worker" /\ rpc'[t].stage # "sent" => WorkerWork' < WorkerWork
  BY <1>1, <1>2, <1>3 DEF WorkerWork
<1>7. t = "caller" /\ rpc'[t].stage # "sent" => CallerWork' < CallerWork
  BY <1>1, <1>2, <1>3 DEF CallerWork
<1>. QED BY <1>0, <1>1, <1>2, <1>4, <1>5, <1>6, <1>7 DEF Threads
LEMMA CallerMoves == CallerContinues => pc # "idle"
BY DEF CallerContinues, RejectBatch, AppendBatch, LoadSize, StoreSize, CheckThreshold, FlushAsync,
   AcquireSemaphore, CaptureBufferState, Submit, AssignFuture, TrackFuture, Awaited, FlushRest,
   FlushReply, ClearBufferState, Flushed, CloseStream, JoinWorker, StoreRowOffset

LEMMA Remain ==
  ASSUME NEW m \in Nat, NEW k \in 0..m
  PROVE  m - k \in Nat /\ m - k + k = m
OBVIOUS

LEMMA StepSpends ==
  ASSUME RecordInv, StageTypes, InCall, RecordNext
  PROVE  Work' < Work
<1>0. IInv /\ Stages /\ StageTypes' /\ TypeInv'
  <2>1. RecordInv'
    BY RecordStepInv
  <2>. QED BY <2>1, StageTypesStep DEF RecordInv, ArrowInv, IInv
<1>1. PICK f \in Nat, q \in Nat, w \in Nat, c \in Nat, r \in Nat :
        /\ f = MaxFailures - failures /\ f + failures = MaxFailures
        /\ q = Cardinality(Queued)
        /\ w = WorkerWork /\ c = CallerWork /\ r = RecordWork
  <2>1. failures \in 0..MaxFailures /\ MaxFailures \in Nat
    BY <1>0, BoundsAssumption DEF IInv, TypeInv, ServiceTypes, BoundsAssumption
  <2>2. MaxFailures - failures \in Nat /\ MaxFailures - failures + failures = MaxFailures
    BY <2>1, Remain
  <2>. QED BY <1>0, <2>2, WorkIsNat DEF IInv
<1>2. PICK f2 \in Nat, q2 \in Nat, w2 \in Nat, c2 \in Nat, r2 \in Nat :
        /\ f2 = MaxFailures - failures' /\ f2 + failures' = MaxFailures
        /\ q2 = Cardinality(Queued')
        /\ w2 = WorkerWork' /\ c2 = CallerWork' /\ r2 = RecordWork'
  <2>1. failures' \in 0..MaxFailures /\ MaxFailures \in Nat
    BY <1>0, BoundsAssumption DEF TypeInv, ServiceTypes, BoundsAssumption
  <2>2. MaxFailures - failures' \in Nat /\ MaxFailures - failures' + failures' = MaxFailures
    BY <2>1, Remain
  <2>3. WorkerWork' \in Nat
    BY <1>0 DEF WorkerWork, TypeInv, WorkerTypes
  <2>4. CallerWork' \in Nat
    BY <1>0 DEF CallerWork, TypeInv, CallerTypes
  <2>5. RecordWork' \in Nat
    BY <1>0 DEF RecordWork, StageTypes
  <2>6. Cardinality(Queued') \in Nat
    <3>1. IsFiniteSet(Flushes)
      BY FS_Interval, BoundsAssumption DEF Flushes, BoundsAssumption
    <3>2. IsFiniteSet(Queued')
      BY <3>1, FS_Subset DEF Queued
    <3>. QED BY <3>2, FS_CardinalityType
  <2>. QED BY <2>2, <2>3, <2>4, <2>5, <2>6
<1>3. Work = f + 11 * q + w + c + r /\ Work' = f2 + 11 * q2 + w2 + c2 + r2
  BY <1>1, <1>2 DEF Work
<1>4. failures \in Nat /\ failures' \in Nat
  BY <1>0, BoundsAssumption DEF IInv, TypeInv, ServiceTypes, BoundsAssumption
<1>5. CASE OwnSteps
  <2>1. UNCHANGED <<failures, pc, wpc, rpc, status>> /\ RecordWork' < RecordWork
    BY <1>5, OwnWork
  <2>2. WorkerWork' = WorkerWork /\ CallerWork' = CallerWork /\ Queued' = Queued
    BY <2>1 DEF WorkerWork, CallerWork, Queued
  <2>3. f2 = f /\ q2 = q /\ w2 = w /\ c2 = c /\ r2 < r
    BY <1>1, <1>2, <2>1, <2>2
  <2>. QED BY <1>3, <2>3
<1>6. CASE CallsArrow
  <2>1. /\ UNCHANGED <<failures, wpc, rpc, status>>
        /\ CallerWork' + RecordWork' < CallerWork + RecordWork
    BY <1>0, <1>6, CallWork
  <2>2. WorkerWork' = WorkerWork /\ Queued' = Queued
    BY <2>1 DEF WorkerWork, Queued
  <2>3. f2 = f /\ q2 = q /\ w2 = w /\ c2 + r2 < c + r
    BY <1>1, <1>2, <2>1, <2>2
  <2>. QED BY <1>3, <2>3
<1>7. CASE ArrowGoesOn /\ CallerContinues
  <2>1. pc \in TakenSteps /\ op = "write_batch" => left = 1
    BY <1>0, <1>7, CallerMoves DEF Stages, TakenSteps, AsyncSteps
  <2>2. /\ UNCHANGED <<stage, wpc>> /\ rpc'["worker"].stage = rpc["worker"].stage
        /\ failures' \in {failures, failures + 1}
        /\ \/ CallerWork' < CallerWork /\ Queued' = Queued
           \/ /\ CallerWork = 14 /\ CallerWork' = 2
              /\ Cardinality(Queued') = Cardinality(Queued) + 1
    BY <1>0, <1>7, <2>1, ContinuedWork, GoesOnKeeps
  <2>3. WorkerWork' = WorkerWork /\ RecordWork' = RecordWork
    BY <2>2 DEF WorkerWork, RecordWork
  <2>4. f2 <= f
    BY <1>1, <1>2, <1>4, <2>2
  <2>5. w2 = w /\ r2 = r /\ ((c2 < c /\ q2 = q) \/ (c = 14 /\ c2 = 2 /\ q2 = q + 1))
    BY <1>1, <1>2, <2>2, <2>3
  <2>. QED BY <1>3, <2>4, <2>5
<1>8. CASE ArrowGoesOn /\ WorkerSteps
  <2>1. /\ UNCHANGED <<stage, pc, failures>> /\ rpc'["caller"].stage = rpc["caller"].stage
        /\ \/ WorkerWork' < WorkerWork /\ Queued' = Queued
           \/ /\ WorkerWork = 0 /\ WorkerWork' = 10
              /\ Cardinality(Queued') = Cardinality(Queued) - 1
    BY <1>0, <1>8, WorkerSpends, GoesOnKeeps
  <2>2. CallerWork' = CallerWork /\ RecordWork' = RecordWork
    BY <2>1 DEF CallerWork, RecordWork
  <2>3. f2 = f /\ c2 = c /\ r2 = r /\ ((w2 < w /\ q2 = q) \/ (w = 0 /\ w2 = 10 /\ q2 = q - 1))
    BY <1>1, <1>2, <2>1, <2>2
  <2>. QED BY <1>3, <2>3
<1>9. CASE ArrowGoesOn /\ Serve
  <2>1. /\ UNCHANGED <<stage, status>> /\ failures' \in {failures, failures + 1}
        /\ WorkerWork' <= WorkerWork /\ CallerWork' <= CallerWork
        /\ \/ failures' = failures + 1
           \/ WorkerWork' < WorkerWork \/ CallerWork' < CallerWork
    BY <1>0, <1>9, AnswerSpends, GoesOnKeeps
  <2>2. RecordWork' = RecordWork /\ Queued' = Queued
    BY <2>1 DEF RecordWork, Queued
  <2>3. f2 <= f /\ (failures' = failures + 1 => f2 < f)
    BY <1>1, <1>2, <1>4, <2>1
  <2>4. r2 = r /\ q2 = q /\ w2 <= w /\ c2 <= c /\ (f2 < f \/ w2 < w \/ c2 < c)
    BY <1>1, <1>2, <2>1, <2>2, <2>3
  <2>. QED BY <1>3, <2>3, <2>4
<1>. QED BY <1>5, <1>6, <1>7, <1>8, <1>9, RecordSteps, GoesOnKeeps

(* However the caller, the worker and the service take turns, every step    *)
(* that any of them takes during a call uses up some of the work the call   *)
(* began with: no retry, restore or failure lets a call go round in circles.*)
THEOREM CallsRunDown == RecordSpec => [][InCall => Work' < Work]_recordVars
<1>1. RecordInv /\ StageTypes /\ [RecordNext]_recordVars => [InCall => Work' < Work]_recordVars
  BY StepSpends
<1>. QED BY <1>1, RecordInvariant, StagesTyped, PTL DEF RecordSpec

\* No natural number falls for ever.  This holds of every behaviour and of any
\* state function in the place of Work; that it does is induction over the steps
\* of a behaviour, which is out of the provers' reach.
NoEndlessDescent ==
  [](Work \in Nat) => ~(<>[][Work' < Work]_recordVars /\ []<><<Work' < Work>>_recordVars)

(* Every call of the record writer and every direct call of the Arrow       *)
(* writer returns, for any number of buffers, batches, rows and failures:   *)
(* until it does somebody can step, is made to by fairness, and uses up     *)
(* work by stepping.                                                        *)
THEOREM RecordCallsDoReturn ==
  RecordSpec /\ []GuardsSuffice /\ NoEndlessDescent => RecordCallsReturn
<1>. DEFINE Natural == Work \in Nat
            Spends == Work' < Work
<1>1. ASSUME RecordInv, StageTypes, WayOpen
      PROVE  /\ InCall => CallerGuard \/ WorkerGuard \/ ServiceGuard
             /\ InCall /\ RecordNext => Spends
             /\ Natural
  <2>1. Natural
    BY <1>1, WorkIsNat DEF RecordInv, ArrowInv, IInv
  <2>. QED BY <1>1, <2>1, SomebodyGoesOn, StepSpends
<1>2. UNCHANGED recordVars =>
        /\ CallerGuard => CallerGuard'
        /\ WorkerGuard => WorkerGuard'
        /\ ServiceGuard => ServiceGuard'
  BY DEF recordVars, recordCall, recordHistory, InCall, CallerGuard, WorkerGuard, ServiceGuard,
     AwaitsOthers, AwaitsLock, WorkerLocked, AwaitOver, Resolved, Queued
<1>3. RecordContinues \/ ArrowStep(WorkerSteps) \/ ArrowStep(Serve) => RecordNext
  BY DEF RecordNext
<1>4. GuardsSuffice =>
        /\ CallerGuard => ENABLED <<RecordContinues>>_recordVars
        /\ WorkerGuard => ENABLED <<ArrowStep(WorkerSteps)>>_recordVars
        /\ ServiceGuard => ENABLED <<ArrowStep(Serve)>>_recordVars
  BY DEF GuardsSuffice
<1>5. NoEndlessDescent <=>
        ([]Natural => ~(<>[][Spends]_recordVars /\ []<><<Spends>>_recordVars))
  BY DEF NoEndlessDescent
<1>6. RecordCallsReturn <=> (InCall ~> ~InCall)
  BY DEF RecordCallsReturn
<1>. HIDE DEF Natural, Spends
<1>. QED BY <1>1, <1>2, <1>3, <1>4, <1>5, <1>6, RecordInvariant, StagesTyped, WayStaysOpen, PTL
         DEF RecordSpec
=============================================================================
