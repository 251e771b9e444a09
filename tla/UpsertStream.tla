---------------------------- MODULE UpsertStream ----------------------------
(***************************************************************************)
(* An Upsert stream of odps/tunnel/io/writer.py with the slot map of its   *)
(* TableUpsertSession: rows are buffered per bucket, and flush() uploads   *)
(* every bucket on a thread of its own to the server of its slot, round    *)
(* after round, until no bucket fails.  Meanwhile the keepalive timer      *)
(* reloads the session, and the service moves buckets between servers.     *)
(*                                                                         *)
(* Rows of a bucket are numbered, and a buffer is what its writer has put  *)
(* out so far: row numbers, and a Footer (count and checksum) where the    *)
(* writer was closed.  An upload's own retries inside the tunnel           *)
(* send the same request to the same server: they are one attempt that may *)
(* be applied before it fails.  A server is the number of times that its   *)
(* bucket had moved when the bucket came to it.                            *)
(***************************************************************************)
EXTENDS Naturals, SequencesExt

CONSTANTS
  Buckets,
  SlotBufferSize,   \* _slot_buffer_size, in rows
  MaxBufferSize,    \* _max_buffer_size, in rows
  MaxRetries,       \* retries of a failure that may be retried (7 in retry.py)
  MaxRows,          \* bound: rows written to the stream
  MaxMoves          \* bound: times the service moves one bucket

ASSUME SizesAssumption ==
  /\ SlotBufferSize \in Nat /\ MaxBufferSize \in Nat
  /\ MaxRetries \in Nat /\ MaxRows \in Nat /\ MaxMoves \in Nat
  /\ IsFiniteSet(Buckets)

VARIABLES
  buffer,      \* the contents of _bucket_writers[b] and _bucket_buffers[b]
  total,       \* _total_n_bytes, in rows
  closed,      \* _status is CLOSED
  slots,       \* the session's map: the server of each bucket
  buckets,     \* the stream's copy of it
  pc,          \* where the caller is
  op,          \* the method it has called
  flushAll,    \* the argument of flush()
  done,        \* bucket_written of the running flush()
  attempt,     \* its number of failed rounds
  upload,      \* upload[b]: how far the upload of bucket b is
  result,      \* how the last call ended
  owner,       \* the service: the server of each bucket
  applied,     \* the service: rows it has applied
  written,     \* history: number of rows written to each bucket
  acked,       \* history: rows whose upload succeeded
  moved,       \* history: rows whose upload was answered 308
  cut          \* history: rows uploaded behind a footer

stream == <<buffer, total, closed, written>>
call == <<pc, op, flushAll, done, attempt, result>>
service == <<owner, applied>>
history == <<acked, moved, cut>>
vars == <<stream, slots, buckets, call, upload, service, history>>

Footer == 0

Init ==
  /\ buffer = [b \in Buckets |-> <<>>] /\ total = 0 /\ closed = FALSE
  /\ owner = [b \in Buckets |-> 0] /\ slots = owner /\ buckets = owner
  /\ pc = "idle" /\ op = "write" /\ flushAll = TRUE /\ done = {} /\ attempt = 0
  /\ upload = [b \in Buckets |-> "none"]
  /\ result = "none"
  /\ applied = [b \in Buckets |-> {}]
  /\ written = [b \in Buckets |-> 0]
  /\ acked = applied /\ moved = applied /\ cut = applied

-----------------------------------------------------------------------------
(* The caller                                                              *)

Rows(s) == ToSet(s) \ {Footer}
\* The locals of flush() are gone when it ends.
End(how) ==
  /\ pc' = "idle" /\ result' = how
  /\ flushAll' = TRUE /\ done' = {} /\ attempt' = 0

\* The head of flush(): the slot map is read anew.
StartFlush(name, everything) ==
  /\ pc' = "round" /\ op' = name /\ flushAll' = everything
  /\ buckets' = slots /\ done' = {} /\ attempt' = 0
  /\ UNCHANGED result

\* upsert() and delete(): _write.
Write(b) ==
  /\ pc = "idle" /\ ~closed /\ total < MaxRows
  /\ written' = [written EXCEPT ![b] = @ + 1]
  /\ buffer' = [buffer EXCEPT ![b] = Append(@, written'[b])]
  /\ total' = total + 1
  /\ IF Len(buffer'[b]) > SlotBufferSize THEN StartFlush("write", FALSE)
     ELSE IF total' > MaxBufferSize THEN StartFlush("write", TRUE)
     ELSE End("ok") /\ op' = "write" /\ UNCHANGED buckets
  /\ UNCHANGED <<closed, slots, upload, service, history>>

Flush ==
  /\ pc = "idle" /\ ~closed
  /\ StartFlush("flush", TRUE)
  /\ UNCHANGED <<stream, slots, upload, service, history>>

Close ==
  /\ pc = "idle" /\ ~closed
  /\ StartFlush("close", TRUE)
  /\ UNCHANGED <<stream, slots, upload, service, history>>

ToSend ==
  {b \in Buckets : /\ buffer[b] # <<>> /\ b \notin done
                   /\ flushAll \/ Len(buffer[b]) > SlotBufferSize}

\* A writer closed again puts out one more footer, the same to any reader.
WithFooter(s) == IF Last(s) = Footer THEN s ELSE Append(s, Footer)

\* One round: every bucket's writer is closed and its upload submitted.
Round ==
  /\ pc = "round"
  /\ buffer' = [b \in Buckets |->
                  IF b \in ToSend THEN WithFooter(buffer[b]) ELSE buffer[b]]
  /\ upload' = [b \in Buckets |-> IF b \in ToSend THEN "sent" ELSE "none"]
  /\ pc' = "collect"
  /\ UNCHANGED <<total, closed, written, slots, buckets, op, flushAll, done, attempt, result,
                 service, history>>

Running == {b \in Buckets : upload[b] \in {"sent", "applied", "moved"}}
Failed == {b \in Buckets : upload[b] \in {"gateway", "server", "client"}}

MayRetry(b, n) == upload[b] # "client" /\ n <= MaxRetries

SameAttempt == attempt              \* mutant: rounds are not counted
NextAttempt == attempt + 1

AllSucceeded == Failed = {}

\* Every future has its result, and none has failed.
FlushReturns ==
  /\ pc = "collect" /\ Running = {} /\ AllSucceeded
  /\ End("ok")
  /\ closed' = (closed \/ op = "close")
  /\ UNCHANGED <<buffer, total, written, slots, buckets, op, upload, service, history>>

\* Some have failed: a gateway error reloads the session, which may itself
\* fail, silently (TunnelError) or not; then flush() goes on if any failure
\* may be retried.
FlushFails ==
  /\ pc = "collect" /\ Running = {} /\ ~AllSucceeded
  /\ IF \E b \in Failed : upload[b] = "gateway"
     THEN slots' \in {slots, owner} ELSE slots' = slots
  /\ buckets' = slots'
  /\ IF \E b \in Failed : MayRetry(b, NextAttempt)
     THEN /\ pc' = "round" /\ attempt' = NextAttempt
          /\ UNCHANGED <<result, flushAll, done>>
     ELSE End("error")
  /\ upload' = [b \in Buckets |-> "none"]
  /\ UNCHANGED <<stream, op, service, history>>

ReloadRaises ==
  /\ pc = "collect" /\ Running = {} /\ \E b \in Failed : upload[b] = "gateway"
  /\ End("error")
  /\ upload' = [b \in Buckets |-> "none"]
  /\ UNCHANGED <<stream, slots, buckets, op, service, history>>

-----------------------------------------------------------------------------
(* The threads of a round: write_bucket and the upload callback            *)

\* The service reads a payload up to its footer.
UpToFooter(s) == {s[i] : i \in {j \in DOMAIN s : \A k \in 1..j : s[k] # Footer}}

Serve(b) ==
  /\ upload[b] = "sent"
  /\ IF owner[b] = buckets[b]
     THEN /\ applied' = [applied EXCEPT ![b] = @ \cup UpToFooter(buffer[b])]
          /\ upload' = [upload EXCEPT ![b] = "applied"]
     ELSE upload' = [upload EXCEPT ![b] = "moved"] /\ UNCHANGED applied
  /\ UNCHANGED <<stream, slots, buckets, call, owner, history>>

KeepWriter(b) == buffer[b]
NewWriter(b) == <<>>
AfterSuccess(b) == NewWriter(b)

AfterFailure(b) == KeepWriter(b)

\* RestClient.is_ok takes 308 for a success: nothing raises.
UploadSucceeds(b) ==
  /\ upload[b] \in {"applied", "moved"}
  /\ upload' = [upload EXCEPT ![b] = "none"]
  /\ buffer' = [buffer EXCEPT ![b] = AfterSuccess(b)]
  /\ done' = done \cup {b}
  /\ acked' = [acked EXCEPT ![b] = @ \cup Rows(buffer[b])]
  /\ IF upload[b] = "moved"
     THEN moved' = [moved EXCEPT ![b] = @ \cup Rows(buffer[b])] /\ UNCHANGED cut
     ELSE /\ cut' = [cut EXCEPT ![b] = @ \cup (Rows(buffer[b]) \ UpToFooter(buffer[b]))]
          /\ UNCHANGED moved
  /\ UNCHANGED <<total, closed, written, slots, buckets, pc, op, flushAll, attempt, result, service>>

UploadFails(b) ==
  /\ upload[b] \in {"sent", "applied"}
  /\ \E kind \in {"gateway", "server", "client"} : upload' = [upload EXCEPT ![b] = kind]
  /\ buffer' = [buffer EXCEPT ![b] = AfterFailure(b)]
  /\ UNCHANGED <<total, closed, written, slots, buckets, call, service, history>>

-----------------------------------------------------------------------------
KeepaliveTick ==
  /\ slots # owner /\ slots' = owner
  /\ UNCHANGED <<stream, buckets, call, upload, service, history>>

Reassign ==
  /\ \E b \in Buckets : owner[b] < MaxMoves /\ owner' = [owner EXCEPT ![b] = @ + 1]
  /\ UNCHANGED <<stream, slots, buckets, call, upload, applied, history>>

FlushSteps == Round \/ FlushReturns \/ FlushFails \/ ReloadRaises

UploadSteps(b) == Serve(b) \/ UploadSucceeds(b) \/ UploadFails(b)

Next ==
  \/ \E b \in Buckets : Write(b) \/ UploadSteps(b)
  \/ Flush \/ Close \/ FlushSteps \/ KeepaliveTick \/ Reassign

Spec == Init /\ [][Next]_vars

-----------------------------------------------------------------------------
(* Properties                                                              *)

TypeOK ==
  /\ buffer \in [Buckets -> Seq(0..MaxRows)]
  /\ total \in Nat /\ closed \in BOOLEAN
  /\ {slots, buckets, owner} \subseteq [Buckets -> 0..MaxMoves]
  /\ pc \in {"idle", "round", "collect"} /\ op \in {"write", "flush", "close"}
  /\ flushAll \in BOOLEAN /\ done \subseteq Buckets /\ attempt \in 0..MaxRetries
  /\ upload \in [Buckets ->
       {"none", "sent", "applied", "moved", "gateway", "server", "client"}]
  /\ result \in {"none", "ok", "error"}
  /\ written \in [Buckets -> 0..MaxRows]
  /\ {applied, acked, moved, cut} \subseteq [Buckets -> SUBSET (1..MaxRows)]

(* Whatever fails in whichever bucket, a row is either still in the buffer  *)
(* or its upload succeeded, and never both: it is not lost because another  *)
(* bucket succeeded, and an acknowledged row is not sent again in a later   *)
(* round or flush, where it could undo newer writes.  An acknowledged row   *)
(* is in the service, except where the code loses it: answered 308 because  *)
(* its server is no longer the bucket's, or written behind the footer that  *)
(* a failed flush has left in the buffer.                                   *)
EachRowOnce ==
  \A b \in Buckets :
    /\ 1..written[b] = Rows(buffer[b]) \cup acked[b]
    /\ Rows(buffer[b]) \cap acked[b] = {}
    /\ acked[b] \subseteq applied[b] \cup moved[b] \cup cut[b]

(* What the documentation of flush() says of a 308: the bucket is routed    *)
(* anew and the upload retried, so a flush that returns has delivered.      *)
FlushMeansApplied ==
  pc = "idle" /\ op = "flush" /\ result = "ok"
    => \A b \in Buckets : 1..written[b] = applied[b]
=============================================================================
