-------------------------- MODULE AsyncArrowReader --------------------------
(***************************************************************************)
(* AsyncArrowStreamReader of odps/maxstorage/io/arrow_reader.py: a thread  *)
(* reads record batches from a synchronous reader into a bounded queue,    *)
(* and the consumer takes them from there, until the stream ends, fails or *)
(* is closed.                                                              *)
(*                                                                         *)
(* The synchronous reader and the response under it belong to other        *)
(* packages.  A read that runs while they are closed may still return its  *)
(* batch; one that begins afterwards ends the stream or fails.             *)
(***************************************************************************)
EXTENDS Naturals, Sequences

CONSTANTS
  QueueSize,   \* maxsize of _queue; max(1, queue_size) in __init__
  Batches      \* record batches the stream holds

ASSUME SizesAssumption == QueueSize \in Nat \ {0} /\ Batches \in Nat

VARIABLES
  queue,       \* _queue
  finished,    \* _finished
  closed,      \* _closed
  syncClosed,  \* the synchronous reader is closed
  thread,      \* where _produce is
  item,        \* what it is going to put into the queue
  taken,       \* batches it has read from the stream
  pc,          \* where the consumer is
  answer,      \* how its last call ended
  delivered    \* history: the batches it was given

consumer == <<finished, closed, syncClosed, pc, answer, delivered>>
producer == <<thread, item, taken>>
vars == <<queue, consumer, producer>>

Batch(n) == [kind |-> "batch", number |-> n]
End == [kind |-> "end", number |-> 0]             \* _ASYNC_DONE
Error == [kind |-> "error", number |-> 0]

Init ==
  /\ queue = <<>>
  /\ finished = FALSE /\ closed = FALSE /\ syncClosed = FALSE
  /\ thread = "none" /\ item = End /\ taken = 0
  /\ pc = "idle" /\ answer = "none" /\ delivered = <<>>

-----------------------------------------------------------------------------
(* The consumer: __next__, read and close                                  *)

\* A reader that is finished or closed says end; else the thread is started.
Read ==
  /\ pc = "idle"
  /\ IF finished \/ closed
     THEN answer' = "end" /\ UNCHANGED <<pc, thread>>
     ELSE /\ pc' = "get" /\ answer' = "none"
          /\ thread' = IF thread = "none" THEN "next" ELSE thread
  /\ UNCHANGED <<queue, finished, closed, syncClosed, item, taken, delivered>>

\* iter() starts the thread too, even of a closed reader.
Iter ==
  /\ pc = "idle" /\ thread = "none"
  /\ thread' = "next"
  /\ UNCHANGED <<queue, consumer, item, taken>>

ForgetEnd(kind) == finished              \* mutant: _finished is not set
FinishedBy(kind) == kind # "batch"

Get ==
  /\ pc = "get" /\ queue # <<>>
  /\ queue' = Tail(queue)
  /\ answer' = Head(queue).kind
  /\ finished' = FinishedBy(Head(queue).kind)
  /\ delivered' = IF Head(queue).kind = "batch" THEN Append(delivered, Head(queue).number)
                  ELSE delivered
  /\ pc' = "idle"
  /\ UNCHANGED <<closed, syncClosed, producer>>

Close ==
  /\ pc = "idle" /\ ~closed
  /\ closed' = TRUE /\ pc' = "close_sync" /\ answer' = "none"
  /\ UNCHANGED <<queue, finished, syncClosed, delivered, producer>>

CloseSync ==
  /\ pc = "close_sync"
  /\ \/ syncClosed' = TRUE /\ pc' = "drain" /\ UNCHANGED answer
     \/ syncClosed' \in BOOLEAN /\ pc' = "idle" /\ answer' = "error"    \* it raises
  /\ UNCHANGED <<queue, finished, closed, delivered, producer>>

DrainNothing == TRUE                     \* mutant: close() leaves the queue full
Drained == queue = <<>>

\* get_nowait() until it raises Empty.
Drain ==
  /\ pc = "drain" /\ ~Drained
  /\ queue' = Tail(queue)
  /\ UNCHANGED <<consumer, producer>>

DrainEnds ==
  /\ pc = "drain" /\ Drained
  /\ pc' = "join"
  /\ UNCHANGED <<queue, finished, closed, syncClosed, answer, delivered, producer>>

\* join(timeout=5.0): it ends with the thread, or without.
Join ==
  /\ pc = "join"
  /\ pc' = "idle" /\ answer' = "closed"
  /\ UNCHANGED <<queue, finished, closed, syncClosed, delivered, producer>>

-----------------------------------------------------------------------------
(* The producer thread: _produce                                           *)

\* next(self._sync_reader) begins.
StartNext ==
  /\ thread = "next"
  /\ thread' = IF syncClosed THEN "late" ELSE "reading"
  /\ UNCHANGED <<queue, consumer, item, taken>>

ReadBatch ==
  /\ thread = "reading" /\ taken < Batches
  /\ taken' = taken + 1 /\ item' = Batch(taken')
  /\ thread' = "put"
  /\ UNCHANGED <<queue, consumer>>

SwallowError == End                      \* mutant: any exception ends the stream
OnException == Error

StopReading ==
  /\ \/ thread = "reading" /\ taken = Batches /\ item' = End
     \/ thread = "reading" /\ syncClosed /\ item' = End
     \/ thread = "late" /\ item' = End
     \/ thread \in {"reading", "late"} /\ item' = OnException
  /\ thread' = "put"
  /\ UNCHANGED <<queue, consumer, taken>>

HasRoom == Len(queue) < QueueSize

PutFirst == <<item>> \o queue            \* mutant: last in, first out
PutLast == Append(queue, item)

Put ==
  /\ thread = "put" /\ HasRoom
  /\ queue' = PutLast
  /\ thread' = IF item.kind = "batch" THEN "next" ELSE "ended"
  /\ UNCHANGED <<consumer, item, taken>>

-----------------------------------------------------------------------------
ConsumerContinues == Get \/ CloseSync \/ Drain \/ DrainEnds \/ Join

ProducerSteps == StartNext \/ ReadBatch \/ StopReading \/ Put

Next == Read \/ Iter \/ Close \/ ConsumerContinues \/ ProducerSteps

\* Both threads go on when they can, and a network read returns.
Fairness == WF_vars(ConsumerContinues) /\ WF_vars(ProducerSteps)

Spec == Init /\ [][Next]_vars /\ Fairness

-----------------------------------------------------------------------------
(* Properties                                                              *)

Items == [kind : {"batch", "end", "error"}, number : 0..Batches]

(* Types, and the queue never holds more than its size: a slow consumer     *)
(* holds the thread back.                                                   *)
TypeOK ==
  /\ queue \in Seq(Items) /\ Len(queue) <= QueueSize
  /\ finished \in BOOLEAN /\ closed \in BOOLEAN /\ syncClosed \in BOOLEAN
  /\ thread \in {"none", "next", "reading", "late", "put", "ended"}
  /\ item \in Items /\ taken \in 0..Batches
  /\ pc \in {"idle", "get", "close_sync", "drain", "join"}
  /\ answer \in {"none", "batch", "end", "error", "closed"}
  /\ delivered \in Seq(1..Batches)

InHand == thread = "put" /\ item.kind = "batch"

BatchesQueued ==
  IF queue # <<>> /\ queue[Len(queue)].kind # "batch" THEN Len(queue) - 1 ELSE Len(queue)

(* Until the reader is closed, what the consumer was given, what is queued  *)
(* and what the thread is about to put are the batches read so far, in      *)
(* order: none lost, none twice.                                            *)
NothingLost ==
  ~closed =>
    /\ \A i \in 1..Len(delivered) : delivered[i] = i
    /\ \A i \in 1..Len(queue) :
         queue[i].kind = "batch" => queue[i].number = Len(delivered) + i
    /\ InHand => item.number = Len(delivered) + Len(queue) + 1
    /\ taken = Len(delivered) + BatchesQueued + (IF InHand THEN 1 ELSE 0)

(* A read that waits for the stream is told of its end only when every      *)
(* batch has been delivered, and never instead of an error: a stream that   *)
(* breaks off is not taken for a short one.                                 *)
EndMeansAll ==
  [][pc = "get" /\ answer' = "end" => Len(delivered) = Batches]_vars

\* The guards of the two threads, which fairness holds them to.
ConsumerGuard ==
  \/ pc = "get" /\ queue # <<>>
  \/ pc \in {"close_sync", "drain", "join"}

ProducerGuard ==
  \/ thread \in {"next", "reading", "late"}
  \/ thread = "put" /\ HasRoom

GuardsSuffice ==
  /\ ConsumerGuard => ENABLED <<ConsumerContinues>>_vars
  /\ ProducerGuard => ENABLED <<ProducerSteps>>_vars

(* A call that is under way never waits for somebody who cannot step: a     *)
(* read from an empty queue waits for a thread that can put into it, and    *)
(* everything else is the consumer's own step.                              *)
CallNotStuck ==
  /\ GuardsSuffice
  /\ pc # "idle" => IF pc = "get" /\ queue = <<>> THEN ProducerGuard ELSE ConsumerGuard

(* A read always returns: the end of the stream and an error are put once,  *)
(* and a reader that has seen them does not wait for more.                  *)
ReadsReturn == pc = "get" ~> pc = "idle"

(* Once close() has drained the queue, whatever the thread may still put    *)
(* finds room: a batch it was reading, then the end of the stream.  (With   *)
(* room for one item the second put would wait for ever.)                   *)
ThreadHasRoom ==
  (pc = "join" \/ answer = "closed") /\ thread = "put" => Len(queue) < QueueSize

(* close() lets the thread end, even when it gives up waiting for it: what  *)
(* the thread may still put finds room in the drained queue.                *)
ThreadEnds == answer = "closed" ~> thread \in {"none", "ended"}
=============================================================================
