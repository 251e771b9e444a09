---------------------------- MODULE WriteSession ----------------------------
(***************************************************************************)
(* One batch-compatible write session of odps/maxstorage/write: the        *)
(* TableWriteSession objects that refer to it, the TableBlockWriters they  *)
(* open, the descriptors that carry the session to other processes, and    *)
(* the service.                                                            *)
(*                                                                         *)
(* A coordinator creates the session or reloads it by its id, for instance *)
(* after a crash; a worker restores it from a descriptor without a         *)
(* request.  Each object is used by one thread, which waits for its commit *)
(* or abort request while every other object goes on.  A block writer is   *)
(* the pair of its block and attempt numbers.                              *)
(*                                                                         *)
(* The service is outside the repository.  It is taken to end a session at *)
(* most once: a commit or an abort takes effect on a session that is still *)
(* NORMAL, whether or not somebody still waits for the answer.             *)
(***************************************************************************)
EXTENDS Naturals, FiniteSets

CONSTANTS
  Creator,        \* the object that creates the session
  Reloaders,      \* objects that load it by its session id
  Workers,        \* objects restored from a descriptor
  Blocks,
  Attempts,       \* attempt numbers of a block
  MaxRows,        \* bound: rows written to one block writer
  MaxDescriptors, \* bound: different descriptors exported
  MaxAbandoned    \* bound: different requests left on their way

ASSUME ObjectsAssumption ==
  /\ Creator \notin Reloaders \cup Workers
  /\ Reloaders \cap Workers = {}
  /\ MaxRows \in Nat /\ MaxDescriptors \in Nat /\ MaxAbandoned \in Nat

Coordinators == {Creator} \cup Reloaders
Handles == Coordinators \cup Workers
Pairs == Blocks \X Attempts

VARIABLES
  handle,      \* handle[h]: the fields of TableWriteSession h
  call,        \* call[h]: the commit or abort request h waits for
  writer,      \* writer[p]: the TableBlockWriter of pair p
  descriptors, \* the descriptors exported so far
  session,     \* the service: the session's status
  content,     \* the service: the pairs it has committed
  stored,      \* the service: rows uploaded for a pair, 0 for nothing
  abandoned,   \* requests nobody waits for that may still reach the service
  attempted,   \* history: handles that have sent a commit
  late,        \* history: restored after a commit attempt or an end
  uploads      \* history: uploads[p]: upload calls made for pair p

client == <<handle, call, writer, descriptors>>
service == <<session, content, stored, abandoned>>
history == <<attempted, late, uploads>>
vars == <<client, service, history>>

NoCall == [op |-> "none", by |-> "none", blocks |-> {}, reply |-> "none"]

Absent == [live |-> FALSE, descriptorOnly |-> FALSE, commitStarted |-> FALSE,
           committed |-> FALSE, aborted |-> FALSE, closed |-> FALSE,
           lastStatus |-> "NORMAL"]

NoWriter == [state |-> "none", owner |-> Creator, rows |-> 0, reply |-> 0]

Init ==
  /\ handle = [h \in Handles |-> [Absent EXCEPT !.live = (h = Creator)]]
  /\ call = [h \in Handles |-> NoCall]
  /\ writer = [p \in Pairs |-> NoWriter]
  /\ descriptors = {}
  /\ session = "NORMAL" /\ content = {} /\ abandoned = {}
  /\ stored = [p \in Pairs |-> 0]
  /\ attempted = {} /\ late = {}
  /\ uploads = [p \in Pairs |-> 0]

Idle(h) == handle[h].live /\ call[h] = NoCall
Finalized(h) == handle[h].committed \/ handle[h].aborted \/ handle[h].closed

-----------------------------------------------------------------------------
(* Sessions that are loaded, exported and restored                         *)

\* __init__ with a session_id: the flags start anew, the status is the
\* service's.
Reload(h) ==
  /\ ~handle[h].live
  /\ handle' = [handle EXCEPT ![h] = [Absent EXCEPT !.live = TRUE, !.lastStatus = session]]
  /\ late' = IF session = "NORMAL" THEN late ELSE late \cup {h}
  /\ UNCHANGED <<call, writer, descriptors, service, attempted, uploads>>

DescriptorStatus(h) ==
  IF handle[h].committed THEN "COMMITTED"
  ELSE IF handle[h].aborted THEN "ABORTED"
  ELSE IF handle[h].closed THEN "UNKNOWN" ELSE handle[h].lastStatus

ExportedForgetful(h) == FALSE      \* mutant: the flag is not in the metadata
ExportedStarted(h) == handle[h].commitStarted

ToDescriptor(h) ==
  /\ Idle(h) /\ Cardinality(descriptors) < MaxDescriptors
  /\ descriptors' = descriptors \cup
       {[status |-> DescriptorStatus(h), commitStarted |-> ExportedStarted(h),
         late |-> h \in attempted \cup late \/ Finalized(h)]}
  /\ UNCHANGED <<handle, call, writer, service, history>>

FromDescriptor(h) ==
  /\ ~handle[h].live
  /\ \E d \in descriptors :
       /\ handle' = [handle EXCEPT ![h] =
            [Absent EXCEPT !.live = TRUE, !.descriptorOnly = TRUE,
                           !.commitStarted = d.commitStarted, !.lastStatus = d.status]]
       /\ late' = IF d.late THEN late \cup {h} ELSE late
  /\ UNCHANGED <<call, writer, descriptors, service, attempted, uploads>>

-----------------------------------------------------------------------------
(* Block writers                                                           *)

MayOpen(h) ==
  /\ ~Finalized(h)
  /\ handle[h].descriptorOnly =>
       ~handle[h].commitStarted /\ handle[h].lastStatus = "NORMAL"

\* open_block_writer: the service reserves the quota of a pair once.
OpenBlockWriter(h, p) ==
  /\ Idle(h) /\ MayOpen(h)
  /\ writer[p].state = "none"
  /\ writer' = [writer EXCEPT ![p].state = "open", ![p].owner = h]
  /\ UNCHANGED <<handle, call, descriptors, service, history>>

WriteBatch(p) ==
  /\ writer[p].state = "open" /\ writer[p].rows < MaxRows
  /\ writer' = [writer EXCEPT ![p].rows = @ + 1]
  /\ UNCHANGED <<handle, call, descriptors, service, history>>

AbortWriter(p) ==
  /\ writer[p].state = "open"
  /\ writer' = [writer EXCEPT ![p].state = "aborted"]
  /\ UNCHANGED <<handle, call, descriptors, service, history>>

\* commit() or close() of the writer: one upload, then it is closed.
Upload(p) ==
  /\ writer[p].state = "open"
  /\ writer' = [writer EXCEPT ![p].state = "uploading"]
  /\ uploads' = [uploads EXCEPT ![p] = @ + 1]
  /\ UNCHANGED <<handle, call, descriptors, service, attempted, late>>

\* The service stores what it received, all of it or less, and says how much.
ServeUpload(p) ==
  /\ writer[p].state = "uploading"
  /\ \E n \in 0..writer[p].rows :
       /\ stored' = [stored EXCEPT ![p] = n]
       /\ writer' = [writer EXCEPT ![p].state = "answered", ![p].reply = n]
  /\ UNCHANGED <<handle, call, descriptors, session, content, abandoned, history>>

TrustResponse(p) == TRUE           \* mutant: the record count is not compared
ValidateResponse(p) == writer[p].reply = writer[p].rows

AfterFailure == "failed"

\* The upload returns: a result, or an IOError (no answer, or a bad one).
UploadReturns(p) ==
  /\ \/ /\ writer[p].state = "answered" /\ ValidateResponse(p)
        /\ writer' = [writer EXCEPT ![p].state = "done", ![p].reply = 0]
     \/ /\ writer[p].state \in {"uploading", "answered"}
        /\ writer' = [writer EXCEPT ![p].state = AfterFailure, ![p].reply = 0]
  /\ UNCHANGED <<handle, call, descriptors, service, history>>

Results == {p \in Pairs : writer[p].state = "done"}

-----------------------------------------------------------------------------
(* commit, abort and close of a session                                    *)

DistinctBlocks(R) == \A p, q \in R : p[1] = q[1] => p = q

MarkedAfterwards(h) == handle      \* mutant: _commit_started set on success
CommitMarked(h) == [handle EXCEPT ![h].commitStarted = TRUE]

\* _commit_batch_compatible: every check on the results comes first.
Commit(h) ==
  /\ Idle(h) /\ ~Finalized(h) /\ ~handle[h].descriptorOnly
  /\ \E R \in SUBSET Results :
       /\ DistinctBlocks(R)
       /\ call' = [call EXCEPT ![h] =
            [op |-> "commit", by |-> "commit", blocks |-> R, reply |-> "none"]]
  /\ handle' = CommitMarked(h)
  /\ attempted' = attempted \cup {h}
  /\ UNCHANGED <<writer, descriptors, service, late, uploads>>

SendAbort(h, name) ==
  call' = [call EXCEPT ![h] = [op |-> "abort", by |-> name, blocks |-> {}, reply |-> "none"]]

Abort(h) ==
  /\ Idle(h) /\ ~handle[h].aborted /\ ~handle[h].descriptorOnly
  /\ SendAbort(h, "abort")
  /\ UNCHANGED <<handle, writer, descriptors, service, history>>

Close(h) ==
  /\ Idle(h)
  /\ IF \/ handle[h].descriptorOnly \/ handle[h].commitStarted
        \/ handle[h].committed \/ handle[h].aborted
     THEN handle' = [handle EXCEPT ![h].closed = TRUE] /\ UNCHANGED call
     ELSE SendAbort(h, "close") /\ UNCHANGED handle
  /\ UNCHANGED <<writer, descriptors, service, history>>

\* What the service does with a request, and the status it answers.
Execute(r) ==
  \/ /\ r.op = "commit" /\ session = "NORMAL"
     /\ session' = "COMMITTED" /\ content' = r.blocks
  \/ /\ r.op = "abort" /\ session = "NORMAL"
     /\ session' = "ABORTED" /\ UNCHANGED content

Request(h) == [op |-> call[h].op, blocks |-> call[h].blocks]
Waiting(h) == call[h].op # "none" /\ call[h].reply = "none"

\* The request is executed and answered, or answered without effect: an error
\* or, for a commit, the status the session has already or still has.
Serve(h) ==
  /\ Waiting(h)
  /\ \/ /\ Execute(Request(h))
        /\ call' = [call EXCEPT ![h].reply = session']
     \/ /\ call' = [call EXCEPT ![h].reply = "error"]
        /\ UNCHANGED <<session, content>>
     \/ /\ call[h].op = "commit" \/ session = "ABORTED"
        /\ call' = [call EXCEPT ![h].reply = session]
        /\ UNCHANGED <<session, content>>
  /\ UNCHANGED <<handle, writer, descriptors, stored, abandoned, history>>

Abandon(r) ==
  /\ abandoned' = abandoned \cup {r}
  /\ Cardinality(abandoned') <= MaxAbandoned

\* An answer is late: the stub sends the request again (the call goes on) or
\* gives up (GiveUp), and the first one may still arrive.
Resend(h) ==
  /\ Waiting(h) /\ Abandon(Request(h))
  /\ UNCHANGED <<client, session, content, stored, history>>

ServeAbandoned ==
  /\ \E r \in abandoned : Execute(r)
  /\ UNCHANGED <<client, stored, abandoned, history>>

AnyStatus(status) == status # "error"    \* mutant: any answer is a success
CommitConfirmed(status) == status = "COMMITTED"

\* The end of commit(), abort() or the abort() inside close().
Finish(h) ==
  /\ call[h].reply # "none"
  /\ handle' =
       [handle EXCEPT ![h].committed = @ \/ (call[h].op = "commit" /\ CommitConfirmed(call[h].reply)),
                      ![h].aborted = @ \/ (call[h].op = "abort" /\ call[h].reply # "error"),
                      ![h].closed = @ \/ (call[h].by = "close")]
  /\ call' = [call EXCEPT ![h] = NoCall]
  /\ UNCHANGED <<writer, descriptors, service, history>>

\* The request raises with its outcome unknown.
GiveUp(h) ==
  /\ Waiting(h) /\ Abandon(Request(h))
  /\ call' = [call EXCEPT ![h] = NoCall]
  /\ handle' = [handle EXCEPT ![h].closed = @ \/ (call[h].by = "close")]
  /\ UNCHANGED <<writer, descriptors, session, content, stored, history>>

-----------------------------------------------------------------------------
SessionStep(h) ==
  \/ ToDescriptor(h) \/ Commit(h) \/ Abort(h) \/ Close(h)
  \/ Serve(h) \/ Resend(h) \/ Finish(h) \/ GiveUp(h)
  \/ \E p \in Pairs : OpenBlockWriter(h, p)

WriterStep(p) ==
  WriteBatch(p) \/ AbortWriter(p) \/ Upload(p) \/ ServeUpload(p) \/ UploadReturns(p)

Next ==
  \/ \E h \in Handles : SessionStep(h)
  \/ \E h \in Reloaders : Reload(h)
  \/ \E h \in Workers : FromDescriptor(h)
  \/ \E p \in Pairs : WriterStep(p)
  \/ ServeAbandoned

Spec == Init /\ [][Next]_vars

-----------------------------------------------------------------------------
(* Properties                                                              *)

Statuses == {"NORMAL", "COMMITTED", "ABORTED"}
KnownStatuses == Statuses \cup {"UNKNOWN"}

Handle ==
  [live : BOOLEAN, descriptorOnly : BOOLEAN, commitStarted : BOOLEAN, committed : BOOLEAN,
   aborted : BOOLEAN, closed : BOOLEAN, lastStatus : KnownStatuses]

Call ==
  [op : {"none", "commit", "abort"}, by : {"none", "commit", "abort", "close"},
   blocks : SUBSET Pairs, reply : Statuses \cup {"none", "error"}]

BlockWriter ==
  [state : {"none", "open", "uploading", "answered", "done", "failed", "aborted"},
   owner : Handles, rows : 0..MaxRows, reply : 0..MaxRows]

Descriptor == [status : KnownStatuses, commitStarted : BOOLEAN, late : BOOLEAN]

(* Types.                                                                   *)
TypeOK ==
  /\ handle \in [Handles -> Handle] /\ call \in [Handles -> Call]
  /\ writer \in [Pairs -> BlockWriter] /\ descriptors \subseteq Descriptor
  /\ session \in Statuses /\ content \subseteq Pairs /\ stored \in [Pairs -> 0..MaxRows]
  /\ abandoned \subseteq [op : {"commit", "abort"}, blocks : SUBSET Pairs]
  /\ attempted \subseteq Handles /\ late \subseteq Handles
  /\ uploads \in [Pairs -> Nat]

(* close() never aborts behind a commit of its own object, whose outcome    *)
(* may be unknown: the commit could still be on its way, and the abort      *)
(* would overtake it.                                                       *)
CloseSparesCommit ==
  \A h \in Handles : call[h].op = "abort" /\ call[h].by = "close" => h \notin attempted

(* A worker whose descriptor was exported after a commit attempt, or after  *)
(* its exporter was finalized, or restored from such a one in turn, never   *)
(* has a block writer.                                                      *)
LateWorkersWriteNothing ==
  \A p \in Pairs :
    writer[p].state # "none" /\ handle[writer[p].owner].descriptorOnly
      => writer[p].owner \notin late

(* What is committed for a block comes from one attempt, and it is what     *)
(* that attempt's writer was given: nothing of a failed or aborted attempt, *)
(* nothing cut short, no block twice.  And each attempt uploads once at     *)
(* most: _upload closes the writer on success and on failure.               *)
CommittedRowsAreWritten ==
  /\ \A p \in content :
       /\ writer[p].state = "done" /\ stored[p] = writer[p].rows
       /\ \A q \in content : p[1] = q[1] => p = q
  /\ \A p \in Pairs : uploads[p] <= 1

(* The session ends at most once, and an object that says COMMITTED or      *)
(* ABORTED says what happened, through lost answers, requests that arrive   *)
(* late, reloads and descriptors of descriptors.                            *)
Reported(status) ==
  IF status = "COMMITTED" THEN "committed"
  ELSE IF status = "ABORTED" THEN "aborted" ELSE "nothing"

Fate == IF session = "NORMAL" THEN "open" ELSE Reported(session)
Told == [h \in Handles |-> Reported(DescriptorStatus(h))]

Outcome == INSTANCE SessionOutcome WITH outcome <- Fate, told <- Told

ReportsTrueOutcome == Outcome!Spec
=============================================================================
