------------------------- MODULE WriteSessionProofs -------------------------
(***************************************************************************)
(* Theorems about a batch-compatible write session (WriteSession), for any *)
(* number of objects, descriptors, blocks, attempts and requests.          *)
(***************************************************************************)
EXTENDS WriteSession, TLAPS

-----------------------------------------------------------------------------
(* The inductive invariant                                                 *)

\* Only an object that exists has sent a commit or owns a block writer.
OfLiveObjects ==
  /\ \A h \in attempted \cup late : handle[h].live
  /\ \A p \in Pairs : writer[p].state # "none" => handle[writer[p].owner].live

\* A commit is remembered before it is sent, and nothing is forgotten by a
\* descriptor.
CommitsRemembered ==
  /\ \A h \in attempted : handle[h].commitStarted
  /\ \A h \in late : handle[h].commitStarted \/ handle[h].lastStatus # "NORMAL"
  /\ \A d \in descriptors : d.late => d.commitStarted \/ d.status # "NORMAL"

\* The path of an upload.
UploadedOnce ==
  \A p \in Pairs :
    /\ writer[p].state \in {"none", "open"} => uploads[p] = 0
    /\ uploads[p] <= 1
    /\ writer[p].state = "answered" => stored[p] = writer[p].reply
    /\ writer[p].state = "done" => stored[p] = writer[p].rows

\* What any commit names, sent, on its way or executed.
Committable(R) == R \subseteq Results /\ DistinctBlocks(R)

CommitsNameResults ==
  /\ \A h \in Handles : Committable(call[h].blocks)
  /\ \A r \in abandoned : Committable(r.blocks)
  /\ Committable(content)

\* Whoever says how the session has ended is right.
Truthful ==
  LET True(status) == status \in {"COMMITTED", "ABORTED"} => session = status
  IN /\ \A h \in Handles :
          /\ handle[h].committed => session = "COMMITTED"
          /\ handle[h].aborted => session = "ABORTED"
          /\ True(handle[h].lastStatus)
          /\ True(call[h].reply)
          /\ call[h].op = "abort" => call[h].reply \in {"none", "error", "ABORTED"}
     /\ \A d \in descriptors : True(d.status)

IInv ==
  /\ TypeOK /\ CloseSparesCommit /\ LateWorkersWriteNothing
  /\ OfLiveObjects /\ CommitsRemembered /\ UploadedOnce /\ CommitsNameResults /\ Truthful

-----------------------------------------------------------------------------
LEMMA InitInv == Init => IInv
<1> SUFFICES ASSUME Init PROVE IInv
  OBVIOUS
<1>. USE ObjectsAssumption DEF Init
<1>1. \A h \in Handles : handle[h] = [Absent EXCEPT !.live = (h = Creator)] /\ call[h] = NoCall
  OBVIOUS
<1>2. TypeOK
  <2>1. \A b \in BOOLEAN : [Absent EXCEPT !.live = b] \in Handle
    BY DEF Absent, KnownStatuses, Statuses, Handle
  <2>2. handle \in [Handles -> Handle]
    BY <2>1
  <2>3. call \in [Handles -> Call]
    BY DEF NoCall, Call
  <2>4. writer \in [Pairs -> BlockWriter]
    BY DEF NoWriter, BlockWriter, Handles, Coordinators
  <2>. QED BY <2>2, <2>3, <2>4 DEF TypeOK, Statuses
<1>3. CloseSparesCommit /\ LateWorkersWriteNothing
  BY DEF CloseSparesCommit, LateWorkersWriteNothing, NoCall, NoWriter
<1>4. OfLiveObjects /\ CommitsRemembered /\ UploadedOnce
  BY DEF OfLiveObjects, CommitsRemembered, UploadedOnce, NoWriter
<1>5. CommitsNameResults
  BY DEF CommitsNameResults, Committable, DistinctBlocks, NoCall
<1>6. Truthful
  BY DEF Truthful, NoCall, Absent
<1>. QED BY <1>2, <1>3, <1>4, <1>5, <1>6 DEF IInv

-----------------------------------------------------------------------------
(* Types                                                                   *)

LEMMA HandleChanges ==
  ASSUME NEW r \in Handle, NEW a \in BOOLEAN, NEW b \in BOOLEAN, NEW c \in BOOLEAN
  PROVE  /\ [r EXCEPT !.closed = c] \in Handle
         /\ [r EXCEPT !.committed = a, !.aborted = b, !.closed = c] \in Handle
BY DEF Handle

LEMMA StatusKnown ==
  ASSUME TypeOK, NEW h \in Handles
  PROVE  DescriptorStatus(h) \in KnownStatuses
<1>1. handle[h].lastStatus \in KnownStatuses
  BY DEF TypeOK, Handle
<1>2. \A s \in {"COMMITTED", "ABORTED", "UNKNOWN"} : s \in KnownStatuses
  BY DEF KnownStatuses, Statuses
<1>. QED BY <1>1, <1>2, Zenon DEF DescriptorStatus

LEMMA TypeStep ==
  ASSUME TypeOK, Next
  PROVE  TypeOK'
<1>. USE ObjectsAssumption
<1>. USE DEF TypeOK
<1>3. \A h \in Handles : handle[h] \in Handle /\ call[h] \in Call
  OBVIOUS
<1>4. \A p \in Pairs : writer[p] \in BlockWriter
  OBVIOUS
<1>5. Absent \in Handle /\ NoCall \in Call
  BY DEF Absent, NoCall, Handle, Call, KnownStatuses, Statuses
<1>6. \A h \in Handles : DescriptorStatus(h) \in KnownStatuses
  BY StatusKnown
<1>7. \A h \in Handles : call[h].op # "none" =>
        Request(h) \in [op : {"commit", "abort"}, blocks : SUBSET Pairs]
  BY <1>3 DEF Request, Call
<1>8. ASSUME NEW h \in Reloaders, Reload(h) PROVE TypeOK'
  <2>1. h \in Handles
    BY DEF Handles, Coordinators
  <2>2. handle' \in [Handles -> Handle]
    BY <1>5, <1>8, <2>1 DEF Reload, Handle, KnownStatuses
  <2>3. late' \subseteq Handles
    BY <1>8, <2>1 DEF Reload
  <2>. QED BY <1>8, <2>2, <2>3 DEF Reload, client, service, history
<1>9. ASSUME NEW h \in Workers, FromDescriptor(h) PROVE TypeOK'
  <2>1. h \in Handles
    BY DEF Handles
  <2>2. handle' \in [Handles -> Handle]
    <3>1. PICK d \in descriptors :
            handle' = [handle EXCEPT ![h] =
              [Absent EXCEPT !.live = TRUE, !.descriptorOnly = TRUE,
                             !.commitStarted = d.commitStarted, !.lastStatus = d.status]]
      BY <1>9 DEF FromDescriptor
    <3>2. d.commitStarted \in BOOLEAN /\ d.status \in KnownStatuses
      BY DEF Descriptor
    <3>3. [Absent EXCEPT !.live = TRUE, !.descriptorOnly = TRUE,
                         !.commitStarted = d.commitStarted, !.lastStatus = d.status] \in Handle
      BY <1>5, <3>2 DEF Handle
    <3>. QED BY <3>1, <3>3
  <2>3. late' \subseteq Handles
    BY <1>9, <2>1 DEF FromDescriptor
  <2>. QED BY <1>9, <2>2, <2>3 DEF FromDescriptor, client, service, history
<1>10. ASSUME NEW h \in Handles, ToDescriptor(h) PROVE TypeOK'
  <2>1. descriptors' \subseteq Descriptor
    <3>1. handle[h].commitStarted \in BOOLEAN /\ (h \in attempted \cup late \/ Finalized(h)) \in BOOLEAN
      BY <1>3 DEF Handle
    <3>2. [status |-> DescriptorStatus(h), commitStarted |-> handle[h].commitStarted,
           late |-> h \in attempted \cup late \/ Finalized(h)] \in Descriptor
      BY <1>6, <3>1 DEF Descriptor
    <3>. QED BY <1>10, <3>2 DEF ToDescriptor, ExportedStarted
  <2>. QED BY <1>10, <2>1 DEF ToDescriptor, client, service, history
<1>11. ASSUME NEW h \in Handles, Commit(h) PROVE TypeOK'
  <2>1. handle' \in [Handles -> Handle]
    BY <1>3, <1>11 DEF Commit, CommitMarked, Handle
  <2>2. call' \in [Handles -> Call]
    BY <1>3, <1>11 DEF Commit, Call, Results, DistinctBlocks
  <2>. QED BY <1>11, <2>1, <2>2 DEF Commit, client, service, history
<1>12. ASSUME NEW h \in Handles, Abort(h) \/ Close(h) PROVE TypeOK'
  <2>1. handle' \in [Handles -> Handle]
    <3>1. [handle[h] EXCEPT !.closed = TRUE] \in Handle
      BY <1>3, HandleChanges
    <3>2. handle' = handle \/ handle' = [handle EXCEPT ![h] = [@ EXCEPT !.closed = TRUE]]
      BY <1>12 DEF Abort, Close
    <3>. QED BY <3>1, <3>2
  <2>2. call' \in [Handles -> Call]
    BY <1>3, <1>12 DEF Abort, Close, SendAbort, Call
  <2>. QED BY <1>12, <2>1, <2>2 DEF Abort, Close, client, service, history
<1>13. ASSUME NEW h \in Handles, Serve(h) PROVE TypeOK'
  <2>1. session' \in Statuses /\ content' \subseteq Pairs
    BY <1>3, <1>13 DEF Serve, Execute, Request, Call, Statuses
  <2>2. call' \in [Handles -> Call]
    BY <1>3, <1>13, <2>1 DEF Serve, Call
  <2>. QED BY <1>13, <2>1, <2>2 DEF Serve, client, service, history
<1>14. ASSUME NEW h \in Handles, Resend(h) \/ GiveUp(h) PROVE TypeOK'
  <2>1. abandoned' \subseteq [op : {"commit", "abort"}, blocks : SUBSET Pairs]
    BY <1>7, <1>14 DEF Resend, GiveUp, Abandon, Waiting
  <2>2. call' \in [Handles -> Call]
    BY <1>5, <1>14 DEF Resend, GiveUp, client
  <2>3. handle' \in [Handles -> Handle]
    <3>. DEFINE closed == handle[h].closed \/ (call[h].by = "close")
    <3>1. closed \in BOOLEAN
      OBVIOUS
    <3>2. handle' = handle \/ handle' = [handle EXCEPT ![h] = [@ EXCEPT !.closed = closed]]
      BY <1>14 DEF Resend, GiveUp, client
    <3>. HIDE DEF closed
    <3>3. [handle[h] EXCEPT !.closed = closed] \in Handle
      BY <1>3, <3>1, HandleChanges
    <3>. QED BY <3>2, <3>3
  <2>. QED BY <1>14, <2>1, <2>2, <2>3 DEF Resend, GiveUp, client, service, history
<1>15. ASSUME NEW h \in Handles, Finish(h) PROVE TypeOK'
  <2>1. call' \in [Handles -> Call]
    BY <1>5, <1>15 DEF Finish
  <2>2. handle' \in [Handles -> Handle]
    <3>. DEFINE a == handle[h].committed \/ (call[h].op = "commit" /\ CommitConfirmed(call[h].reply))
                b == handle[h].aborted \/ (call[h].op = "abort" /\ call[h].reply # "error")
                c == handle[h].closed \/ (call[h].by = "close")
    <3>1. a \in BOOLEAN /\ b \in BOOLEAN /\ c \in BOOLEAN
      OBVIOUS
    <3>2. handle' = [handle EXCEPT ![h] = [@ EXCEPT !.committed = a, !.aborted = b, !.closed = c]]
      BY <1>15 DEF Finish
    <3>. HIDE DEF a, b, c
    <3>. QED BY <1>3, <3>1, <3>2, HandleChanges
  <2>. QED BY <1>15, <2>1, <2>2 DEF Finish, client, service, history
<1>16. ASSUME NEW h \in Handles, NEW p \in Pairs, OpenBlockWriter(h, p) PROVE TypeOK'
  <2>1. writer' \in [Pairs -> BlockWriter]
    BY <1>4, <1>16 DEF OpenBlockWriter, BlockWriter
  <2>. QED BY <1>16, <2>1 DEF OpenBlockWriter, client, service, history
<1>17. ASSUME NEW p \in Pairs, WriterStep(p) PROVE TypeOK'
  <2>1. writer' \in [Pairs -> BlockWriter]
    BY <1>4, <1>17 DEF WriterStep, WriteBatch, AbortWriter, Upload, ServeUpload, UploadReturns,
       AfterFailure, BlockWriter
  <2>2. stored' \in [Pairs -> 0..MaxRows]
    BY <1>4, <1>17 DEF WriterStep, WriteBatch, AbortWriter, Upload, ServeUpload, UploadReturns,
       BlockWriter, service
  <2>3. uploads' \in [Pairs -> Nat]
    BY <1>17 DEF WriterStep, WriteBatch, AbortWriter, Upload, ServeUpload, UploadReturns, history
  <2>. QED
    BY <1>17, <2>1, <2>2, <2>3 DEF WriterStep, WriteBatch, AbortWriter, Upload, ServeUpload,
       UploadReturns, client, service, history
<1>18. ASSUME ServeAbandoned PROVE TypeOK'
  <2>1. session' \in Statuses /\ content' \subseteq Pairs
    BY <1>18 DEF ServeAbandoned, Execute, Statuses
  <2>. QED BY <1>18, <2>1 DEF ServeAbandoned, client, service, history
<1>. QED
  BY <1>8, <1>9, <1>10, <1>11, <1>12, <1>13, <1>14, <1>15, <1>16, <1>17, <1>18 DEF Next, SessionStep

-----------------------------------------------------------------------------
(* What a step may change                                                  *)

\* An object goes on living with what it was made from, and remembers a commit.
LEMMA HandleMoves ==
  ASSUME TypeOK, Next, NEW h \in Handles, handle[h].live
  PROVE  /\ handle'[h].live
         /\ handle'[h].descriptorOnly = handle[h].descriptorOnly
         /\ handle'[h].lastStatus = handle[h].lastStatus
         /\ handle[h].commitStarted => handle'[h].commitStarted
<1>1. handle \in [Handles -> Handle] /\ handle[h] \in Handle
  BY DEF TypeOK
<1>2. ASSUME NEW k \in Handles, SessionStep(k)
      PROVE  /\ handle'[h].live
             /\ handle'[h].descriptorOnly = handle[h].descriptorOnly
             /\ handle'[h].lastStatus = handle[h].lastStatus
             /\ handle[h].commitStarted => handle'[h].commitStarted
  <2>1. CASE Finish(k)
    <3>. DEFINE a == handle[k].committed \/ (call[k].op = "commit" /\ CommitConfirmed(call[k].reply))
                b == handle[k].aborted \/ (call[k].op = "abort" /\ call[k].reply # "error")
                c == handle[k].closed \/ (call[k].by = "close")
    <3>1. handle' = [handle EXCEPT ![k] = [@ EXCEPT !.committed = a, !.aborted = b, !.closed = c]]
      BY <2>1 DEF Finish
    <3>. HIDE DEF a, b, c
    <3>. QED BY <1>1, <3>1 DEF Handle
  <2>2. CASE GiveUp(k)
    <3>. DEFINE c == handle[k].closed \/ (call[k].by = "close")
    <3>1. handle' = [handle EXCEPT ![k] = [@ EXCEPT !.closed = c]]
      BY <2>2 DEF GiveUp
    <3>. HIDE DEF c
    <3>. QED BY <1>1, <3>1 DEF Handle
  <2>3. CASE Commit(k)
    BY <1>1, <2>3 DEF Commit, CommitMarked, Handle
  <2>4. CASE Close(k)
    <3>1. handle' = handle \/ handle' = [handle EXCEPT ![k] = [@ EXCEPT !.closed = TRUE]]
      BY <2>4 DEF Close
    <3>. QED BY <1>1, <3>1 DEF Handle
  <2>5. CASE ToDescriptor(k) \/ Abort(k) \/ Serve(k) \/ Resend(k) \/ \E p \in Pairs : OpenBlockWriter(k, p)
    <3>1. handle' = handle
      BY <2>5 DEF ToDescriptor, Abort, Serve, Resend, OpenBlockWriter, client
    <3>. QED BY <3>1
  <2>. QED BY <1>2, <2>1, <2>2, <2>3, <2>4, <2>5 DEF SessionStep
<1>3. ASSUME NEW k \in Reloaders, Reload(k)
      PROVE  handle'[h] = handle[h]
  BY <1>1, <1>3, ObjectsAssumption DEF Reload, Handles, Coordinators
<1>4. ASSUME NEW k \in Workers, FromDescriptor(k)
      PROVE  handle'[h] = handle[h]
  BY <1>1, <1>4 DEF FromDescriptor, Handles
<1>5. ASSUME (\E p \in Pairs : WriterStep(p)) \/ ServeAbandoned
      PROVE  handle' = handle
  BY <1>5 DEF WriterStep, WriteBatch, AbortWriter, Upload, ServeUpload, UploadReturns,
     ServeAbandoned, client
<1>. QED BY <1>1, <1>2, <1>3, <1>4, <1>5 DEF Next

\* A block writer is opened by an object that may, and stays its.
LEMMA WriterMoves ==
  ASSUME TypeOK, Next, NEW p \in Pairs, writer'[p].state # "none"
  PROVE  /\ writer'[p].owner \in Handles
         /\ \/ writer[p].state # "none" /\ writer'[p].owner = writer[p].owner
            \/ handle' = handle /\ late' = late /\ handle[writer'[p].owner].live
               /\ MayOpen(writer'[p].owner)
<1>1. writer \in [Pairs -> BlockWriter] /\ writer[p] \in BlockWriter /\ writer'[p].owner \in Handles
  BY TypeStep DEF TypeOK, BlockWriter
<1>2. ASSUME NEW h \in Handles, NEW q \in Pairs, OpenBlockWriter(h, q)
      PROVE  \/ writer[p].state # "none" /\ writer'[p].owner = writer[p].owner
             \/ handle' = handle /\ late' = late /\ handle[writer'[p].owner].live
                /\ MayOpen(writer'[p].owner)
  <2>1. CASE p = q
    BY <1>1, <1>2, <2>1 DEF OpenBlockWriter, Idle, history, BlockWriter
  <2>2. CASE p # q
    BY <1>1, <1>2, <2>2 DEF OpenBlockWriter
  <2>. QED BY <2>1, <2>2
<1>3. ASSUME NEW q \in Pairs, WriterStep(q)
      PROVE  writer[p].state # "none" /\ writer'[p].owner = writer[p].owner
  BY <1>1, <1>3 DEF WriterStep, WriteBatch, AbortWriter, Upload, ServeUpload, UploadReturns,
     BlockWriter
<1>4. CASE UNCHANGED writer
  BY <1>1, <1>4
<1>5. ASSUME ~UNCHANGED writer
      PROVE  \/ \E h \in Handles, q \in Pairs : OpenBlockWriter(h, q)
             \/ \E q \in Pairs : WriterStep(q)
  BY <1>5 DEF Next, SessionStep, Reload, FromDescriptor, ToDescriptor, Commit, Abort, Close, Serve,
     Resend, Finish, GiveUp, ServeAbandoned, client
<1>. QED BY <1>1, <1>2, <1>3, <1>4, <1>5

-----------------------------------------------------------------------------
(* The conjuncts of the invariant                                          *)

LEMMA LiveStep ==
  ASSUME IInv, Next
  PROVE  OfLiveObjects'
<1>. USE DEF IInv
<1>1. \A h \in Handles : handle[h].live => handle'[h].live
  BY HandleMoves
<1>2. ASSUME NEW h \in (attempted \cup late)'
      PROVE  handle'[h].live
  <2>1. CASE h \in attempted \cup late
    BY <1>1, <2>1 DEF OfLiveObjects, TypeOK
  <2>2. ASSUME NEW k \in Handles, Commit(k), h = k PROVE handle'[h].live
    BY <1>1, <2>2 DEF Commit, Idle
  <2>3. ASSUME NEW k \in Reloaders, Reload(k), h = k PROVE handle'[h].live
    BY <2>3, ObjectsAssumption DEF Reload, TypeOK, Handles, Coordinators, Absent
  <2>4. ASSUME NEW k \in Workers, FromDescriptor(k), h = k PROVE handle'[h].live
    BY <2>4 DEF FromDescriptor, TypeOK, Handles, Absent
  <2>5. ASSUME h \notin attempted \cup late
        PROVE  \/ \E k \in Handles : Commit(k) /\ h = k
               \/ \E k \in Reloaders : Reload(k) /\ h = k
               \/ \E k \in Workers : FromDescriptor(k) /\ h = k
    BY <1>2, <2>5 DEF Next, SessionStep, WriterStep, Reload, FromDescriptor, ToDescriptor, Commit,
       Abort, Close, Serve, Resend, Finish, GiveUp, OpenBlockWriter, WriteBatch, AbortWriter,
       Upload, ServeUpload, UploadReturns, ServeAbandoned, history
  <2>. QED BY <2>1, <2>2, <2>3, <2>4, <2>5
<1>3. ASSUME NEW p \in Pairs, writer'[p].state # "none"
      PROVE  handle'[writer'[p].owner].live
  BY <1>1, <1>3, WriterMoves DEF OfLiveObjects
<1>. QED BY <1>2, <1>3 DEF OfLiveObjects

LEMMA RememberedStep ==
  ASSUME IInv, Next
  PROVE  CommitsRemembered'
<1>. USE DEF IInv
<1>1. ASSUME NEW h \in attempted'
      PROVE  handle'[h].commitStarted
  <2>1. CASE h \in attempted
    BY <2>1, HandleMoves DEF OfLiveObjects, CommitsRemembered, TypeOK
  <2>2. ASSUME NEW k \in Handles, Commit(k), h = k PROVE handle'[h].commitStarted
    BY <2>2 DEF Commit, CommitMarked, TypeOK, Handle
  <2>3. ASSUME h \notin attempted PROVE \E k \in Handles : Commit(k) /\ h = k
    BY <1>1, <2>3 DEF Next, SessionStep, WriterStep, Reload, FromDescriptor, ToDescriptor, Commit,
       Abort, Close, Serve, Resend, Finish, GiveUp, OpenBlockWriter, WriteBatch, AbortWriter,
       Upload, ServeUpload, UploadReturns, ServeAbandoned, history
  <2>. QED BY <2>1, <2>2, <2>3
<1>2. ASSUME NEW h \in late'
      PROVE  handle'[h].commitStarted \/ handle'[h].lastStatus # "NORMAL"
  <2>1. CASE h \in late
    BY <2>1, HandleMoves DEF OfLiveObjects, CommitsRemembered, TypeOK
  <2>2. ASSUME NEW k \in Reloaders, Reload(k), h = k, h \notin late
        PROVE  handle'[h].lastStatus # "NORMAL"
    BY <1>2, <2>2, ObjectsAssumption DEF Reload, TypeOK, Handles, Coordinators, Absent
  <2>3. ASSUME NEW k \in Workers, FromDescriptor(k), h = k, h \notin late
        PROVE  handle'[h].commitStarted \/ handle'[h].lastStatus # "NORMAL"
    <3>1. PICK d \in descriptors :
            /\ handle' = [handle EXCEPT ![k] =
                 [Absent EXCEPT !.live = TRUE, !.descriptorOnly = TRUE,
                                !.commitStarted = d.commitStarted, !.lastStatus = d.status]]
            /\ d.late
      BY <1>2, <2>3 DEF FromDescriptor
    <3>2. handle'[h].commitStarted = d.commitStarted /\ handle'[h].lastStatus = d.status
      BY <2>3, <3>1 DEF TypeOK, Handles, Absent
    <3>. QED BY <3>1, <3>2 DEF CommitsRemembered
  <2>4. ASSUME h \notin late
        PROVE  \/ \E k \in Reloaders : Reload(k) /\ h = k
               \/ \E k \in Workers : FromDescriptor(k) /\ h = k
    BY <1>2, <2>4 DEF Next, SessionStep, WriterStep, Reload, FromDescriptor, ToDescriptor, Commit,
       Abort, Close, Serve, Resend, Finish, GiveUp, OpenBlockWriter, WriteBatch, AbortWriter,
       Upload, ServeUpload, UploadReturns, ServeAbandoned, history
  <2>. QED BY <2>1, <2>2, <2>3, <2>4
<1>3. ASSUME NEW d \in descriptors', d.late
      PROVE  d.commitStarted \/ d.status # "NORMAL"
  <2>1. CASE d \in descriptors
    BY <1>3, <2>1 DEF CommitsRemembered
  <2>2. ASSUME NEW h \in Handles, ToDescriptor(h), d \notin descriptors
        PROVE  d.commitStarted \/ d.status # "NORMAL"
    <3>. DEFINE over == h \in attempted \cup late \/ Finalized(h)
    <3>0. d = [status |-> DescriptorStatus(h), commitStarted |-> handle[h].commitStarted,
               late |-> over]
      BY <1>3, <2>2 DEF ToDescriptor, ExportedStarted
    <3>1. d.status = DescriptorStatus(h) /\ d.commitStarted = handle[h].commitStarted /\ over
      <4>. HIDE DEF over
      <4>. QED BY <1>3, <3>0
    <3>2. Finalized(h) => DescriptorStatus(h) # "NORMAL"
      BY DEF Finalized, DescriptorStatus
    <3>3. ~Finalized(h) => DescriptorStatus(h) = handle[h].lastStatus
      BY DEF Finalized, DescriptorStatus
    <3>. QED BY <3>1, <3>2, <3>3 DEF CommitsRemembered
  <2>3. ASSUME d \notin descriptors PROVE \E h \in Handles : ToDescriptor(h)
    BY <1>3, <2>3 DEF Next, SessionStep, WriterStep, Reload, FromDescriptor, Commit,
       Abort, Close, Serve, Resend, Finish, GiveUp, OpenBlockWriter, WriteBatch, AbortWriter,
       Upload, ServeUpload, UploadReturns, ServeAbandoned, client
  <2>. QED BY <2>1, <2>2, <2>3
<1>. QED BY <1>1, <1>2, <1>3 DEF CommitsRemembered

LEMMA LateStep ==
  ASSUME IInv, Next
  PROVE  LateWorkersWriteNothing'
<1>. USE DEF IInv
<1>. SUFFICES ASSUME NEW p \in Pairs, writer'[p].state # "none",
                     handle'[writer'[p].owner].descriptorOnly, writer'[p].owner \in late'
              PROVE  FALSE
  BY DEF LateWorkersWriteNothing
<1>. DEFINE h == writer'[p].owner
<1>1. h \in Handles
  BY WriterMoves
<1>2. CASE writer[p].state # "none" /\ h = writer[p].owner
  <2>1. handle[h].live
    BY <1>2 DEF OfLiveObjects
  <2>2. handle[h].descriptorOnly
    BY <1>1, <2>1, HandleMoves
  <2>3. h \notin late
    BY <1>2, <2>2 DEF LateWorkersWriteNothing
  <2>4. h \in late' => h \in late
    <3>. HIDE DEF h
    <3>. QED
      BY <2>1 DEF Next, SessionStep, WriterStep, Reload, FromDescriptor, ToDescriptor, Commit,
       Abort, Close, Serve, Resend, Finish, GiveUp, OpenBlockWriter, WriteBatch, AbortWriter,
       Upload, ServeUpload, UploadReturns, ServeAbandoned, history
  <2>. QED BY <2>3, <2>4
<1>3. CASE handle' = handle /\ late' = late /\ handle[h].live /\ MayOpen(h)
  BY <1>3 DEF MayOpen, CommitsRemembered
<1>. QED BY <1>2, <1>3, WriterMoves

LEMMA SparesStep ==
  ASSUME IInv, Next
  PROVE  CloseSparesCommit'
<1>. USE DEF IInv
<1>. SUFFICES ASSUME NEW h \in Handles, call'[h].op = "abort", call'[h].by = "close",
                     h \in attempted'
              PROVE  FALSE
  BY DEF CloseSparesCommit
<1>1. call \in [Handles -> Call]
  BY DEF TypeOK
<1>2. CASE \E k \in Handles : Commit(k)
  BY <1>1, <1>2 DEF Commit, CloseSparesCommit, Call
<1>3. CASE attempted' = attempted /\ ~\E k \in Handles : Commit(k)
  <2>1. h \in attempted /\ handle[h].commitStarted
    BY <1>3 DEF CommitsRemembered
  <2>2. ~(call[h].op = "abort" /\ call[h].by = "close")
    BY <2>1 DEF CloseSparesCommit
  <2>3. ~\E k \in Handles : Close(k) \/ Abort(k)
    BY <1>1, <2>1, <2>2 DEF Close, Abort, SendAbort
  <2>4. ASSUME NEW k \in Handles, Serve(k) \/ Finish(k) \/ GiveUp(k)
        PROVE  FALSE
    <3>1. \/ call' = [call EXCEPT ![k] = NoCall]
          \/ \E r \in Statuses \cup {"error"} : call' = [call EXCEPT ![k].reply = r]
      BY <2>4, TypeStep DEF Serve, Finish, GiveUp, TypeOK
    <3>2. CASE call' = [call EXCEPT ![k] = NoCall]
      BY <1>1, <2>2, <3>2 DEF NoCall
    <3>3. CASE \E r \in Statuses \cup {"error"} : call' = [call EXCEPT ![k].reply = r]
      BY <1>1, <2>2, <3>3 DEF Call
    <3>. QED BY <3>1, <3>2, <3>3
  <2>5. call' # call
    BY <2>2
  <2>. QED
    BY <1>3, <2>3, <2>4, <2>5 DEF Next, SessionStep, WriterStep, Reload, FromDescriptor, ToDescriptor,
       Resend, OpenBlockWriter, WriteBatch, AbortWriter,
       Upload, ServeUpload, UploadReturns, ServeAbandoned, client
<1>4. attempted' = attempted \/ \E k \in Handles : Commit(k)
  BY DEF Next, SessionStep, WriterStep, Reload, FromDescriptor, ToDescriptor,
     Abort, Close, Serve, Resend, Finish, GiveUp, OpenBlockWriter, WriteBatch, AbortWriter,
     Upload, ServeUpload, UploadReturns, ServeAbandoned, history
<1>. QED BY <1>2, <1>3, <1>4

LEMMA UploadStep ==
  ASSUME IInv, Next
  PROVE  UploadedOnce'
<1>. USE DEF IInv
<1>0. /\ writer \in [Pairs -> BlockWriter] /\ stored \in [Pairs -> 0..MaxRows]
      /\ uploads \in [Pairs -> Nat]
  BY DEF TypeOK
<1>1. SUFFICES ASSUME NEW p \in Pairs
               PROVE  /\ writer'[p].state \in {"none", "open"} => uploads'[p] = 0
                      /\ uploads'[p] <= 1
                      /\ writer'[p].state = "answered" => stored'[p] = writer'[p].reply
                      /\ writer'[p].state = "done" => stored'[p] = writer'[p].rows
  BY DEF UploadedOnce
<1>2. CASE UNCHANGED <<writer, stored, uploads>>
  BY <1>2 DEF UploadedOnce
<1>3. ASSUME NEW q \in Pairs, WriterStep(q)
      PROVE  /\ writer'[p].state \in {"none", "open"} => uploads'[p] = 0
             /\ uploads'[p] <= 1
             /\ writer'[p].state = "answered" => stored'[p] = writer'[p].reply
             /\ writer'[p].state = "done" => stored'[p] = writer'[p].rows
  <2>1. CASE p = q
    BY <1>0, <1>3, <2>1 DEF WriterStep, WriteBatch, AbortWriter, Upload, ServeUpload, UploadReturns,
       AfterFailure, ValidateResponse, UploadedOnce, service, history, BlockWriter
  <2>2. CASE p # q
    <3>1. writer'[p] = writer[p] /\ stored'[p] = stored[p] /\ uploads'[p] = uploads[p]
      BY <1>0, <1>3, <2>2 DEF WriterStep, WriteBatch, AbortWriter, Upload, ServeUpload,
         UploadReturns, service, history
    <3>. QED BY <3>1 DEF UploadedOnce
  <2>. QED BY <2>1, <2>2
<1>4. ASSUME NEW h \in Handles, NEW q \in Pairs, OpenBlockWriter(h, q)
      PROVE  /\ writer'[p].state \in {"none", "open"} => uploads'[p] = 0
             /\ uploads'[p] <= 1
             /\ writer'[p].state = "answered" => stored'[p] = writer'[p].reply
             /\ writer'[p].state = "done" => stored'[p] = writer'[p].rows
  BY <1>0, <1>4 DEF OpenBlockWriter, UploadedOnce, service, history, BlockWriter
<1>5. \/ UNCHANGED <<writer, stored, uploads>>
      \/ \E q \in Pairs : WriterStep(q)
      \/ \E h \in Handles, q \in Pairs : OpenBlockWriter(h, q)
  BY DEF Next, SessionStep, Reload, FromDescriptor, ToDescriptor, Commit, Abort, Close, Serve, Resend,
     Finish, GiveUp, ServeAbandoned, client, service, history
<1>. QED BY <1>2, <1>3, <1>4, <1>5

\* A result stays one.
LEMMA ResultsStay ==
  ASSUME TypeOK, Next
  PROVE  Results \subseteq Results'
<1>. SUFFICES ASSUME NEW p \in Pairs, writer[p].state = "done"
              PROVE  writer'[p].state = "done"
  BY DEF Results
<1>1. writer \in [Pairs -> BlockWriter]
  BY DEF TypeOK
<1>2. ASSUME NEW q \in Pairs, WriterStep(q)
      PROVE  writer'[p].state = "done"
  BY <1>1, <1>2 DEF WriterStep, WriteBatch, AbortWriter, Upload, ServeUpload, UploadReturns,
     BlockWriter
<1>3. ASSUME NEW h \in Handles, NEW q \in Pairs, OpenBlockWriter(h, q)
      PROVE  writer'[p].state = "done"
  BY <1>1, <1>3 DEF OpenBlockWriter
<1>4. \/ UNCHANGED writer
      \/ \E q \in Pairs : WriterStep(q)
      \/ \E h \in Handles, q \in Pairs : OpenBlockWriter(h, q)
  BY DEF Next, SessionStep, Reload, FromDescriptor, ToDescriptor, Commit, Abort, Close, Serve, Resend,
     Finish, GiveUp, ServeAbandoned, client
<1>. QED BY <1>2, <1>3, <1>4

LEMMA ResultsStep ==
  ASSUME IInv, Next
  PROVE  CommitsNameResults'
<1>. USE DEF IInv
<1>0. /\ call \in [Handles -> Call]
      /\ Results' = {p \in Pairs : writer'[p].state = "done"}
  BY DEF TypeOK, Results
<1>1. \A R : Committable(R) => R \subseteq Results' /\ DistinctBlocks(R)
  BY ResultsStay DEF Committable
<1>2. \A R : R \subseteq Results' /\ DistinctBlocks(R) => Committable(R)'
  BY DEF Committable, DistinctBlocks
<1>3. SUFFICES /\ \A h \in Handles : Committable(call'[h].blocks)
               /\ \A r \in abandoned' : Committable(r.blocks)
               /\ Committable(content')
  BY <1>1, <1>2 DEF CommitsNameResults, Committable, DistinctBlocks
<1>4. Committable({})
  BY DEF Committable, DistinctBlocks
<1>5. ASSUME NEW k \in Handles, Commit(k)
      PROVE  /\ \A h \in Handles : Committable(call'[h].blocks)
             /\ UNCHANGED <<abandoned, content>>
  BY <1>0, <1>5 DEF Commit, Committable, CommitsNameResults, service
<1>6. ASSUME NEW k \in Handles, Abort(k) \/ Close(k)
      PROVE  /\ \A h \in Handles : Committable(call'[h].blocks)
             /\ UNCHANGED <<abandoned, content>>
  <2>1. call' = call \/ \E c : c.blocks = {} /\ call' = [call EXCEPT ![k] = c]
    BY <1>6 DEF Abort, Close, SendAbort
  <2>2. UNCHANGED <<abandoned, content>>
    BY <1>6 DEF Abort, Close, service
  <2>3. CASE call' = call
    BY <2>2, <2>3 DEF CommitsNameResults
  <2>4. CASE \E c : c.blocks = {} /\ call' = [call EXCEPT ![k] = c]
    BY <1>0, <1>4, <2>2, <2>4 DEF CommitsNameResults
  <2>. QED BY <2>1, <2>3, <2>4
<1>7. ASSUME NEW k \in Handles, Serve(k)
      PROVE  /\ \A h \in Handles : Committable(call'[h].blocks)
             /\ UNCHANGED abandoned /\ Committable(content')
  BY <1>0, <1>7 DEF Serve, Execute, Request, CommitsNameResults, Call
<1>8. ASSUME NEW k \in Handles, Resend(k) \/ GiveUp(k)
      PROVE  /\ \A h \in Handles : Committable(call'[h].blocks)
             /\ \A r \in abandoned' : Committable(r.blocks)
             /\ UNCHANGED content
  <2>1. call' = call \/ call' = [call EXCEPT ![k] = NoCall]
    BY <1>8 DEF Resend, GiveUp, client
  <2>2. \A h \in Handles : Committable(call'[h].blocks)
    <3>1. NoCall.blocks = {}
      BY DEF NoCall
    <3>2. \A h \in Handles : call'[h] = call[h] \/ call'[h] = NoCall
      BY <1>0, <2>1
    <3>. QED BY <1>4, <3>1, <3>2 DEF CommitsNameResults
  <2>3. abandoned' = abandoned \cup {Request(k)} /\ UNCHANGED content
    BY <1>8 DEF Resend, GiveUp, Abandon
  <2>4. Request(k).blocks = call[k].blocks
    BY DEF Request
  <2>. QED BY <2>2, <2>3, <2>4 DEF CommitsNameResults
<1>9. ASSUME NEW k \in Handles, Finish(k)
      PROVE  /\ \A h \in Handles : Committable(call'[h].blocks)
             /\ UNCHANGED <<abandoned, content>>
  BY <1>0, <1>4, <1>9 DEF Finish, CommitsNameResults, NoCall, service
<1>10. CASE ServeAbandoned
  BY <1>10 DEF ServeAbandoned, Execute, CommitsNameResults, client
<1>11. CASE UNCHANGED <<call, abandoned, content>>
  BY <1>11 DEF CommitsNameResults
<1>. QED
  BY <1>5, <1>6, <1>7, <1>8, <1>9, <1>10, <1>11 DEF CommitsNameResults, Next, SessionStep, WriterStep,
     Reload, FromDescriptor, ToDescriptor, OpenBlockWriter, WriteBatch, AbortWriter, Upload,
     ServeUpload, UploadReturns, client, service

\* The service ends a session once.
LEMMA EndsOnce ==
  ASSUME Next
  PROVE  UNCHANGED session \/ session = "NORMAL"
BY DEF Next, SessionStep, WriterStep, Reload, FromDescriptor, ToDescriptor, Commit, Abort, Close,
   Serve, Resend, Finish, GiveUp, ServeAbandoned, Execute, OpenBlockWriter, WriteBatch, AbortWriter,
   Upload, ServeUpload, UploadReturns, service

LEMMA TruthStep ==
  ASSUME IInv, Next
  PROVE  Truthful'
<1>. USE DEF IInv
<1>0. /\ handle \in [Handles -> Handle] /\ call \in [Handles -> Call] /\ session \in Statuses
      /\ Handles = {Creator} \cup Reloaders \cup Workers
  BY DEF TypeOK, Handles, Coordinators
<1>. DEFINE True(status) == status \in {"COMMITTED", "ABORTED"} => session' = status
            TrueHandle(h) == /\ handle'[h].committed => session' = "COMMITTED"
                             /\ handle'[h].aborted => session' = "ABORTED"
                             /\ True(handle'[h].lastStatus)
            TrueCall(h) == /\ True(call'[h].reply)
                           /\ call'[h].op = "abort" => call'[h].reply \in {"none", "error", "ABORTED"}
<1>1. SUFFICES /\ \A h \in Handles : TrueHandle(h) /\ TrueCall(h)
               /\ \A d \in descriptors' : True(d.status)
  BY DEF Truthful
<1>2. \A h \in Handles : handle'[h] = handle[h] => TrueHandle(h)
  BY EndsOnce DEF Truthful
<1>3. \A h \in Handles : call'[h] = call[h] => TrueCall(h)
  BY EndsOnce DEF Truthful
<1>4. \A d \in descriptors : True(d.status)
  BY EndsOnce DEF Truthful
<1>5. ASSUME NEW h \in Reloaders, Reload(h)
      PROVE  \A k \in Handles : TrueHandle(k)
  BY <1>0, <1>2, <1>5 DEF Reload, Absent, service
<1>6. ASSUME NEW h \in Workers, FromDescriptor(h)
      PROVE  \A k \in Handles : TrueHandle(k)
  <2>1. PICK d \in descriptors :
          handle' = [handle EXCEPT ![h] =
            [Absent EXCEPT !.live = TRUE, !.descriptorOnly = TRUE,
                           !.commitStarted = d.commitStarted, !.lastStatus = d.status]]
    BY <1>6 DEF FromDescriptor
  <2>2. handle'[h].lastStatus = d.status /\ ~handle'[h].committed /\ ~handle'[h].aborted
    BY <1>0, <2>1 DEF Absent
  <2>3. \A k \in Handles : k # h => handle'[k] = handle[k]
    BY <1>0, <2>1
  <2>. QED BY <1>2, <1>4, <2>2, <2>3
<1>7. ASSUME NEW h \in Handles, ToDescriptor(h)
      PROVE  \A d \in descriptors' : True(d.status)
  <2>1. session' = session
    BY <1>7 DEF ToDescriptor, service
  <2>2. True(DescriptorStatus(h))
    BY <2>1 DEF DescriptorStatus, Truthful
  <2>3. \A d \in descriptors' : d \in descriptors \/ d.status = DescriptorStatus(h)
    BY <1>7 DEF ToDescriptor
  <2>. QED BY <1>4, <2>2, <2>3
<1>8. ASSUME NEW h \in Handles, Commit(h)
      PROVE  \A k \in Handles : TrueHandle(k) /\ TrueCall(k)
  <2>1. session' = session
    BY <1>8 DEF Commit, service
  <2>2. /\ handle'[h].committed = handle[h].committed /\ handle'[h].aborted = handle[h].aborted
        /\ handle'[h].lastStatus = handle[h].lastStatus
        /\ \A k \in Handles \ {h} : handle'[k] = handle[k]
    BY <1>0, <1>8 DEF Commit, CommitMarked, Handle
  <2>3. TrueHandle(h)
    BY <2>1, <2>2 DEF Truthful
  <2>4. call'[h].op = "commit" /\ call'[h].reply = "none" /\ \A k \in Handles \ {h} : call'[k] = call[k]
    BY <1>0, <1>8 DEF Commit
  <2>. QED BY <1>2, <1>3, <2>2, <2>3, <2>4
<1>9. ASSUME NEW h \in Handles, Abort(h) \/ Close(h)
      PROVE  \A k \in Handles : TrueHandle(k) /\ TrueCall(k)
  <2>1. session' = session
    BY <1>9 DEF Abort, Close, service
  <2>2. handle' = handle \/ handle' = [handle EXCEPT ![h].closed = TRUE]
    BY <1>9 DEF Abort, Close
  <2>3. /\ handle'[h].committed = handle[h].committed /\ handle'[h].aborted = handle[h].aborted
        /\ handle'[h].lastStatus = handle[h].lastStatus
        /\ \A k \in Handles \ {h} : handle'[k] = handle[k]
    BY <1>0, <2>2 DEF Handle
  <2>4. TrueHandle(h)
    BY <2>1, <2>3 DEF Truthful
  <2>5. call' = call \/ \E c : c.reply = "none" /\ call' = [call EXCEPT ![h] = c]
    BY <1>9 DEF Abort, Close, SendAbort
  <2>6. /\ call'[h] = call[h] \/ call'[h].reply = "none"
        /\ \A k \in Handles \ {h} : call'[k] = call[k]
    BY <1>0, <2>5
  <2>. QED BY <1>2, <1>3, <2>3, <2>4, <2>6
<1>10. ASSUME NEW h \in Handles, Serve(h)
       PROVE  \A k \in Handles : TrueCall(k)
  <2>1. \E r : /\ call' = [call EXCEPT ![h].reply = r]
               /\ r \in {"error", session'}
               /\ call[h].op = "abort" => r \in {"error", "ABORTED"}
    BY <1>10 DEF Serve, Execute, Request
  <2>2. /\ call'[h].op = call[h].op /\ call'[h].reply \in {"error", session'}
        /\ call'[h].op = "abort" => call'[h].reply \in {"error", "ABORTED"}
        /\ \A k \in Handles \ {h} : call'[k] = call[k]
    BY <1>0, <2>1 DEF Call
  <2>. QED BY <1>3, <2>2
<1>11. ASSUME NEW h \in Handles, Finish(h)
       PROVE  \A k \in Handles : TrueHandle(k) /\ TrueCall(k)
  <2>. DEFINE a == handle[h].committed \/ (call[h].op = "commit" /\ CommitConfirmed(call[h].reply))
              b == handle[h].aborted \/ (call[h].op = "abort" /\ call[h].reply # "error")
              c == handle[h].closed \/ (call[h].by = "close")
  <2>1. session' = session /\ call' = [call EXCEPT ![h] = NoCall] /\ call[h].reply # "none"
    BY <1>11 DEF Finish, service
  <2>2. handle' = [handle EXCEPT ![h] = [@ EXCEPT !.committed = a, !.aborted = b, !.closed = c]]
    BY <1>11 DEF Finish
  <2>3. a => session = "COMMITTED"
    BY DEF Truthful, CommitConfirmed
  <2>4. b => session = "ABORTED"
    BY <2>1 DEF Truthful
  <2>. HIDE DEF a, b, c
  <2>5. /\ handle'[h].committed = a /\ handle'[h].aborted = b
        /\ handle'[h].lastStatus = handle[h].lastStatus
        /\ \A k \in Handles \ {h} : handle'[k] = handle[k]
    BY <1>0, <2>2 DEF Handle
  <2>6. TrueHandle(h)
    BY <2>1, <2>3, <2>4, <2>5 DEF Truthful
  <2>7. call'[h] = NoCall /\ \A k \in Handles \ {h} : call'[k] = call[k]
    BY <1>0, <2>1
  <2>. QED BY <1>2, <1>3, <2>5, <2>6, <2>7 DEF NoCall
<1>12. ASSUME NEW h \in Handles, GiveUp(h)
       PROVE  \A k \in Handles : TrueHandle(k) /\ TrueCall(k)
  <2>. DEFINE c == handle[h].closed \/ (call[h].by = "close")
  <2>1. session' = session /\ call' = [call EXCEPT ![h] = NoCall]
    BY <1>12 DEF GiveUp
  <2>2. handle' = [handle EXCEPT ![h] = [@ EXCEPT !.closed = c]]
    BY <1>12 DEF GiveUp
  <2>. HIDE DEF c
  <2>3. /\ handle'[h].committed = handle[h].committed /\ handle'[h].aborted = handle[h].aborted
        /\ handle'[h].lastStatus = handle[h].lastStatus
        /\ \A k \in Handles \ {h} : handle'[k] = handle[k]
    BY <1>0, <2>2 DEF Handle
  <2>4. TrueHandle(h)
    BY <2>1, <2>3 DEF Truthful
  <2>5. call'[h] = NoCall /\ \A k \in Handles \ {h} : call'[k] = call[k]
    BY <1>0, <2>1
  <2>. QED BY <1>2, <1>3, <2>3, <2>4, <2>5 DEF NoCall
<1>13. handle' = handle \/ \E h \in Handles : \/ Reload(h) /\ h \in Reloaders
                                              \/ FromDescriptor(h) /\ h \in Workers
                                              \/ Commit(h) \/ Abort(h) \/ Close(h) \/ Finish(h) \/ GiveUp(h)
  BY <1>0 DEF Next, SessionStep, WriterStep, ToDescriptor, Serve, Resend, ServeAbandoned,
     OpenBlockWriter, WriteBatch, AbortWriter, Upload, ServeUpload, UploadReturns, client
<1>14. call' = call \/ \E h \in Handles : \/ Commit(h) \/ Abort(h) \/ Close(h) \/ Serve(h)
                                          \/ Finish(h) \/ GiveUp(h)
  BY DEF Next, SessionStep, WriterStep, ToDescriptor, Resend, ServeAbandoned, Reload,
     FromDescriptor, OpenBlockWriter, WriteBatch, AbortWriter, Upload, ServeUpload, UploadReturns,
     client
<1>15. descriptors' = descriptors \/ \E h \in Handles : ToDescriptor(h)
  BY DEF Next, SessionStep, WriterStep, Commit, Abort, Close, Serve, Finish, GiveUp, Resend,
     ServeAbandoned, Reload, FromDescriptor, OpenBlockWriter, WriteBatch, AbortWriter, Upload,
     ServeUpload, UploadReturns, client
<1>16. \A h \in Handles : TrueHandle(h)
  BY <1>2, <1>5, <1>6, <1>8, <1>9, <1>11, <1>12, <1>13
<1>17. \A h \in Handles : TrueCall(h)
  BY <1>3, <1>8, <1>9, <1>10, <1>11, <1>12, <1>14
<1>18. \A d \in descriptors' : True(d.status)
  BY <1>4, <1>7, <1>15
<1>. QED BY <1>16, <1>17, <1>18

-----------------------------------------------------------------------------
LEMMA IInvStep == IInv /\ [Next]_vars => IInv'
<1> SUFFICES ASSUME IInv, [Next]_vars PROVE IInv'
  OBVIOUS
<1>1. CASE Next
  BY <1>1, TypeStep, SparesStep, LateStep, LiveStep, RememberedStep, UploadStep, ResultsStep,
     TruthStep DEF IInv
<1>2. CASE UNCHANGED vars
  <2>1. UNCHANGED <<handle, call, writer, descriptors, session, content, stored, abandoned,
                    attempted, late, uploads>>
    BY <1>2 DEF vars, client, service, history
  <2>2. TypeOK' /\ CloseSparesCommit' /\ LateWorkersWriteNothing' /\ OfLiveObjects'
    BY <2>1 DEF IInv, TypeOK, CloseSparesCommit, LateWorkersWriteNothing, OfLiveObjects
  <2>3. CommitsRemembered' /\ UploadedOnce' /\ CommitsNameResults' /\ Truthful'
    BY <2>1 DEF IInv, CommitsRemembered, UploadedOnce, CommitsNameResults, Committable, Results,
       DistinctBlocks, Truthful
  <2>. QED BY <2>2, <2>3 DEF IInv
<1>. QED BY <1>1, <1>2

LEMMA Invariant == Spec => []IInv
BY InitInv, IInvStep, PTL DEF Spec

(* Every object, writer, descriptor and request keeps its type.               *)
THEOREM TypeCorrect == Spec => []TypeOK
<1>1. IInv => TypeOK
  BY DEF IInv
<1>. QED BY Invariant, <1>1, PTL

(* close() sends no abort once its object has sent a commit, whatever became  *)
(* of the commit.                                                             *)
THEOREM CommitSpared == Spec => []CloseSparesCommit
<1>1. IInv => CloseSparesCommit
  BY DEF IInv
<1>. QED BY Invariant, <1>1, PTL

(* A worker that was restored from what was exported after a commit or an end *)
(* opens no block writer, through any chain of descriptors and reloads.       *)
THEOREM LateWorkers == Spec => []LateWorkersWriteNothing
<1>1. IInv => LateWorkersWriteNothing
  BY DEF IInv
<1>. QED BY Invariant, <1>1, PTL

(* What is committed was written whole by one attempt of each block, uploaded *)
(* once.                                                                      *)
THEOREM CommittedWhole == Spec => []CommittedRowsAreWritten
<1>1. IInv => CommittedRowsAreWritten
  BY DEF IInv, CommitsNameResults, Committable, UploadedOnce, Results, DistinctBlocks,
     CommittedRowsAreWritten, TypeOK
<1>. QED BY Invariant, <1>1, PTL

-----------------------------------------------------------------------------
(* The refinement of SessionOutcome                                        *)

LEMMA OneHandleChanges ==
  ASSUME TypeOK, Next
  PROVE  \/ handle' = handle
         \/ /\ session' = session
            /\ \E h \in Handles : \A k \in Handles \ {h} : handle'[k] = handle[k]
<1>1. handle \in [Handles -> Handle] /\ Handles = {Creator} \cup Reloaders \cup Workers
  BY DEF TypeOK, Handles, Coordinators
<1>2. ASSUME NEW h \in Handles, Reload(h) \/ FromDescriptor(h) \/ Commit(h) \/ Close(h) \/ Finish(h)
                                \/ GiveUp(h)
      PROVE  session' = session /\ \A k \in Handles \ {h} : handle'[k] = handle[k]
  <2>1. session' = session
    BY <1>2 DEF Reload, FromDescriptor, Commit, Close, Finish, GiveUp, service
  <2>2. handle' = handle \/ \E r : handle' = [handle EXCEPT ![h] = r]
    BY <1>2 DEF Reload, FromDescriptor, Commit, CommitMarked, Close, Finish, GiveUp
  <2>. QED BY <1>1, <2>1, <2>2
<1>3. \/ handle' = handle
      \/ \E h \in Handles : Reload(h) \/ FromDescriptor(h) \/ Commit(h) \/ Close(h) \/ Finish(h)
                            \/ GiveUp(h)
  BY <1>1 DEF Next, SessionStep, WriterStep, ToDescriptor, Abort, Serve, Resend, ServeAbandoned,
     OpenBlockWriter, WriteBatch, AbortWriter, Upload, ServeUpload, UploadReturns, client
<1>. QED BY <1>2, <1>3

LEMMA OutcomeStep ==
  ASSUME IInv, Next
  PROVE  Outcome!Next \/ UNCHANGED <<Fate, Told>>
<1>1. TypeOK /\ session \in Statuses /\ session' \in Statuses /\ Truthful'
  BY TypeStep, TruthStep DEF IInv, TypeOK
<1>2. CASE session' # session
  <2>1. session = "NORMAL" /\ session' \in {"COMMITTED", "ABORTED"} /\ handle' = handle
    BY <1>1, <1>2, EndsOnce, OneHandleChanges DEF Statuses
  <2>2. Told' = Told
    BY <2>1 DEF Told, DescriptorStatus
  <2>3. Fate = "open" /\ Fate' \in {"committed", "aborted"}
    BY <2>1 DEF Fate, Reported
  <2>. QED BY <2>2, <2>3 DEF Outcome!Next, Outcome!End, Outcome!Ends, Fate, Told
<1>3. CASE session' = session /\ handle' = handle
  BY <1>3 DEF Fate, Told, DescriptorStatus
<1>4. ASSUME session' = session, NEW h \in Handles, \A k \in Handles \ {h} : handle'[k] = handle[k]
      PROVE  Outcome!Next
  <2>1. Fate' = Fate
    BY <1>4 DEF Fate
  <2>2. \A k \in Handles \ {h} : Told'[k] = Told[k]
    BY <1>4 DEF Told, DescriptorStatus
  <2>3. Told' = [Told EXCEPT ![h] = Told'[h]]
    BY <2>2 DEF Told
  <2>4. Told'[h] = Reported(DescriptorStatus(h)')
    BY DEF Told
  <2>5. CASE Told'[h] = "nothing"
    BY <2>1, <2>3, <2>5 DEF Outcome!Next, Outcome!Forget, Fate, Told
  <2>6. CASE Told'[h] # "nothing"
    <3>1. DescriptorStatus(h)' \in {"COMMITTED", "ABORTED"}
      BY <2>4, <2>6 DEF Reported
    <3>2. session' = DescriptorStatus(h)'
      BY <1>1, <3>1 DEF Truthful, DescriptorStatus
    <3>3. Told'[h] = Fate /\ Fate \in {"committed", "aborted"}
      BY <1>4, <2>4, <3>1, <3>2 DEF Fate, Reported
    <3>. QED BY <2>1, <2>3, <3>3 DEF Outcome!Next, Outcome!Report, Outcome!Ends, Fate, Told
  <2>. QED BY <2>5, <2>6
<1>. QED BY <1>1, <1>2, <1>3, <1>4, OneHandleChanges

(* The session implements SessionOutcome: it ends at most once, and whatever  *)
(* an object or a descriptor says of its end is what happened, for any number *)
(* of objects, lost answers and requests that arrive late.                    *)
THEOREM OutcomeTheorem == Spec => ReportsTrueOutcome
<1>1. Init => Outcome!Init
  <2> SUFFICES ASSUME Init PROVE Outcome!Init
    OBVIOUS
  <2>1. \A h \in Handles : Reported(DescriptorStatus(h)) = "nothing"
    BY DEF Init, Absent, DescriptorStatus, Reported
  <2>. QED BY <2>1 DEF Init, Outcome!Init, Fate, Told
<1>2. IInv /\ [Next]_vars => [Outcome!Next]_<<Fate, Told>>
  <2> SUFFICES ASSUME IInv, [Next]_vars
               PROVE  Outcome!Next \/ UNCHANGED <<Fate, Told>>
    OBVIOUS
  <2>1. CASE UNCHANGED vars
    BY <2>1 DEF vars, client, service, Fate, Told, DescriptorStatus
  <2>. QED BY <2>1, OutcomeStep
<1>. QED BY <1>1, <1>2, Invariant, PTL DEF Spec, ReportsTrueOutcome, Outcome!Spec, Fate, Told
=============================================================================
