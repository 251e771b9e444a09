------------------------- MODULE UpsertSessionProofs -------------------------
(***************************************************************************)
(* Theorems about an upsert session and its stream (UpsertSession), for    *)
(* any set of buckets, any sizes of the buffers and every bound.           *)
(***************************************************************************)
EXTENDS UpsertSession, SequenceTheorems, FiniteSetTheorems, TLAPS

-----------------------------------------------------------------------------
(* The inductive invariant                                                 *)

\* A bucket has no more rows than the stream.
Counted == \A b \in Buckets : written[b] <= total

\* Uploads run in the middle of a round only, and what an upload that was
\* executed has sent is in the service.
UploadsInRound ==
  /\ pc # "collect" => \A b \in Buckets : upload[b] = "none"
  /\ \A b \in Buckets : upload[b] = "applied" => UpToFooter(buffer[b]) \subseteq applied[b]

\* The buckets a flush is through with are empty, and a flush of all buckets
\* leaves none out; so a closed stream is empty.
Emptied ==
  /\ \A b \in done : buffer[b] = <<>>
  /\ pc = "collect" /\ flushAll =>
       \A b \in Buckets : upload[b] = "none" => buffer[b] = <<>>
  /\ pc # "idle" /\ op = "close" => flushAll
  /\ closed => pc = "idle" /\ \A b \in Buckets : buffer[b] = <<>>

Ended == {"COMMITTED", "EXPIRED", "ABORTED"}
Accepted == {"COMMITTING", "COMMITTED"}

\* Where commit() may take a session that is not found for committed, the
\* service has accepted the commit; every COMMITTED the client knows of is true;
\* and an accepted commit freezes the content.
CommitAccepted ==
  /\ forgotten => state \in Ended
  /\ place \in {"reload", "reload_again", "loop", "check", "post_again"} => state \in Accepted
  /\ status = "COMMITTED" => state = "COMMITTED"
  /\ snapshot.status = "COMMITTED" => state = "COMMITTED"
  /\ place = "delete" => request = "abort"
  /\ place = "idle" /\ request = "commit" /\ ended = "ok" => state = "COMMITTED"
  /\ state \in Accepted => content = applied

IInv ==
  /\ SessionTypeOK /\ Counted
  /\ UploadsInRound /\ Emptied /\ EachRowOnce
  /\ CommitAccepted /\ KeepaliveFollowsStop

-----------------------------------------------------------------------------
(* Buffers as sequences                                                    *)

LEMMA RowsOfAppend ==
  ASSUME NEW s \in Seq(Nat), NEW x \in Nat
  PROVE  Rows(Append(s, x)) = Rows(s) \cup ({x} \ {Footer})
<1>1. /\ DOMAIN s = 1..Len(s) /\ DOMAIN Append(s, x) = 1..(Len(s) + 1)
      /\ Len(s) \in Nat
  OBVIOUS
<1>2. /\ \A i \in 1..Len(s) : Append(s, x)[i] = s[i]
      /\ Append(s, x)[Len(s) + 1] = x
  OBVIOUS
<1>3. ToSet(Append(s, x)) = ToSet(s) \cup {x}
  BY <1>1, <1>2 DEF ToSet
<1>. QED
  BY <1>3 DEF Rows

LEMMA RowsOfFooter ==
  ASSUME NEW s \in Seq(Nat)
  PROVE  Rows(WithFooter(s)) = Rows(s)
BY RowsOfAppend DEF WithFooter, Footer

LEMMA RowsOfEmpty == Rows(<<>>) = {}
BY DEF Rows, ToSet

LEMMA UpToFooterIsRows ==
  ASSUME NEW s \in Seq(Nat)
  PROVE  UpToFooter(s) \subseteq Rows(s)
BY DEF UpToFooter, Rows, ToSet

LEMMA FooterKeepsType ==
  ASSUME NEW s \in Seq(0..MaxRows)
  PROVE  WithFooter(s) \in Seq(0..MaxRows)
<1>1. 0 \in 0..MaxRows
  BY SizesAssumption DEF SizesAssumption
<1>2. Append(s, 0) \in Seq(0..MaxRows)
  BY <1>1
<1>. QED
  BY <1>2 DEF WithFooter, Footer

LEMMA RowsInBounds ==
  ASSUME NEW s \in Seq(0..MaxRows)
  PROVE  Rows(s) \subseteq 1..MaxRows
BY SizesAssumption DEF Rows, ToSet, Footer, SizesAssumption

-----------------------------------------------------------------------------
(* Which steps touch what                                                  *)

StreamActions ==
  \/ \E b \in Buckets : Write(b) \/ Serve(b) \/ UploadSucceeds(b) \/ UploadFails(b)
  \/ Flush \/ Close \/ Round \/ FlushReturns \/ FlushFails \/ ReloadRaises \/ Reassign

SessionActions ==
  Begin \/ CloseSession \/ SessionSteps \/ KeepaliveSteps \/ ServiceSteps

LEMMA StepCases ==
  ASSUME [SessionNext]_allVars
  PROVE  \/ /\ StreamActions
            /\ UNCHANGED <<sessionCall, keepalive, sessionService>>
            /\ status' = status \/ status' = state
         \/ SessionActions /\ UNCHANGED <<stream, buckets, call, upload, service, history>>
         \/ UNCHANGED allVars
<1>1. CASE StreamStep
  BY <1>1 DEF StreamStep, StreamActions, WriteWithSession, sessionVars
<1>2. CASE FailedFlushStep
  BY <1>2 DEF FailedFlushStep, StreamActions
<1>3. CASE Begin \/ CloseSession
  BY <1>3 DEF SessionActions, Begin, CloseSession, vars
<1>4. CASE SessionSteps
  BY <1>4 DEF SessionActions, SessionSteps, CommitAnswered, ReloadInCommit, Loop, Check,
    AbortAnswered, vars
<1>5. CASE KeepaliveSteps
  BY <1>5 DEF SessionActions, KeepaliveSteps, TickStarts, TickParses, TickRaises, KeepaliveOnly
<1>6. CASE ServiceSteps
  BY <1>6 DEF SessionActions, ServiceSteps, ExecuteCommit, CompleteCommit, EndedByOther,
    Forget, ServiceOnly, vars
<1>7. CASE UNCHANGED allVars
  BY <1>7
<1>. QED
  BY <1>1, <1>2, <1>3, <1>4, <1>5, <1>6, <1>7 DEF SessionNext

\* Rows are applied to a session that is NORMAL only.
LEMMA AppliedWhenNormal ==
  ASSUME [SessionNext]_allVars, state # "NORMAL"
  PROVE  applied' = applied
<1>1. CASE StreamStep
  BY <1>1 DEF StreamStep, WriteWithSession, Write, UploadSucceeds, UploadFails, Flush, Close,
    Round, FlushReturns, ReloadRaises, Reassign, service
<1>2. CASE FailedFlushStep
  BY <1>2 DEF FailedFlushStep, FlushFails, service
<1>3. CASE Begin \/ CloseSession \/ SessionSteps \/ KeepaliveSteps \/ ServiceSteps
  BY <1>3 DEF Begin, CloseSession, vars, SessionSteps, CommitAnswered, ReloadInCommit, Loop,
    Check, AbortAnswered, KeepaliveSteps, TickStarts, TickParses, TickRaises, KeepaliveOnly,
    ServiceSteps, ExecuteCommit, CompleteCommit, EndedByOther, Forget, ServiceOnly, service
<1>4. CASE UNCHANGED allVars
  BY <1>4 DEF allVars, vars, service
<1>. QED
  BY <1>1, <1>2, <1>3, <1>4 DEF SessionNext

-----------------------------------------------------------------------------
(* The initial state                                                       *)

LEMMA InitInv == SessionInit => IInv
<1> SUFFICES ASSUME SessionInit PROVE IInv
  OBVIOUS
<1> USE DEF SessionInit, Init
<1>1. TypeOK
  <2>1. <<>> \in Seq(0..MaxRows) /\ {} \in SUBSET (1..MaxRows)
    OBVIOUS
  <2>2. 0 \in 0..MaxMoves /\ 0 \in 0..MaxRows /\ 0 \in 0..MaxRetries /\ 0 \in Nat
    BY SizesAssumption DEF SizesAssumption
  <2>3. buffer \in [Buckets -> Seq(0..MaxRows)] /\ written \in [Buckets -> 0..MaxRows]
    BY <2>1, <2>2
  <2>4. owner \in [Buckets -> 0..MaxMoves] /\ slots = owner /\ buckets = owner
    BY <2>2
  <2>5. applied \in [Buckets -> SUBSET (1..MaxRows)]
        /\ acked = applied /\ moved = applied /\ cut = applied
    BY <2>1
  <2>. QED
    BY <2>2, <2>3, <2>4, <2>5 DEF TypeOK
<1>2. SessionTypeOK
  <2>1. 0 \in 0..MaxPolls /\ 0 \in 0..MaxMoves
    BY SizesAssumption, SessionBoundsAssumption DEF SizesAssumption, SessionBoundsAssumption
  <2>2. content \in [Buckets -> SUBSET (1..MaxRows)]
    OBVIOUS
  <2>. QED
    BY <1>1, <2>1, <2>2 DEF SessionTypeOK, NoSnapshot, ServiceStatuses
<1>3. Counted /\ UploadsInRound /\ Emptied /\ KeepaliveFollowsStop
  BY DEF Counted, UploadsInRound, Emptied, KeepaliveFollowsStop
<1>4. EachRowOnce
  BY RowsOfEmpty DEF EachRowOnce
<1>5. CommitAccepted
  BY DEF CommitAccepted, NoSnapshot, Accepted
<1>. QED
  BY <1>2, <1>3, <1>4, <1>5 DEF IInv

-----------------------------------------------------------------------------
(* Types                                                                   *)

FlushTypes ==
  /\ pc' \in {"idle", "round", "collect"} /\ op' \in {"write", "flush", "close"}
  /\ flushAll' \in BOOLEAN /\ done' \subseteq Buckets /\ attempt' \in 0..MaxRetries
  /\ result' \in {"none", "ok", "error"} /\ buckets' \in [Buckets -> 0..MaxMoves]

LEMMA StreamTypes ==
  ASSUME TypeOK, Counted, StreamActions
  PROVE  TypeOK' /\ Counted'
<1> USE SizesAssumption DEF SizesAssumption, TypeOK, stream, call, service, history
<1>1. ASSUME NEW b \in Buckets, Write(b)
      PROVE  TypeOK' /\ Counted'
  <2> USE <1>1 DEF Write
  <2>1. written[b] \in Nat /\ written[b] <= total /\ total \in Nat /\ total < MaxRows
    BY DEF Counted
  <2>2. written[b] + 1 \in 0..MaxRows
    BY <2>1
  <2>3. written' \in [Buckets -> 0..MaxRows] /\ written'[b] = written[b] + 1
    BY <2>2
  <2>4. Append(buffer[b], written'[b]) \in Seq(0..MaxRows)
    BY <2>2, <2>3
  <2>5. buffer' \in [Buckets -> Seq(0..MaxRows)]
    BY <2>4
  <2>6. FlushTypes
    <3>1. pc' \in {"idle", "round"} /\ op' = "write" /\ done' = {} /\ attempt' = 0
      BY DEF StartFlush, End
    <3>2. flushAll' \in BOOLEAN
      BY DEF StartFlush, End
    <3>3. result' \in {result, "ok"} /\ buckets' \in {slots, buckets}
      BY DEF StartFlush, End
    <3>. QED
      BY <3>1, <3>2, <3>3 DEF FlushTypes
  <2>7. total' \in Nat /\ \A c \in Buckets : written'[c] <= total'
    BY <2>1, <2>3 DEF Counted
  <2>. QED
    BY <2>3, <2>5, <2>6, <2>7 DEF Counted, FlushTypes
<1>2. ASSUME NEW b \in Buckets, Serve(b)
      PROVE  TypeOK' /\ Counted'
  <2> USE <1>2 DEF Serve
  <2>1. buffer[b] \in Seq(0..MaxRows) /\ buffer[b] \in Seq(Nat)
    OBVIOUS
  <2>2. UpToFooter(buffer[b]) \subseteq 1..MaxRows
    BY <2>1, UpToFooterIsRows, RowsInBounds
  <2>3. applied' \in [Buckets -> SUBSET (1..MaxRows)]
    <3>1. CASE owner[b] = buckets[b]
      <4>1. applied' = [applied EXCEPT ![b] = @ \cup UpToFooter(buffer[b])]
        BY <3>1
      <4>2. applied[b] \cup UpToFooter(buffer[b]) \in SUBSET (1..MaxRows)
        BY <2>2
      <4>. QED
        BY <4>1, <4>2
    <3>2. CASE owner[b] # buckets[b]
      BY <3>2
    <3>. QED
      BY <3>1, <3>2
  <2>4. upload' \in [Buckets ->
          {"none", "sent", "applied", "moved", "gateway", "server", "client"}]
    OBVIOUS
  <2>. QED
    BY <2>3, <2>4 DEF Counted
<1>3. ASSUME NEW b \in Buckets, UploadSucceeds(b)
      PROVE  TypeOK' /\ Counted'
  <2> USE <1>3 DEF UploadSucceeds
  <2>1. Rows(buffer[b]) \subseteq 1..MaxRows
    BY RowsInBounds
  <2>2. /\ acked' \in [Buckets -> SUBSET (1..MaxRows)]
        /\ moved' \in [Buckets -> SUBSET (1..MaxRows)]
        /\ cut' \in [Buckets -> SUBSET (1..MaxRows)]
    <3>1. /\ acked[b] \cup Rows(buffer[b]) \in SUBSET (1..MaxRows)
          /\ moved[b] \cup Rows(buffer[b]) \in SUBSET (1..MaxRows)
          /\ cut[b] \cup (Rows(buffer[b]) \ UpToFooter(buffer[b])) \in SUBSET (1..MaxRows)
      BY <2>1
    <3>2. acked' = [acked EXCEPT ![b] = @ \cup Rows(buffer[b])]
      OBVIOUS
    <3>3. moved' = moved \/ moved' = [moved EXCEPT ![b] = @ \cup Rows(buffer[b])]
      OBVIOUS
    <3>4. \/ cut' = cut
          \/ cut' = [cut EXCEPT ![b] = @ \cup (Rows(buffer[b]) \ UpToFooter(buffer[b]))]
      OBVIOUS
    <3>5. acked' \in [Buckets -> SUBSET (1..MaxRows)]
      BY <3>1, <3>2
    <3>6. moved' \in [Buckets -> SUBSET (1..MaxRows)]
      BY <3>1, <3>3
    <3>7. cut' \in [Buckets -> SUBSET (1..MaxRows)]
      BY <3>1, <3>4
    <3>. QED
      BY <3>5, <3>6, <3>7
  <2>3. <<>> \in Seq(0..MaxRows)
    OBVIOUS
  <2>4. buffer' \in [Buckets -> Seq(0..MaxRows)]
    BY <2>3 DEF AfterSuccess, NewWriter
  <2>5. upload' \in [Buckets ->
          {"none", "sent", "applied", "moved", "gateway", "server", "client"}]
    OBVIOUS
  <2>6. done' \subseteq Buckets
    OBVIOUS
  <2>. QED
    BY <2>2, <2>4, <2>5, <2>6 DEF Counted
<1>4. ASSUME NEW b \in Buckets, UploadFails(b)
      PROVE  TypeOK' /\ Counted'
  BY <1>4 DEF UploadFails, AfterFailure, KeepWriter, Counted
<1>5. CASE Flush
  BY <1>5 DEF Flush, StartFlush, Counted
<1>6. CASE Close
  BY <1>6 DEF Close, StartFlush, Counted
<1>7. CASE Round
  <2> USE <1>7 DEF Round
  <2>1. \A b \in Buckets : WithFooter(buffer[b]) \in Seq(0..MaxRows)
    BY FooterKeepsType
  <2>2. buffer' \in [Buckets -> Seq(0..MaxRows)]
    BY <2>1
  <2>3. upload' \in [Buckets ->
          {"none", "sent", "applied", "moved", "gateway", "server", "client"}]
    OBVIOUS
  <2>. QED
    BY <2>2, <2>3 DEF Counted
<1>8. CASE FlushReturns
  BY <1>8 DEF FlushReturns, End, Counted
<1>9. CASE FlushFails
  <2> USE <1>9 DEF FlushFails
  <2>1. slots' \in [Buckets -> 0..MaxMoves] /\ buckets' = slots'
    OBVIOUS
  <2>2. /\ pc' \in {"idle", "round"} /\ flushAll' \in BOOLEAN /\ done' \subseteq Buckets
        /\ attempt' \in 0..MaxRetries /\ result' \in {"none", "ok", "error"}
    <3>1. CASE \E b \in Failed : MayRetry(b, NextAttempt)
      <4>1. attempt + 1 <= MaxRetries /\ attempt' = attempt + 1 /\ pc' = "round"
            /\ UNCHANGED <<result, flushAll, done>>
        BY <3>1 DEF MayRetry, NextAttempt
      <4>. QED
        BY <4>1
    <3>2. CASE ~\E b \in Failed : MayRetry(b, NextAttempt)
      <4>1. End("error")
        BY <3>2
      <4>. QED
        BY <4>1 DEF End
    <3>. QED
      BY <3>1, <3>2
  <2>3. upload' \in [Buckets ->
          {"none", "sent", "applied", "moved", "gateway", "server", "client"}]
    OBVIOUS
  <2>. QED
    BY <2>1, <2>2, <2>3 DEF Counted
<1>10. CASE ReloadRaises
  BY <1>10 DEF ReloadRaises, End, Counted
<1>11. CASE Reassign
  <2>1. PICK b \in Buckets : owner[b] < MaxMoves /\ owner' = [owner EXCEPT ![b] = @ + 1]
    BY <1>11 DEF Reassign
  <2>2. owner' \in [Buckets -> 0..MaxMoves]
    BY <2>1
  <2>. QED
    BY <1>11, <2>2 DEF Reassign, Counted
<1>. QED
  BY <1>1, <1>2, <1>3, <1>4, <1>5, <1>6, <1>7, <1>8, <1>9, <1>10, <1>11 DEF StreamActions

LEMMA TypesUnchanged ==
  ASSUME TypeOK, Counted, UNCHANGED <<stream, buckets, call, upload, service, history>>,
         slots' \in [Buckets -> 0..MaxMoves]
  PROVE  TypeOK' /\ Counted'
BY DEF TypeOK, Counted, stream, call, service, history

LEMMA KeepaliveTypes ==
  ASSUME SessionTypeOK, (UNCHANGED keepalive) \/ StopKeepalive
  PROVE  /\ timer' \in {"armed", "running", "off"} /\ stopped' \in BOOLEAN
         /\ snapshot' \in [slots : [Buckets -> 0..MaxMoves], status : ServiceStatuses]
<1>1. /\ timer \in {"armed", "running", "off"} /\ stopped \in BOOLEAN
      /\ snapshot \in [slots : [Buckets -> 0..MaxMoves], status : ServiceStatuses]
  BY DEF SessionTypeOK
<1>2. timer' \in {timer, "off"} /\ stopped' \in {stopped, TRUE} /\ snapshot' = snapshot
  BY DEF keepalive, StopKeepalive
<1>. QED
  BY <1>1, <1>2

LEMMA SessionTypes ==
  ASSUME SessionTypeOK, Counted, [SessionNext]_allVars
  PROVE  SessionTypeOK' /\ Counted'
<1> USE DEF SessionTypeOK
<1>1. CASE /\ StreamActions
           /\ UNCHANGED <<sessionCall, keepalive, sessionService>>
           /\ status' = status \/ status' = state
  <2>1. TypeOK' /\ Counted'
    BY <1>1, StreamTypes
  <2>2. {status', state'} \subseteq ServiceStatuses
    BY <1>1 DEF sessionService
  <2>. QED
    BY <1>1, <2>1, <2>2 DEF sessionCall, keepalive, sessionService
<1>2. CASE SessionActions /\ UNCHANGED <<stream, buckets, call, upload, service, history>>
  <2>1. slots \in [Buckets -> 0..MaxMoves] /\ owner \in [Buckets -> 0..MaxMoves]
        /\ applied \in [Buckets -> SUBSET (1..MaxRows)]
    BY DEF TypeOK
  <2>2. CASE Begin
    <3>1. TypeOK' /\ Counted'
      BY <1>2, <2>1, <2>2, TypesUnchanged DEF Begin, vars
    <3>. QED
      BY <2>2, <3>1, SessionBoundsAssumption
      DEF Begin, Call, keepalive, sessionService, SessionBoundsAssumption
  <2>3. CASE CloseSession
    <3>1. TypeOK' /\ Counted'
      BY <1>2, <2>1, <2>3, TypesUnchanged DEF CloseSession, vars
    <3>. QED
      BY <2>3, <3>1 DEF CloseSession, StopKeepalive, sessionService
  <2>4. CASE SessionSteps
    <3>1. slots' \in [Buckets -> 0..MaxMoves]
      BY <2>1, <2>4 DEF SessionSteps, CommitAnswered, ReloadInCommit, Loop, Check,
        AbortAnswered, vars
    <3>2. TypeOK' /\ Counted'
      BY <1>2, <3>1, TypesUnchanged
    <3>3. CASE CommitAnswered
      <4>1. place' \in {"idle", "reload", "reload_again", "loop"} /\ request' = request
            /\ ended' \in {"none", "ok", "raised"} /\ polls' \in 0..MaxPolls
        BY <3>3, SessionBoundsAssumption DEF CommitAnswered, Goto, Finish, SessionBoundsAssumption
      <4>2. status' \in ServiceStatuses /\ UNCHANGED <<timer, snapshot, stopped, state, forgotten, content>>
        BY <3>3 DEF CommitAnswered, keepalive, ServiceStatuses
      <4>3. late' = late \/ late' = ~forgotten
        BY <3>3 DEF CommitAnswered
      <4>4. late' \in BOOLEAN
        BY <4>3, Zenon
      <4>. QED
        BY <3>2, <4>1, <4>2, <4>4
    <3>4. CASE ReloadInCommit
      BY <3>2, <3>4, SessionBoundsAssumption DEF ReloadInCommit, Goto, Finish, keepalive,
        sessionService, ServiceStatuses, SessionBoundsAssumption
    <3>5. CASE Loop
      BY <3>2, <3>5, SessionBoundsAssumption DEF Loop, Goto, Finish, keepalive,
        sessionService, SessionBoundsAssumption
    <3>6. CASE Check
      <4>1. place' = "idle" /\ request' = request /\ ended' \in {"ok", "raised"} /\ polls' = 0
        BY <3>6 DEF Check, Finish
      <4>2. (UNCHANGED keepalive) \/ StopKeepalive
        BY <3>6 DEF Check
      <4>3. UNCHANGED <<status, state, forgotten, late, content>>
        BY <3>6 DEF Check, sessionService
      <4>. QED
        BY <3>2, <4>1, <4>2, <4>3, KeepaliveTypes, SessionBoundsAssumption DEF SessionBoundsAssumption
    <3>7. CASE AbortAnswered
      <4>1. place' = "idle" /\ request' = request /\ ended' \in {"ok", "raised"} /\ polls' = 0
        BY <3>7 DEF AbortAnswered, Finish
      <4>2. (UNCHANGED keepalive) \/ StopKeepalive
        BY <3>7 DEF AbortAnswered
      <4>3. state' \in ServiceStatuses /\ UNCHANGED <<status, forgotten, late, content>>
        BY <3>7 DEF AbortAnswered, ServiceStatuses
      <4>. QED
        BY <3>2, <4>1, <4>2, <4>3, KeepaliveTypes, SessionBoundsAssumption DEF SessionBoundsAssumption
    <3>. QED
      BY <2>4, <3>3, <3>4, <3>5, <3>6, <3>7 DEF SessionSteps
  <2>5. CASE KeepaliveSteps
    <3>1. slots' \in [Buckets -> 0..MaxMoves]
      BY <2>1, <2>5 DEF KeepaliveSteps, TickStarts, TickParses, TickRaises
    <3>2. TypeOK' /\ Counted'
      BY <1>2, <3>1, TypesUnchanged
    <3>3. NoSnapshot \in [slots : [Buckets -> 0..MaxMoves], status : ServiceStatuses]
      BY SizesAssumption DEF NoSnapshot, ServiceStatuses, SizesAssumption
    <3>4. CASE TickStarts
      BY <2>1, <3>2, <3>4 DEF TickStarts, KeepaliveOnly, sessionCall, sessionService
    <3>5. CASE TickParses
      BY <3>2, <3>3, <3>5 DEF TickParses, Rearmed, KeepaliveOnly, sessionCall,
        sessionService
    <3>6. CASE TickRaises
      BY <3>2, <3>3, <3>6 DEF TickRaises, Rearmed, KeepaliveOnly, sessionCall,
        sessionService
    <3>. QED
      BY <2>5, <3>4, <3>5, <3>6 DEF KeepaliveSteps
  <2>6. CASE ServiceSteps
    <3>1. TypeOK' /\ Counted'
      BY <1>2, <2>1, <2>6, TypesUnchanged DEF ServiceSteps, ExecuteCommit, CompleteCommit,
        EndedByOther, Forget, ServiceOnly, vars
    <3>2. content' \in [Buckets -> SUBSET (1..MaxRows)]
      BY <2>1, <2>6 DEF ServiceSteps, ExecuteCommit, CompleteCommit, EndedByOther, Forget
    <3>3. state' \in ServiceStatuses /\ forgotten' \in BOOLEAN /\ late' \in BOOLEAN
      BY <2>6 DEF ServiceSteps, ExecuteCommit, CompleteCommit, EndedByOther, Forget,
        ServiceStatuses
    <3>4. UNCHANGED <<sessionCall, status, keepalive>>
      BY <2>6 DEF ServiceSteps, ExecuteCommit, CompleteCommit, EndedByOther, Forget,
        ServiceOnly
    <3>. QED
      BY <3>1, <3>2, <3>3, <3>4 DEF sessionCall, keepalive
  <2>. QED
    BY <1>2, <2>2, <2>3, <2>4, <2>5, <2>6 DEF SessionActions
<1>3. CASE UNCHANGED allVars
  BY <1>3 DEF TypeOK, Counted, allVars, vars, stream, call, service, history, sessionVars,
    sessionCall, keepalive, sessionService
<1>. QED
  BY <1>1, <1>2, <1>3, StepCases

-----------------------------------------------------------------------------
(* The stream's invariants                                                 *)

LEMMA UploadsStep ==
  ASSUME TypeOK, UploadsInRound, StreamActions
  PROVE  UploadsInRound'
<1> USE DEF TypeOK, UploadsInRound, stream, call, service, history
<1>1. ASSUME NEW b \in Buckets, Write(b)
      PROVE  UploadsInRound'
  BY <1>1 DEF Write, StartFlush, End
<1>2. ASSUME NEW b \in Buckets, Serve(b)
      PROVE  UploadsInRound'
  <2>1. pc = "collect" /\ pc' = pc /\ buffer' = buffer
    BY <1>2 DEF Serve
  <2>2. CASE owner[b] = buckets[b]
    <3>1. /\ applied' = [applied EXCEPT ![b] = @ \cup UpToFooter(buffer[b])]
          /\ upload' = [upload EXCEPT ![b] = "applied"]
      BY <1>2, <2>2 DEF Serve
    <3>2. applied'[b] = applied[b] \cup UpToFooter(buffer[b])
          /\ \A c \in Buckets \ {b} : applied'[c] = applied[c] /\ upload'[c] = upload[c]
      BY <3>1
    <3>. QED
      BY <2>1, <3>2
  <2>3. CASE owner[b] # buckets[b]
    BY <1>2, <2>1, <2>3 DEF Serve
  <2>. QED
    BY <2>2, <2>3
<1>3. ASSUME NEW b \in Buckets, UploadSucceeds(b)
      PROVE  UploadsInRound'
  BY <1>3 DEF UploadSucceeds
<1>4. ASSUME NEW b \in Buckets, UploadFails(b)
      PROVE  UploadsInRound'
  BY <1>4 DEF UploadFails
<1>5. CASE Flush \/ Close
  BY <1>5 DEF Flush, Close, StartFlush
<1>6. CASE Round
  BY <1>6 DEF Round
<1>7. CASE FlushReturns
  <2>1. \A b \in Buckets : upload[b] = "none"
    BY <1>7 DEF FlushReturns, Running, AllSucceeded, Failed
  <2>. QED
    BY <1>7, <2>1 DEF FlushReturns, End
<1>8. CASE FlushFails \/ ReloadRaises
  BY <1>8 DEF FlushFails, ReloadRaises
<1>9. CASE Reassign
  BY <1>9 DEF Reassign
<1>. QED
  BY <1>1, <1>2, <1>3, <1>4, <1>5, <1>6, <1>7, <1>8, <1>9 DEF StreamActions

LEMMA EmptiedStep ==
  ASSUME TypeOK, UploadsInRound, Emptied, StreamActions
  PROVE  Emptied'
<1> USE DEF TypeOK, Emptied, stream, call, service, history
<1>1. ASSUME NEW b \in Buckets, Write(b)
      PROVE  Emptied'
  BY <1>1 DEF Write, StartFlush, End
<1>2. ASSUME NEW b \in Buckets, Serve(b)
      PROVE  Emptied'
  <2>1. upload[b] = "sent" /\ upload'[b] \in {"applied", "moved"}
        /\ \A c \in Buckets \ {b} : upload'[c] = upload[c]
    BY <1>2 DEF Serve
  <2>. QED
    BY <1>2, <2>1 DEF Serve
<1>3. ASSUME NEW b \in Buckets, UploadSucceeds(b)
      PROVE  Emptied'
  <2>1. pc = "collect"
    BY <1>3 DEF UploadSucceeds, UploadsInRound
  <2>2. buffer'[b] = <<>> /\ \A c \in Buckets \ {b} : buffer'[c] = buffer[c] /\ upload'[c] = upload[c]
    BY <1>3 DEF UploadSucceeds, AfterSuccess, NewWriter
  <2>. QED
    BY <1>3, <2>1, <2>2 DEF UploadSucceeds
<1>4. ASSUME NEW b \in Buckets, UploadFails(b)
      PROVE  Emptied'
  <2>1. buffer' = buffer /\ upload'[b] # "none"
        /\ \A c \in Buckets \ {b} : upload'[c] = upload[c]
    BY <1>4 DEF UploadFails, AfterFailure, KeepWriter
  <2>. QED
    BY <1>4, <2>1 DEF UploadFails
<1>5. CASE Flush \/ Close
  BY <1>5 DEF Flush, Close, StartFlush
<1>6. CASE Round
  <2>1. ASSUME flushAll, NEW b \in Buckets, upload'[b] = "none"
        PROVE  buffer'[b] = <<>>
    BY <1>6, <2>1 DEF Round, ToSend
  <2>2. \A b \in done : buffer'[b] = <<>>
    BY <1>6 DEF Round, ToSend
  <2>. QED
    BY <1>6, <2>1, <2>2 DEF Round
<1>7. CASE FlushReturns
  <2>1. \A b \in Buckets : upload[b] = "none"
    BY <1>7 DEF FlushReturns, Running, AllSucceeded, Failed
  <2>2. op = "close" => \A b \in Buckets : buffer[b] = <<>>
    BY <1>7, <2>1 DEF FlushReturns
  <2>. QED
    BY <1>7, <2>2 DEF FlushReturns, End
<1>8. CASE FlushFails
  BY <1>8 DEF FlushFails, End
<1>9. CASE ReloadRaises
  BY <1>9 DEF ReloadRaises, End
<1>10. CASE Reassign
  BY <1>10 DEF Reassign
<1>. QED
  BY <1>1, <1>2, <1>3, <1>4, <1>5, <1>6, <1>7, <1>8, <1>9, <1>10 DEF StreamActions

LEMMA RowsStep ==
  ASSUME TypeOK, Counted, UploadsInRound, EachRowOnce, StreamActions
  PROVE  EachRowOnce'
<1> USE DEF TypeOK, EachRowOnce, stream, call, service, history
<1>0. \A b \in Buckets : buffer[b] \in Seq(Nat) /\ written[b] \in Nat
  BY SizesAssumption DEF SizesAssumption
<1>1. ASSUME NEW b \in Buckets, Write(b)
      PROVE  EachRowOnce'
  <2>1. /\ written'[b] = written[b] + 1 /\ buffer'[b] = Append(buffer[b], written[b] + 1)
        /\ \A c \in Buckets \ {b} : written'[c] = written[c] /\ buffer'[c] = buffer[c]
        /\ acked' = acked /\ applied' = applied /\ moved' = moved /\ cut' = cut
    BY <1>1 DEF Write
  <2>2. Rows(buffer'[b]) = Rows(buffer[b]) \cup {written[b] + 1}
    BY <1>0, <2>1, RowsOfAppend DEF Footer
  <2>3. 1..written'[b] = (1..written[b]) \cup {written[b] + 1}
    BY <1>0, <2>1
  <2>4. written[b] + 1 \notin acked[b]
    BY <1>0
  <2>. QED
    BY <2>1, <2>2, <2>3, <2>4
<1>2. ASSUME NEW b \in Buckets, Serve(b)
      PROVE  EachRowOnce'
  <2>1. \/ applied' = applied
        \/ applied' = [applied EXCEPT ![b] = @ \cup UpToFooter(buffer[b])]
    BY <1>2 DEF Serve
  <2>2. \A c \in Buckets : applied[c] \subseteq applied'[c]
    BY <2>1
  <2>. QED
    BY <1>2, <2>2 DEF Serve
<1>3. ASSUME NEW b \in Buckets, UploadSucceeds(b)
      PROVE  EachRowOnce'
  <2>1. /\ Rows(buffer'[b]) = {} /\ acked'[b] = acked[b] \cup Rows(buffer[b])
        /\ \A c \in Buckets \ {b} :
             /\ buffer'[c] = buffer[c] /\ acked'[c] = acked[c]
             /\ moved'[c] = moved[c] /\ cut'[c] = cut[c]
        /\ written' = written /\ applied' = applied
    BY <1>3, RowsOfEmpty DEF UploadSucceeds, AfterSuccess, NewWriter
  <2>2. acked'[b] \subseteq applied'[b] \cup moved'[b] \cup cut'[b]
    <3>1. CASE upload[b] = "moved"
      BY <1>3, <2>1, <3>1 DEF UploadSucceeds
    <3>2. CASE upload[b] # "moved"
      <4>1. upload[b] = "applied"
        BY <1>3, <3>2 DEF UploadSucceeds
      <4>2. UpToFooter(buffer[b]) \subseteq applied[b]
        BY <4>1 DEF UploadsInRound
      <4>3. cut'[b] = cut[b] \cup (Rows(buffer[b]) \ UpToFooter(buffer[b])) /\ moved' = moved
        BY <1>3, <3>2 DEF UploadSucceeds
      <4>. QED
        BY <2>1, <4>2, <4>3
    <3>. QED
      BY <3>1, <3>2
  <2>. QED
    BY <2>1, <2>2
<1>4. ASSUME NEW b \in Buckets, UploadFails(b)
      PROVE  EachRowOnce'
  BY <1>4 DEF UploadFails, AfterFailure, KeepWriter
<1>5. CASE Flush \/ Close
  BY <1>5 DEF Flush, Close
<1>6. CASE Round
  <2>1. \A b \in Buckets : Rows(buffer'[b]) = Rows(buffer[b])
    BY <1>0, <1>6, RowsOfFooter DEF Round
  <2>. QED
    BY <1>6, <2>1 DEF Round
<1>7. CASE FlushReturns
  BY <1>7 DEF FlushReturns
<1>8. CASE FlushFails \/ ReloadRaises
  BY <1>8 DEF FlushFails, ReloadRaises
<1>9. CASE Reassign
  BY <1>9 DEF Reassign
<1>. QED
  BY <1>1, <1>2, <1>3, <1>4, <1>5, <1>6, <1>7, <1>8, <1>9 DEF StreamActions

-----------------------------------------------------------------------------
(* The session's invariants                                                *)

LEMMA CommitStep ==
  ASSUME SessionTypeOK, CommitAccepted, [SessionNext]_allVars
  PROVE  CommitAccepted'
<1> USE DEF CommitAccepted, Accepted, Ended
<1>1. CASE /\ StreamActions
           /\ UNCHANGED <<sessionCall, keepalive, sessionService>>
           /\ status' = status \/ status' = state
  <2>1. state \in Accepted => applied' = applied
    BY AppliedWhenNormal
  <2>. QED
    BY <1>1, <2>1 DEF sessionCall, keepalive, sessionService
<1>2. CASE SessionActions /\ UNCHANGED <<stream, buckets, call, upload, service, history>>
  <2>1. applied' = applied
    BY <1>2 DEF service
  <2>2. CASE Begin
    BY <2>1, <2>2 DEF Begin, Call, keepalive, sessionService
  <2>3. CASE CloseSession
    BY <2>1, <2>3 DEF CloseSession, StopKeepalive, sessionService
  <2>4. CASE CommitAnswered
    BY <2>1, <2>4 DEF CommitAnswered, NotFoundInLoop, Goto, Finish, keepalive
  <2>5. CASE ReloadInCommit
    BY <2>1, <2>5 DEF ReloadInCommit, NotFoundInLoop, Goto, Finish, keepalive, sessionService
  <2>6. CASE Loop
    BY <2>1, <2>6 DEF Loop, Goto, Finish, keepalive, sessionService
  <2>7. CASE Check
    BY <2>1, <2>7 DEF Check, Finish, StopKeepalive, keepalive, sessionService
  <2>8. CASE AbortAnswered
    BY <2>1, <2>8 DEF AbortAnswered, Finish, StopKeepalive, keepalive
  <2>9. CASE TickStarts
    BY <2>1, <2>9 DEF TickStarts, KeepaliveOnly, sessionCall, sessionService
  <2>10. CASE TickParses \/ TickRaises
    BY <2>1, <2>10 DEF TickParses, TickRaises, NoSnapshot, KeepaliveOnly, sessionCall,
      sessionService
  <2>11. CASE ExecuteCommit
    BY <2>1, <2>11 DEF ExecuteCommit, ServiceOnly, sessionCall, keepalive
  <2>12. CASE CompleteCommit
    BY <2>1, <2>12 DEF CompleteCommit, ServiceOnly, sessionCall, keepalive
  <2>13. CASE EndedByOther
    BY <2>1, <2>13 DEF EndedByOther, ServiceOnly, sessionCall, keepalive
  <2>14. CASE Forget
    BY <2>1, <2>14 DEF Forget, ServiceOnly, sessionCall, keepalive
  <2>. QED
    BY <1>2, <2>2, <2>3, <2>4, <2>5, <2>6, <2>7, <2>8, <2>9, <2>10, <2>11, <2>12, <2>13, <2>14
    DEF SessionActions, SessionSteps, KeepaliveSteps, ServiceSteps
<1>3. CASE UNCHANGED allVars
  BY <1>3 DEF allVars, vars, service, sessionVars, sessionCall, keepalive, sessionService
<1>. QED
  BY <1>1, <1>2, <1>3, StepCases

LEMMA KeepaliveStep ==
  ASSUME SessionTypeOK, KeepaliveFollowsStop, [SessionNext]_allVars
  PROVE  KeepaliveFollowsStop'
<1> USE DEF KeepaliveFollowsStop
<1>1. CASE UNCHANGED keepalive
  BY <1>1 DEF keepalive
<1>2. CASE StopKeepalive
  BY <1>2 DEF StopKeepalive
<1>3. CASE KeepaliveSteps
  BY <1>3 DEF KeepaliveSteps, TickStarts, TickParses, TickRaises, Rearmed
<1>4. (UNCHANGED keepalive) \/ StopKeepalive \/ KeepaliveSteps
  <2>1. CASE Begin \/ CloseSession \/ SessionSteps
    BY <2>1 DEF Begin, CloseSession, SessionSteps, CommitAnswered, ReloadInCommit, Loop,
      Check, AbortAnswered
  <2>2. CASE ServiceSteps
    BY <2>2 DEF ServiceSteps, ExecuteCommit, CompleteCommit, EndedByOther, Forget,
      ServiceOnly
  <2>3. CASE UNCHANGED allVars
    BY <2>3 DEF allVars, sessionVars
  <2>. QED
    BY <2>1, <2>2, <2>3, StepCases DEF SessionActions
<1>. QED
  BY <1>1, <1>2, <1>3, <1>4

LEMMA StreamUnchanged ==
  ASSUME UploadsInRound, Emptied, EachRowOnce,
         UNCHANGED <<stream, buckets, call, upload, service, history>>
  PROVE  UploadsInRound' /\ Emptied' /\ EachRowOnce'
BY DEF UploadsInRound, Emptied, EachRowOnce, stream, call, service, history

LEMMA InvStep == IInv /\ [SessionNext]_allVars => IInv'
<1> SUFFICES ASSUME IInv, [SessionNext]_allVars PROVE IInv'
  OBVIOUS
<1>1. SessionTypeOK' /\ Counted'
  BY SessionTypes DEF IInv
<1>2. CommitAccepted' /\ KeepaliveFollowsStop'
  BY CommitStep, KeepaliveStep DEF IInv
<1>3. CASE StreamActions
  BY <1>1, <1>2, <1>3, UploadsStep, EmptiedStep, RowsStep DEF IInv, SessionTypeOK
<1>4. CASE UNCHANGED <<stream, buckets, call, upload, service, history>>
  BY <1>1, <1>2, <1>4, StreamUnchanged DEF IInv
<1>5. CASE UNCHANGED allVars
  BY <1>4, <1>5 DEF allVars, vars
<1>. QED
  BY <1>3, <1>4, <1>5, StepCases

LEMMA Invariance == SessionSpec => []IInv
BY InitInv, InvStep, PTL DEF SessionSpec

-----------------------------------------------------------------------------
(* The theorems                                                            *)

(* Every variable of the session, of its stream and of its keepalive stays *)
(* within its set of values: flush() counts no more than MaxRetries failed *)
(* rounds, and commit() no more polls than its timeout allows.             *)
THEOREM SessionTypeCorrect == SessionSpec => []SessionTypeOK
<1>1. IInv => SessionTypeOK
  BY DEF IInv
<1>. QED
  BY <1>1, Invariance, PTL

(* A row written to the stream is in its buffer or was acknowledged, never *)
(* both, whichever uploads fail, are retried or executed unnoticed.        *)
THEOREM RowsKeptOnce == SessionSpec => []EachRowOnce
<1>1. IInv => EachRowOnce
  BY DEF IInv
<1>. QED
  BY <1>1, Invariance, PTL

(* commit() returns only for a session the service has committed, with all *)
(* the rows of a closed stream, although it believes the status a          *)
(* keepalive thread may have overwritten and takes a session that is not   *)
(* found for committed.                                                    *)
THEOREM CommitIsTrue == SessionSpec => []CommitKeepsItsWord
<1>1. ASSUME IInv, place = "idle", request = "commit", ended = "ok", closed,
             NEW b \in Buckets
      PROVE  1..written[b] \subseteq content[b] \cup moved[b] \cup cut[b]
  <2>1. content = applied
    BY <1>1 DEF IInv, CommitAccepted, Accepted
  <2>2. Rows(buffer[b]) = {}
    BY <1>1, RowsOfEmpty DEF IInv, Emptied
  <2>3. 1..written[b] = Rows(buffer[b]) \cup acked[b]
        /\ acked[b] \subseteq applied[b] \cup moved[b] \cup cut[b]
    BY <1>1 DEF IInv, EachRowOnce
  <2>. QED
    BY <2>1, <2>2, <2>3
<1>2. IInv => CommitKeepsItsWord
  BY <1>1 DEF IInv, CommitAccepted, CommitKeepsItsWord
<1>. QED
  BY <1>2, Invariance, PTL

(* After commit, abort or close has stopped the keepalive no timer is ever *)
(* armed again, and it does not end without having been stopped.           *)
THEOREM StoppedStaysStopped == SessionSpec => []KeepaliveFollowsStop
<1>1. IInv => KeepaliveFollowsStop
  BY DEF IInv
<1>. QED
  BY <1>1, Invariance, PTL
-----------------------------------------------------------------------------
(* Progress: every call of the stream and of the session returns           *)

\* The session is not asked anything while a flush is running.
OneCall == place = "idle" \/ pc = "idle"

Sound == IInv /\ OneCall

LEMMA OneCallStep ==
  ASSUME OneCall, [SessionNext]_allVars
  PROVE  OneCall'
<1> USE DEF OneCall
<1>1. CASE StreamStep
  <2>1. place' = place
    BY <1>1 DEF StreamStep, sessionVars, sessionCall
  <2>2. CASE place = "idle"
    BY <2>1, <2>2
  <2>3. CASE place # "idle"
    BY <1>1, <2>3 DEF StreamStep, WriteWithSession, UploadSucceeds, UploadFails, Serve, Round,
      FlushReturns, ReloadRaises, Reassign, call
  <2>. QED BY <2>2, <2>3
<1>2. CASE FailedFlushStep
  BY <1>2 DEF FailedFlushStep, FlushFails, sessionCall
<1>3. CASE Begin \/ CloseSession
  BY <1>3 DEF Begin, CloseSession, vars, call
<1>4. CASE SessionSteps
  <2>1. place # "idle" /\ UNCHANGED pc
    BY <1>4 DEF SessionSteps, CommitAnswered, ReloadInCommit, Loop, Check, AbortAnswered, vars, call
  <2>. QED BY <2>1
<1>5. CASE KeepaliveSteps \/ ServiceSteps
  BY <1>5 DEF KeepaliveSteps, TickStarts, TickParses, TickRaises, KeepaliveOnly, ServiceSteps,
    ExecuteCommit, CompleteCommit, EndedByOther, Forget, ServiceOnly, vars, call, sessionCall
<1>6. CASE UNCHANGED allVars
  BY <1>6 DEF allVars, vars, call, sessionVars, sessionCall
<1>. QED BY <1>1, <1>2, <1>3, <1>4, <1>5, <1>6 DEF SessionNext

LEMMA SoundAlways == SessionInit /\ [][SessionNext]_allVars => []Sound
<1>1. SessionInit => Sound
  BY InitInv DEF Sound, OneCall, SessionInit
<1>2. Sound /\ [SessionNext]_allVars => Sound'
  BY InvStep, OneCallStep DEF Sound
<1>. QED BY <1>1, <1>2, PTL

\* What is left of a call of the session: polls, and steps of one pass.
Stage(l) == IF l \in {"check", "delete"} THEN 1 ELSE IF l = "loop" THEN 2
            ELSE IF l \in {"reload", "reload_again"} THEN 3 ELSE 4
SessionWork == 3 * (MaxPolls - polls) + Stage(place)

\* And of a flush: rounds, and the steps of the uploads of one.
Sent == {b \in Buckets : upload[b] = "sent"}
Width == 2 * Cardinality(Buckets) + 2
RoundWork == IF pc = "round" THEN Width ELSE 1 + Cardinality(Sent) + Cardinality(Running)
FlushWork == Width * (MaxRetries - attempt) + RoundWork

Work == IF place # "idle" THEN SessionWork ELSE IF pc # "idle" THEN FlushWork ELSE 0

LEMMA Counts ==
  ASSUME NEW S \in SUBSET Buckets
  PROVE  /\ IsFiniteSet(S) /\ Cardinality(S) \in Nat /\ Cardinality(Buckets) \in Nat
         /\ Cardinality(S) <= Cardinality(Buckets)
         /\ \A b \in S : Cardinality(S \ {b}) = Cardinality(S) - 1
BY SizesAssumption, FS_Subset, FS_CardinalityType, FS_RemoveElement DEF SizesAssumption

LEMMA Products ==
  ASSUME NEW w \in Nat, NEW n \in Nat
  PROVE  w * n \in Nat /\ w * (n + 1) = w * n + w
OBVIOUS

LEMMA WorkIsNat ==
  ASSUME Sound
  PROVE  /\ Work \in Nat /\ Width \in Nat
         /\ pc = "collect" => RoundWork \in Nat /\ RoundWork >= 1
         /\ SessionWork \in Nat /\ FlushWork \in Nat
<1>1. /\ polls \in 0..MaxPolls /\ attempt \in 0..MaxRetries
      /\ MaxPolls \in Nat /\ MaxRetries \in Nat
  BY SizesAssumption, SessionBoundsAssumption
  DEF Sound, IInv, SessionTypeOK, TypeOK, SizesAssumption, SessionBoundsAssumption
<1>2. Sent \in SUBSET Buckets /\ Running \in SUBSET Buckets
  BY DEF Sent, Running
<1>3. Width \in Nat /\ Cardinality(Sent) \in Nat /\ Cardinality(Running) \in Nat
  BY <1>2, Counts DEF Width
<1>4. MaxRetries - attempt \in Nat /\ MaxPolls - polls \in Nat
  BY <1>1
<1>5. Width * (MaxRetries - attempt) \in Nat
  BY <1>3, <1>4, Products
<1>6. RoundWork \in Nat /\ (pc = "collect" => RoundWork >= 1)
  BY <1>3 DEF RoundWork
<1>7. SessionWork \in Nat /\ FlushWork \in Nat
  BY <1>4, <1>5, <1>6 DEF SessionWork, FlushWork, Stage
<1>. QED BY <1>3, <1>6, <1>7 DEF Work

\* A step of a call of the session.
LEMMA SessionShortens ==
  ASSUME Sound, SessionSteps
  PROVE  Work' < Work
<1>1. /\ polls \in Nat /\ polls <= MaxPolls /\ MaxPolls \in Nat
  BY SizesAssumption, SessionBoundsAssumption
  DEF Sound, IInv, SessionTypeOK, TypeOK, SizesAssumption, SessionBoundsAssumption
<1>2. place # "idle" /\ pc = "idle" /\ pc' = "idle"
  <2>1. place # "idle" /\ pc' = pc
    BY DEF SessionSteps, CommitAnswered, ReloadInCommit, Loop, Check, AbortAnswered, vars, call
  <2>. QED BY <2>1 DEF Sound, OneCall
<1>3. Work = SessionWork /\ Work \in Nat /\ SessionWork >= 1
  BY <1>1, <1>2, WorkIsNat DEF Work, SessionWork, Stage
<1>4. CASE place' = "idle"
  BY <1>2, <1>3, <1>4 DEF Work
<1>5. CASE place' # "idle"
  <2>1. \/ polls' = polls /\ Stage(place') < Stage(place)
        \/ polls < MaxPolls /\ polls' = polls + 1 /\ place = "loop" /\ place' = "post_again"
    <3>1. CASE CommitAnswered \/ ReloadInCommit \/ Check \/ AbortAnswered
      BY <1>5, <3>1 DEF CommitAnswered, ReloadInCommit, Check, AbortAnswered, Goto, Finish, Stage
    <3>2. CASE Loop
      BY <1>5, <3>2 DEF Loop, Goto, Finish, Stage
    <3>. QED BY <3>1, <3>2 DEF SessionSteps
  <2>2. Work' = 3 * (MaxPolls - polls') + Stage(place')
    BY <1>5 DEF Work, SessionWork, Stage
  <2>3. Work = 3 * (MaxPolls - polls) + Stage(place)
    BY <1>3 DEF SessionWork
  <2>4. Stage(place) \in Nat /\ Stage(place') \in Nat
    BY DEF Stage
  <2>5. CASE polls' = polls /\ Stage(place') < Stage(place)
    BY <1>1, <2>2, <2>3, <2>4, <2>5
  <2>6. CASE polls' = polls + 1 /\ place = "loop" /\ place' = "post_again"
    <3>1. Stage(place) = 2 /\ Stage(place') = 4
      BY <2>6 DEF Stage
    <3>. QED BY <1>1, <2>2, <2>3, <2>6, <3>1
  <2>. QED BY <2>1, <2>5, <2>6
<1>. QED BY <1>4, <1>5

\* A step of a flush in its caller's thread.
LEMMA FlushShortens ==
  ASSUME Sound, FlushSteps, place' = place
  PROVE  Work' < Work
<1>1. /\ attempt \in Nat /\ attempt <= MaxRetries /\ MaxRetries \in Nat
      /\ upload \in [Buckets -> {"none", "sent", "applied", "moved", "gateway", "server", "client"}]
  BY SizesAssumption DEF Sound, IInv, SessionTypeOK, TypeOK, SizesAssumption
<1>2. pc \in {"round", "collect"}
  BY DEF FlushSteps, Round, FlushReturns, FlushFails, ReloadRaises
<1>3. place = "idle" /\ Work = FlushWork /\ Work \in Nat /\ Width \in Nat
  BY <1>2, WorkIsNat DEF Work, Sound, OneCall
<1>4. Width * (MaxRetries - attempt) \in Nat
  BY <1>1, <1>3, Products
<1>5. pc = "collect" => RoundWork \in Nat /\ RoundWork >= 1
  BY WorkIsNat
<1>6. CASE pc' = "idle"
  <2>1. pc = "collect"
    BY <1>6 DEF FlushSteps, Round, FlushReturns, FlushFails, ReloadRaises
  <2>2. FlushWork >= 1
    BY <1>4, <1>5, <2>1 DEF FlushWork
  <2>. QED BY <1>3, <1>6, <2>2 DEF Work
<1>7. CASE Round
  <2>1. pc = "round" /\ pc' = "collect" /\ attempt' = attempt
    BY <1>7 DEF Round
  <2>2. Cardinality(Sent') \in Nat /\ Cardinality(Running') \in Nat /\ Cardinality(Buckets) \in Nat
        /\ Cardinality(Sent') <= Cardinality(Buckets) /\ Cardinality(Running') <= Cardinality(Buckets)
    <3>1. Sent' \in SUBSET Buckets /\ Running' \in SUBSET Buckets
      BY DEF Sent, Running
    <3>. QED BY <3>1, Counts
  <2>3. RoundWork = Width /\ RoundWork' = 1 + Cardinality(Sent') + Cardinality(Running')
    BY <2>1 DEF RoundWork
  <2>4. RoundWork' < RoundWork /\ RoundWork' \in Nat /\ RoundWork \in Nat
    BY <2>2, <2>3 DEF Width
  <2>5. Work = Width * (MaxRetries - attempt) + RoundWork
        /\ Work' = Width * (MaxRetries - attempt) + RoundWork'
    BY <1>3, <2>1 DEF Work, FlushWork
  <2>. QED BY <1>4, <2>4, <2>5
<1>8. CASE FlushFails /\ pc' # "idle"
  <2>1. pc = "collect" /\ pc' = "round" /\ attempt' = attempt + 1 /\ attempt + 1 <= MaxRetries
    BY <1>8 DEF FlushFails, End, NextAttempt, MayRetry
  <2>2. RoundWork' = Width
    BY <2>1 DEF RoundWork
  <2>3. Work = Width * (MaxRetries - attempt) + RoundWork
        /\ Work' = Width * (MaxRetries - (attempt + 1)) + Width
    BY <1>3, <2>1, <2>2 DEF Work, FlushWork
  <2>4. PICK n \in Nat : n = MaxRetries - (attempt + 1)
    BY <1>1, <2>1
  <2>5. MaxRetries - attempt = n + 1
    BY <1>1, <2>4
  <2>6. Width * (n + 1) = Width * n + Width
    BY <1>3, Products
  <2>7. Work = Work' + RoundWork /\ Work' \in Nat
    BY <1>3, <1>4, <2>3, <2>4, <2>5, <2>6
  <2>. QED BY <1>5, <2>1, <2>7
<1>. QED BY <1>6, <1>7, <1>8 DEF FlushSteps, FlushReturns, ReloadRaises, End

\* A step of a thread of a flush.
LEMMA UploadShortens ==
  ASSUME Sound, NEW b \in Buckets, UploadSteps(b), place' = place
  PROVE  Work' < Work
<1>1. /\ upload \in [Buckets -> {"none", "sent", "applied", "moved", "gateway", "server", "client"}]
      /\ attempt \in Nat /\ attempt <= MaxRetries /\ MaxRetries \in Nat
  BY SizesAssumption DEF Sound, IInv, SessionTypeOK, TypeOK, SizesAssumption
<1>2. upload[b] \in {"sent", "applied", "moved"}
  BY DEF UploadSteps, Serve, UploadSucceeds, UploadFails
<1>3. pc = "collect" /\ pc' = pc /\ attempt' = attempt
  <2>1. pc = "collect"
    BY <1>2 DEF Sound, IInv, UploadsInRound, SessionTypeOK, TypeOK
  <2>. QED BY <2>1 DEF UploadSteps, Serve, UploadSucceeds, UploadFails, call
<1>4. place = "idle" /\ Work = FlushWork
  BY <1>3 DEF Sound, OneCall, Work
<1>5. Sent \in SUBSET Buckets /\ Running \in SUBSET Buckets
  BY DEF Sent, Running
<1>6. /\ Cardinality(Sent) \in Nat /\ Cardinality(Running) \in Nat
      /\ \A c \in Sent : Cardinality(Sent \ {c}) = Cardinality(Sent) - 1
      /\ \A c \in Running : Cardinality(Running \ {c}) = Cardinality(Running) - 1
  BY <1>5, Counts
<1>7. \/ b \in Sent /\ Sent' = Sent \ {b} /\ Running' = Running
      \/ Sent' = Sent /\ b \in Running /\ Running' = Running \ {b}
      \/ b \in Sent /\ Sent' = Sent \ {b} /\ b \in Running /\ Running' = Running \ {b}
  <2>1. CASE Serve(b)
    <3>1. PICK r \in {"applied", "moved"} : upload' = [upload EXCEPT ![b] = r]
      BY <2>1 DEF Serve
    <3>2. upload[b] = "sent"
      BY <2>1 DEF Serve
    <3>3. Sent' = Sent \ {b} /\ Running' = Running /\ b \in Sent
      BY <1>1, <3>1, <3>2 DEF Sent, Running
    <3>. QED BY <3>3
  <2>2. CASE UploadSucceeds(b)
    <3>1. upload' = [upload EXCEPT ![b] = "none"] /\ upload[b] \in {"applied", "moved"}
      BY <2>2 DEF UploadSucceeds
    <3>2. Sent' = Sent /\ Running' = Running \ {b} /\ b \in Running
      BY <1>1, <3>1 DEF Sent, Running
    <3>. QED BY <3>2
  <2>3. CASE UploadFails(b)
    <3>1. PICK r \in {"gateway", "server", "client"} : upload' = [upload EXCEPT ![b] = r]
      BY <2>3 DEF UploadFails
    <3>2. Sent' = Sent \ {b} /\ Running' = Running \ {b} /\ b \in Running
      BY <1>1, <1>2, <3>1 DEF Sent, Running
    <3>3. b \notin Sent => Sent \ {b} = Sent
      OBVIOUS
    <3>. QED BY <3>2, <3>3
  <2>. QED BY <2>1, <2>2, <2>3 DEF UploadSteps
<1>8. Cardinality(Sent') + Cardinality(Running') < Cardinality(Sent) + Cardinality(Running)
      /\ Cardinality(Sent') \in Nat /\ Cardinality(Running') \in Nat
  <2>1. Sent' \in SUBSET Buckets /\ Running' \in SUBSET Buckets
    BY DEF Sent, Running
  <2>2. Cardinality(Sent') \in Nat /\ Cardinality(Running') \in Nat
    BY <2>1, Counts
  <2>. QED BY <1>6, <1>7, <2>2
<1>9. Width * (MaxRetries - attempt) \in Nat
  BY <1>1, WorkIsNat, Products
<1>10. /\ Work = Width * (MaxRetries - attempt) + (1 + Cardinality(Sent) + Cardinality(Running))
       /\ Work' = Width * (MaxRetries - attempt) + (1 + Cardinality(Sent') + Cardinality(Running'))
  BY <1>3, <1>4 DEF Work, FlushWork, RoundWork
<1>. QED BY <1>6, <1>8, <1>9, <1>10
\* Whatever else happens, a call is where it was or its own steps moved it.
LEMMA BusySteps ==
  ASSUME Sound, Busy, [SessionNext]_allVars
  PROVE  \/ CallerSteps
         \/ \E b \in Buckets : UploadSteps(b) /\ UNCHANGED sessionVars
         \/ UNCHANGED <<place, polls, pc, attempt, upload>>
<1> USE DEF Busy
<1>1. CASE StreamStep
  <2>1. CASE \E b \in Buckets : UploadSucceeds(b) \/ UploadFails(b) \/ Serve(b)
    BY <1>1, <2>1 DEF StreamStep, UploadSteps
  <2>2. CASE Round \/ FlushReturns \/ ReloadRaises
    BY <1>1, <2>2 DEF StreamStep, CallerSteps, FlushSteps
  <2>3. CASE Reassign
    BY <1>1, <2>3 DEF StreamStep, Reassign, call, sessionVars, sessionCall
  <2>4. ~(place = "idle" /\ (Flush \/ Close)) /\ ~\E b \in Buckets : WriteWithSession(b)
    BY DEF Flush, Close, WriteWithSession, Write
  <2>. QED BY <1>1, <2>1, <2>2, <2>3, <2>4 DEF StreamStep
<1>2. CASE FailedFlushStep \/ SessionSteps
  BY <1>2 DEF CallerSteps
<1>3. CASE Begin \/ CloseSession
  BY <1>3 DEF Begin, CloseSession
<1>4. CASE KeepaliveSteps \/ ServiceSteps
  BY <1>4 DEF KeepaliveSteps, TickStarts, TickParses, TickRaises, KeepaliveOnly, ServiceSteps,
    ExecuteCommit, CompleteCommit, EndedByOther, Forget, ServiceOnly, vars, call, sessionCall
<1>5. CASE UNCHANGED allVars
  BY <1>5 DEF allVars, vars, call, sessionVars, sessionCall
<1>. QED BY <1>1, <1>2, <1>3, <1>4, <1>5 DEF SessionNext

LEMMA CallShortens ==
  ASSUME Sound, Busy, [SessionNext]_allVars
  PROVE  /\ CallerSteps => Work' < Work
         /\ \A b \in Buckets : UploadSteps(b) /\ UNCHANGED sessionVars => Work' < Work
         /\ \/ Work' < Work
            \/ Work' = Work /\ UNCHANGED <<place, pc, upload>>
<1>1. ASSUME CallerSteps PROVE Work' < Work
  <2>1. CASE SessionSteps
    BY <2>1, SessionShortens
  <2>2. CASE FailedFlushStep
    BY <2>2, FlushShortens DEF FailedFlushStep, FlushSteps, sessionCall
  <2>3. CASE FlushSteps /\ UNCHANGED sessionVars
    BY <2>3, FlushShortens DEF sessionVars, sessionCall
  <2>. QED BY <1>1, <2>1, <2>2, <2>3 DEF CallerSteps
<1>2. ASSUME NEW b \in Buckets, UploadSteps(b), UNCHANGED sessionVars PROVE Work' < Work
  BY <1>2, UploadShortens DEF sessionVars, sessionCall
<1>3. ASSUME UNCHANGED <<place, polls, pc, attempt, upload>> PROVE Work' = Work
  <2>1. Sent' = Sent /\ Running' = Running
    BY <1>3 DEF Sent, Running
  <2>. QED BY <1>3, <2>1 DEF Work, SessionWork, FlushWork, RoundWork
<1>. QED BY <1>1, <1>2, <1>3, BusySteps

(* No step during a call sets it back, and every step of the call itself    *)
(* brings it nearer to its end, whatever the keepalive, the service and     *)
(* other clients do meanwhile: no mixture of failed uploads makes a flush   *)
(* go round in circles, and no status a tick overwrites keeps commit() in   *)
(* its loop for longer than its timeout.                                    *)
THEOREM CallsRunDown ==
  SessionSpec => [][Busy =>
      /\ Work' <= Work
      /\ CallerSteps \/ (\E b \in Buckets : UploadSteps(b) /\ UNCHANGED sessionVars)
           => Work' < Work]_allVars
<1>. DEFINE Down == Busy =>
              /\ Work' <= Work
              /\ CallerSteps \/ (\E b \in Buckets : UploadSteps(b) /\ UNCHANGED sessionVars)
                   => Work' < Work
            Natural == Work \in Nat
<1>1. Sound /\ Natural /\ Natural' /\ [SessionNext]_allVars => [Down]_allVars
  <2>1. ASSUME Sound, Natural, Natural', [SessionNext]_allVars, Busy PROVE Down
    BY <2>1, CallShortens
  <2>. QED BY <2>1
<1>2. Sound => Natural
  BY WorkIsNat
<1>. HIDE DEF Down, Natural
<1>3. SessionSpec => [][Down]_allVars
  BY <1>1, <1>2, SoundAlways, PTL DEF SessionSpec
<1>. QED BY <1>3 DEF Down

\* The call gets nearer to its end, or is over.
Progress == <><<Work' < Work>>_allVars \/ <>~Busy

\* A thread of a flush, or the caller, that has a step to make makes it.
\* Only a step that changes something shortens a call.
LEMMA ShorterMoves ==
  ASSUME Sound, Work' < Work
  PROVE  ~UNCHANGED allVars
<1>1. ASSUME UNCHANGED allVars PROVE Work' = Work
  BY <1>1 DEF Work, SessionWork, FlushWork, RoundWork, Sent, Running, Stage, allVars, vars, call,
    sessionVars, sessionCall
<1>2. Work \in Nat
  BY WorkIsNat
<1>. QED BY <1>1, <1>2

LEMMA UploadGoesOn ==
  ASSUME NEW b \in Buckets
  PROVE  []Sound /\ []GuardsSuffice /\ [][SessionNext]_allVars /\ FairUpload(b)
         => (UploadGuard(b) => Progress)
<1>. DEFINE Shorter == Work' < Work
            Calls == Busy
            Idle == ~Busy
<1>1. GuardsSuffice => UploadCan(b)
  BY DEF GuardsSuffice
<1>2. ASSUME Sound, Calls, [SessionNext]_allVars
      PROVE  /\ Shorter \/ (UploadGuard(b) => UploadGuard(b)')
             /\ <<UploadSteps(b) /\ UNCHANGED sessionVars>>_allVars => Shorter
  BY <1>2, CallShortens DEF UploadGuard, Running
<1>3. ASSUME Sound, Shorter PROVE ~UNCHANGED allVars
  BY <1>3, ShorterMoves
<1>4. (Calls <=> ~Idle) /\ (Progress <=> <><<Shorter>>_allVars \/ <>Idle)
  BY DEF Progress
<1>. HIDE DEF Shorter, Calls, Idle
<1>. QED BY <1>1, <1>2, <1>3, <1>4, PTL DEF UploadCan, FairUpload

LEMMA CallerGoesOn ==
  []Sound /\ []GuardsSuffice /\ [][SessionNext]_allVars /\ FairCaller
    => (CallGuard => Progress)
<1>. DEFINE Shorter == Work' < Work
            Calls == Busy
            Idle == ~Busy
<1>1. GuardsSuffice => CallerCan
  BY DEF GuardsSuffice
<1>2. ASSUME Sound, Calls, [SessionNext]_allVars
      PROVE  /\ Shorter \/ (CallGuard => CallGuard')
             /\ <<CallerSteps>>_allVars => Shorter
  BY <1>2, CallShortens DEF CallGuard, Running
<1>3. ASSUME Sound, Shorter PROVE ~UNCHANGED allVars
  BY <1>3, ShorterMoves
<1>4. (Calls <=> ~Idle) /\ (Progress <=> <><<Shorter>>_allVars \/ <>Idle)
  BY DEF Progress
<1>. HIDE DEF Shorter, Calls, Idle
<1>. QED BY <1>1, <1>2, <1>3, <1>4, PTL DEF CallerCan, FairCaller

LEMMA SomebodyGoesOn ==
  []Sound /\ []GuardsSuffice /\ [][SessionNext]_allVars /\ Fairness => Progress
<1>. DEFINE Ready == []Sound /\ []GuardsSuffice /\ [][SessionNext]_allVars
<1>1. Ready /\ FairCaller => (CallGuard => Progress)
  BY CallerGoesOn
<1>2. \A b \in Buckets : Ready /\ FairUpload(b) => (UploadGuard(b) => Progress)
  BY UploadGoesOn
<1>3. ~Busy => Progress
  BY PTL DEF Progress
<1>4. Sound /\ Busy => CallGuard \/ \E b \in Buckets : UploadGuard(b)
  BY DEF Sound, IInv, SessionTypeOK, TypeOK, Busy, CallGuard, UploadGuard, Running
<1>5. Ready => Sound
  BY PTL
<1>. HIDE DEF Ready
<1>6. Ready /\ Fairness => Progress
  BY <1>1, <1>2, <1>3, <1>4, <1>5 DEF Fairness
<1>. QED BY <1>6 DEF Ready

LEMMA ProgressAlways ==
  []Sound /\ []GuardsSuffice /\ [][SessionNext]_allVars /\ []Fairness => []Progress
BY SomebodyGoesOn, PTL

\* No natural number that nothing raises falls again and again.  This holds of
\* every behaviour and of any state function in the place of Work; that it does
\* is induction over the steps of a behaviour, which is out of the provers' reach.
NoEndlessDescent ==
  [](Work \in Nat) => ~(<>[][Work' <= Work]_allVars /\ []<><<Work' < Work>>_allVars)

(* Every call of the stream and of the session returns: flush() gives up    *)
(* after its rounds and commit() after its timeout, for any number of       *)
(* buckets.  Of the behaviour the theorem is given that who may step can,   *)
(* that no natural number falls for ever, and that what is fair stays fair  *)
(* (fairness is about the tail of a behaviour; but that "for every bucket"  *)
(* may change places with "always" is not known to the provers).            *)
THEOREM CallsDoEnd ==
  SessionSpec /\ []GuardsSuffice /\ []Fairness /\ NoEndlessDescent => SessionCallsEnd
<1>. DEFINE Shorter == Work' < Work
            NotLonger == Work' <= Work
            Natural == Work \in Nat
            Calls == Busy
            Idle == ~Busy
<1>1. Sound => Natural
  BY WorkIsNat
<1>2. Sound /\ Natural /\ Natural' /\ [SessionNext]_allVars /\ Calls => NotLonger
  BY CallShortens
<1>3. SessionSpec => []Sound /\ [][SessionNext]_allVars
  BY SoundAlways, PTL DEF SessionSpec
<1>4. SessionSpec /\ []GuardsSuffice /\ []Fairness => []Progress
  BY <1>3, ProgressAlways, PTL
<1>5. []Progress <=> [](<><<Shorter>>_allVars \/ <>Idle)
  BY PTL DEF Progress
<1>6. NoEndlessDescent <=>
        ([]Natural => ~(<>[][NotLonger]_allVars /\ []<><<Shorter>>_allVars))
  BY DEF NoEndlessDescent
<1>7. (SessionCallsEnd <=> []GuardsSuffice /\ (Calls ~> Idle)) /\ (Calls <=> ~Idle)
  BY DEF SessionCallsEnd
<1>. HIDE DEF Shorter, NotLonger, Natural, Calls, Idle
<1>. QED BY <1>1, <1>2, <1>3, <1>4, <1>5, <1>6, <1>7, PTL
=============================================================================
