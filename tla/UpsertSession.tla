---------------------------- MODULE UpsertSession ----------------------------
(***************************************************************************)
(* A TableUpsertSession of odps/tunnel/tabletunnel.py with one open stream *)
(* (module UpsertStream): commit, abort and close of the session by the    *)
(* thread that writes the stream, and the keepalive timer, whose ticks run *)
(* on threads of their own and reload status and slot map.                 *)
(*                                                                         *)
(* A tick's request is answered in one step and the answer is parsed in a  *)
(* later one, so it may be older than what it overwrites.                  *)
(*                                                                         *)
(* The service is outside the repository.  It is taken to execute a commit *)
(* once, on a session that is NORMAL, and to answer later commits with the *)
(* session as it is; to take rows while the session is NORMAL; to let a    *)
(* session that is NORMAL expire or be aborted by another client; and to   *)
(* forget a session that has ended, whose name it then does not know.      *)
(***************************************************************************)
EXTENDS UpsertStream

CONSTANTS
  MaxPolls,       \* bound: polls of commit() before _commit_timeout is over
  MaxSharedRows,  \* bound: rows of a stream whose session is being ended
  MaxSharedMoves  \* bound: moves of a bucket of such a session

ASSUME SessionBoundsAssumption ==
  MaxPolls \in Nat /\ MaxSharedRows \in Nat /\ MaxSharedMoves \in Nat

VARIABLES
  place,       \* where the caller is in a call of the session
  request,     \* that call, or the last one
  ended,       \* how it ended
  polls,       \* passes through the loop of commit()
  status,      \* the session object's `status`
  timer,       \* the keepalive timer, or where its running tick is
  snapshot,    \* the answer a tick has received and not yet parsed
  stopped,     \* _keepalive_stopped
  state,       \* the service: the status of the session
  forgotten,   \* the service no longer knows the session
  late,        \* a commit request nobody waits for is on its way
  content      \* the service: the rows it has committed

sessionCall == <<place, request, ended, polls>>
keepalive == <<timer, snapshot, stopped>>
sessionService == <<state, forgotten, late, content>>
sessionVars == <<sessionCall, status, keepalive, sessionService>>
allVars == <<vars, sessionVars>>

NoSnapshot == [slots |-> [b \in Buckets |-> 0], status |-> "NORMAL"]

SessionInit ==
  /\ Init
  /\ place = "idle" /\ request = "none" /\ ended = "none" /\ polls = 0
  /\ status = "NORMAL"
  /\ timer = "armed" /\ snapshot = NoSnapshot /\ stopped = FALSE
  /\ state = "NORMAL" /\ forgotten = FALSE /\ late = FALSE
  /\ content = applied

-----------------------------------------------------------------------------
(* The calls of the session                                                *)

Untouched == request = "none" /\ state = "NORMAL"
MayEnd == total <= MaxSharedRows /\ \A b \in Buckets : owner[b] <= MaxSharedMoves
Call(name, l) == request' = name /\ place' = l /\ ended' = "none" /\ polls' = 0
Goto(l) == place' = l /\ UNCHANGED <<request, ended, polls>>
Finish(how) == place' = "idle" /\ ended' = how /\ polls' = 0 /\ UNCHANGED request

\* _stop_keepalive: a timer that is still counting is cancelled, a tick that
\* already runs goes on.
StopKeepalive ==
  /\ stopped' = TRUE
  /\ timer' = IF timer = "armed" THEN "off" ELSE timer
  /\ UNCHANGED snapshot

Begin ==
  /\ place = "idle" /\ pc = "idle" /\ MayEnd
  /\ \/ Call("commit", "post") \/ Call("commit_async", "post") \/ Call("abort", "delete")
  /\ UNCHANGED <<vars, status, keepalive, sessionService>>

CloseSession ==
  /\ place = "idle" /\ pc = "idle" /\ MayEnd
  /\ request' = "close" /\ ended' = "ok" /\ UNCHANGED <<place, polls>>
  /\ StopKeepalive
  /\ UNCHANGED <<vars, status, sessionService>>

\* A session that is not found counts as committed, but not before the loop.
NotFoundIsCommitted(l) == l # "delete"    \* mutant: from the first request on
NotFoundInLoop(l) == l \in {"post_again", "reload_again"}

\* A commit request has its answer.
CommitAnswered ==
  /\ place \in {"post", "post_again"}
  /\ \/ /\ ~forgotten /\ state \in {"COMMITTING", "COMMITTED"}
        /\ Goto(IF place = "post" THEN "reload" ELSE "reload_again")
        /\ UNCHANGED <<status, late>>
     \/ /\ NotFoundInLoop(place) /\ forgotten
        /\ status' = "COMMITTED" /\ Goto("loop")
        /\ UNCHANGED late
     \/ /\ Finish("raised")
        /\ late' \in {late, ~forgotten}
        /\ UNCHANGED status
  /\ UNCHANGED <<vars, keepalive, state, forgotten, content>>

\* self.reload() of commit(), answered and parsed at once.
ReloadInCommit ==
  /\ place \in {"reload", "reload_again"}
  /\ \/ /\ ~forgotten
        /\ status' = state /\ slots' = owner
        /\ IF request = "commit_async" THEN Finish("ok") ELSE Goto("loop")
     \/ /\ NotFoundInLoop(place) /\ forgotten
        /\ status' = "COMMITTED" /\ Goto("loop")
        /\ UNCHANGED slots
     \/ /\ Finish("raised")
        /\ UNCHANGED <<slots, status>>
  /\ UNCHANGED <<stream, buckets, call, upload, service, history, keepalive, sessionService>>

StillCommitting(s) == s \in {"NORMAL", "COMMITTING"}

Loop ==
  /\ place = "loop"
  /\ IF StillCommitting(status)
     THEN \/ /\ polls < MaxPolls
             /\ polls' = polls + 1 /\ place' = "post_again" /\ UNCHANGED <<request, ended>>
          \/ Finish("raised")         \* _commit_timeout
     ELSE Goto("check")
  /\ UNCHANGED <<vars, status, keepalive, sessionService>>

\* The last test of commit() reads the status once more.
Check ==
  /\ place = "check"
  /\ IF status = "COMMITTED"
     THEN StopKeepalive /\ Finish("ok")
     ELSE UNCHANGED keepalive /\ Finish("raised")
  /\ UNCHANGED <<vars, status, sessionService>>

AbortAnswered ==
  /\ place = "delete"
  /\ \/ /\ state = "NORMAL"
        /\ state' = "ABORTED"
        /\ \/ StopKeepalive /\ Finish("ok")
           \/ UNCHANGED keepalive /\ Finish("raised")   \* the answer is lost
     \/ Finish("raised") /\ UNCHANGED <<state, keepalive>>
  /\ UNCHANGED <<vars, status, forgotten, late, content>>

-----------------------------------------------------------------------------
(* The keepalive: _keepalive_tick                                          *)

\* The timer's steps that touch neither the caller nor the service.
KeepaliveOnly ==
  UNCHANGED <<stream, buckets, call, upload, service, history, sessionCall, sessionService>>

RearmAlways == "armed"             \* mutant: _keepalive_stopped is not looked at
Rearmed == IF stopped THEN "off" ELSE "armed"

\* The timer fires and its request is answered: from then on the tick cannot be
\* cancelled.
TickStarts ==
  /\ timer = "armed"
  /\ timer' = "running"
  /\ snapshot' = [slots |-> owner, status |-> state]
  /\ KeepaliveOnly /\ UNCHANGED <<slots, status, stopped>>

\* The answer is parsed.  A session that has ended needs no keepalive; for
\* another the timer is armed again, unless it was stopped meanwhile.
TickParses ==
  /\ timer = "running"
  /\ slots' = snapshot.slots /\ status' = snapshot.status
  /\ snapshot' = NoSnapshot
  /\ IF StillCommitting(status') THEN timer' = Rearmed /\ UNCHANGED stopped
                                 ELSE timer' = "off" /\ stopped' = TRUE
  /\ KeepaliveOnly

\* No answer, or an error, as always for a session that is forgotten.
TickRaises ==
  /\ timer = "running"
  /\ timer' = Rearmed
  /\ snapshot' = NoSnapshot
  /\ KeepaliveOnly /\ UNCHANGED <<slots, status, stopped>>

-----------------------------------------------------------------------------
(* The service                                                             *)

ServiceOnly == UNCHANGED <<vars, sessionCall, status, keepalive>>

ExecuteCommit ==
  /\ place \in {"post", "post_again"} \/ late
  /\ state = "NORMAL"
  /\ state' \in {"COMMITTING", "COMMITTED"}
  /\ content' = applied /\ late' = FALSE
  /\ ServiceOnly /\ UNCHANGED forgotten

CompleteCommit ==
  /\ state = "COMMITTING"
  /\ state' = "COMMITTED"
  /\ ServiceOnly /\ UNCHANGED <<forgotten, late, content>>

EndedByOther ==
  /\ state = "NORMAL" /\ MayEnd
  /\ state' \in {"EXPIRED", "ABORTED"}
  /\ ServiceOnly /\ UNCHANGED <<forgotten, late, content>>

Forget ==
  /\ state \in {"COMMITTED", "EXPIRED", "ABORTED"} /\ ~forgotten
  /\ forgotten' = TRUE /\ late' = FALSE
  /\ ServiceOnly /\ UNCHANGED <<state, content>>

-----------------------------------------------------------------------------
(* The stream                                                              *)

WriteWithSession(b) == place = "idle" /\ (Untouched \/ total < MaxSharedRows) /\ Write(b)

StreamStep ==
  /\ \/ \E b \in Buckets :
          \/ WriteWithSession(b) \/ UploadSucceeds(b) \/ UploadFails(b)
          \/ state = "NORMAL" /\ Serve(b)
     \/ place = "idle" /\ (Flush \/ Close)
     \/ Round \/ FlushReturns \/ ReloadRaises
     \/ Reassign /\ (Untouched \/ \A b \in Buckets : owner'[b] <= MaxSharedMoves)
  /\ UNCHANGED sessionVars

\* The reload of flush(), when it succeeds, brings the status too.
FailedFlushStep ==
  /\ FlushFails
  /\ \/ slots' = slots /\ UNCHANGED status
     \/ /\ \E b \in Failed : upload[b] = "gateway"
        /\ ~forgotten /\ slots' = owner /\ status' = state
  /\ UNCHANGED <<sessionCall, keepalive, sessionService>>

KeepaliveSteps ==
  TickStarts \/ TickParses \/ TickRaises

SessionSteps == CommitAnswered \/ ReloadInCommit \/ Loop \/ Check \/ AbortAnswered

ServiceSteps == ExecuteCommit \/ CompleteCommit \/ EndedByOther \/ Forget

SessionNext ==
  \/ StreamStep \/ FailedFlushStep
  \/ Begin \/ CloseSession \/ SessionSteps
  \/ KeepaliveSteps \/ ServiceSteps

\* A call that has begun goes on, and so do the threads of a flush: their
\* requests are answered, if only by an error.
CallerSteps == SessionSteps \/ FailedFlushStep \/ (FlushSteps /\ UNCHANGED sessionVars)

FairCaller == WF_allVars(CallerSteps)
FairUpload(b) == WF_allVars(UploadSteps(b) /\ UNCHANGED sessionVars)
Fairness == FairCaller /\ \A b \in Buckets : FairUpload(b)

SessionSpec == SessionInit /\ [][SessionNext]_allVars /\ Fairness

-----------------------------------------------------------------------------
(* Properties                                                              *)

ServiceStatuses == {"NORMAL", "COMMITTING", "COMMITTED", "EXPIRED", "ABORTED"}

(* Every variable keeps its type.                                          *)
SessionTypeOK ==
  /\ TypeOK
  /\ place \in {"idle", "post", "post_again", "reload", "reload_again", "loop", "check", "delete"}
  /\ request \in {"none", "commit", "commit_async", "abort", "close"}
  /\ ended \in {"none", "ok", "raised"} /\ polls \in 0..MaxPolls
  /\ {status, state} \subseteq ServiceStatuses
  /\ timer \in {"armed", "running", "off"}
  /\ snapshot \in [slots : [Buckets -> 0..MaxMoves], status : ServiceStatuses]
  /\ {stopped, forgotten, late} \subseteq BOOLEAN
  /\ content \in [Buckets -> SUBSET (1..MaxRows)]

(* When commit() returns without raising, the service has committed the     *)
(* session, and if the stream was closed every row written to it is in      *)
(* what was committed, but for the rows the stream itself loses.  This is   *)
(* so however the keepalive's answers overwrite the status commit() looks   *)
(* at, and although it takes a session that is not found for committed.     *)
CommitKeepsItsWord ==
  place = "idle" /\ request = "commit" /\ ended = "ok" =>
    /\ state = "COMMITTED"
    /\ closed => \A b \in Buckets : 1..written[b] \subseteq content[b] \cup moved[b] \cup cut[b]

(* Once the keepalive was stopped, by commit, abort, close or by itself, no *)
(* timer counts: a tick that was running does not arm the next one.  And it *)
(* never ends without having been stopped, whatever its reloads raise.      *)
KeepaliveFollowsStop ==
  /\ stopped => timer # "armed"
  /\ timer = "off" => stopped

\* The guards that fairness holds the caller and the threads of a flush to.
CallGuard == place # "idle" \/ pc = "round" \/ (pc = "collect" /\ Running = {})
UploadGuard(b) == b \in Running

CallerCan == CallGuard => ENABLED <<CallerSteps>>_allVars
UploadCan(b) == UploadGuard(b) => ENABLED <<UploadSteps(b) /\ UNCHANGED sessionVars>>_allVars
GuardsSuffice == CallerCan /\ \A b \in Buckets : UploadCan(b)

Busy == pc # "idle" \/ place # "idle"

(* Nobody who has a step to make is kept from it, and so every call of the  *)
(* stream and of the session returns: flush gives up after MaxRetries       *)
(* rounds, and commit after its timeout.                                    *)
SessionCallsEnd == []GuardsSuffice /\ (Busy ~> ~Busy)
=============================================================================
