----------------------------- MODULE UploadPipe -----------------------------
(***************************************************************************)
(* What a streamed upload promises its caller: until a call has failed,    *)
(* the request body holds the first of what was written, in order, and     *)
(* finish() says "ok" only when the body holds all of it.  Once a call has *)
(* failed nothing more is promised, and in particular no "ok".             *)
(***************************************************************************)
EXTENDS SequencesExt

CONSTANT Piece

VARIABLES
  written,   \* what the caller has written
  body,      \* what the request body holds
  outcome    \* what the last call has said, if it said anything

Init == written = <<>> /\ body = <<>> /\ outcome = "open"

Write ==
  /\ \E p \in Piece : written' = Append(written, p)
  /\ outcome' = IF outcome = "failed" THEN "failed" ELSE "open"
  /\ UNCHANGED body

Send ==
  /\ outcome # "failed" => IsPrefix(body, body') /\ IsPrefix(body', written)
  /\ UNCHANGED <<written, outcome>>

Finish == outcome = "open" /\ body = written /\ outcome' = "ok" /\ UNCHANGED <<written, body>>

CallAgain == outcome = "ok" /\ outcome' = "open" /\ UNCHANGED <<written, body>>

Fail == outcome' = "failed" /\ UNCHANGED written

Next == Write \/ Send \/ Finish \/ CallAgain \/ Fail

Spec == Init /\ [][Next]_<<written, body, outcome>>
=============================================================================
