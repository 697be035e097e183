----------------------------- MODULE Submission ------------------------------
(***************************************************************************)
(* What runPrintSession relies on when it submits a job on a worker        *)
(* thread, without the threads: the job's last page is delivered at most   *)
(* once and only into an open stream; the submission counts as done only   *)
(* if it was delivered, as failed only once the stream is beyond use; and  *)
(* a stream is closed only after one or the other.                         *)
(***************************************************************************)

VARIABLES
  outcome,    \* what the session takes the submission for
  port,       \* the stream
  delivered   \* whether the engine got the whole job

Init == outcome = "pending" /\ port = "open" /\ delivered = FALSE

Deliver ==
  /\ port = "open" /\ ~delivered
  /\ delivered' = TRUE
  /\ UNCHANGED <<outcome, port>>

Succeed ==
  /\ outcome = "pending" /\ port = "open" /\ delivered
  /\ outcome' = "ok"
  /\ UNCHANGED <<port, delivered>>

Fail ==
  /\ outcome = "pending" /\ port # "open"
  /\ outcome' = "failed"
  /\ UNCHANGED <<port, delivered>>

Abort ==
  /\ outcome # "ok" /\ port = "open"
  /\ port' = "aborted"
  /\ UNCHANGED <<outcome, delivered>>

Close ==
  /\ outcome = "ok" \/ port = "aborted"
  /\ port' = "closed"
  /\ UNCHANGED <<outcome, delivered>>

Next == Deliver \/ Succeed \/ Fail \/ Abort \/ Close

Spec == Init /\ [][Next]_<<outcome, port, delivered>>

=============================================================================
