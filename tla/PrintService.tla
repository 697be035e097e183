---------------------------- MODULE PrintService ------------------------------
(***************************************************************************)
(* What runPrintSession promises to the program that calls it, without the *)
(* gates, the probes and the engine's states: each session sends its job   *)
(* at most once, through a stream that is the printhead's only one, and    *)
(* comes to one outcome, which never changes.  By then its stream is       *)
(* closed; success means that its job went out whole and that nothing is   *)
(* left in the engine's queue, through which some job has gone.            *)
(***************************************************************************)

CONSTANTS
  Sessions,  \* each sends one job, named like the session
  Jobs,      \* those, and jobs that come from elsewhere
  Queued     \* the jobs that are in the queue to begin with

VARIABLES
  outcome,   \* what runPrintSession has reported
  port,      \* each session's stream
  job        \* how far each job has come

vars == <<outcome, port, job>>

Stages == {"absent", "sent", "queued", "gone"}

Init ==
  /\ outcome = [s \in Sessions |-> "pending"]
  /\ port = [s \in Sessions |-> "none"]
  /\ job  = [j \in Jobs |-> IF j \in Queued THEN "queued" ELSE "absent"]

\* A job that was sent enters the queue or is discarded; a queued one leaves it.
Advances ==
  {<<"sent", "queued">>, <<"sent", "gone">>, <<"queued", "gone">>}

JobsAdvance ==
  /\ job' \in [Jobs -> Stages]
  /\ \A j \in Jobs : job'[j] = job[j] \/ <<job[j], job'[j]>> \in Advances

Work == JobsAdvance /\ UNCHANGED <<outcome, port>>

\* A job from elsewhere is sent.
OthersSend(j) ==
  /\ job[j] = "absent"
  /\ job' = [job EXCEPT ![j] = "sent"]
  /\ UNCHANGED <<outcome, port>>

Open(s) ==
  /\ outcome[s] = "pending" /\ port[s] = "none"
  /\ \A t \in Sessions : port[t] \notin {"open", "aborted"}
  /\ port' = [port EXCEPT ![s] = "open"]
  /\ UNCHANGED <<outcome, job>>

Send(s) ==
  /\ outcome[s] = "pending" /\ port[s] = "open" /\ job[s] = "absent"
  /\ job' = [job EXCEPT ![s] = "sent"]
  /\ UNCHANGED <<outcome, port>>

Abort(s) ==
  /\ outcome[s] = "pending" /\ port[s] = "open"
  /\ port' = [port EXCEPT ![s] = "aborted"]
  /\ UNCHANGED <<outcome, job>>

\* A stream that did not take its job whole is aborted before it is closed.
Close(s) ==
  /\ outcome[s] = "pending"
  /\ port[s] = "aborted" \/ (port[s] = "open" /\ job[s] # "absent")
  /\ port' = [port EXCEPT ![s] = "closed"]
  /\ UNCHANGED <<outcome, job>>

Succeed(s) ==
  /\ outcome[s] = "pending" /\ port[s] = "closed" /\ job[s] # "absent"
  /\ \A j \in Jobs : job[j] # "queued"
  /\ \E j \in Jobs : job[j] = "gone"
  /\ outcome' = [outcome EXCEPT ![s] = "success"]
  /\ UNCHANGED <<port, job>>

\* A session may fail at any time with its stream closed, taking jobs out of the
\* queue as it goes.
Fail(s) ==
  /\ outcome[s] = "pending" /\ port[s] \in {"none", "closed"}
  /\ outcome' = [outcome EXCEPT ![s] = "failed"]
  /\ JobsAdvance
  /\ UNCHANGED port

Next ==
  \/ Work
  \/ \E j \in Jobs \ Sessions : OthersSend(j)
  \/ \E s \in Sessions :
       Open(s) \/ Send(s) \/ Abort(s) \/ Close(s) \/ Succeed(s) \/ Fail(s)

Spec == Init /\ [][Next]_vars

=============================================================================
