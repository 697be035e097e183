------------------------------- MODULE Adapter -------------------------------
(***************************************************************************)
(* The adapter service (src/adapter/service.py) and one job of it: POST    *)
(* /jobs registers the job and starts its thread, _run_job runs the RIP    *)
(* program (RipProcess) and follows its output, GET /jobs/{id} reads the   *)
(* record in the meantime.  Jobs share nothing in the adapter but a lock   *)
(* that makes every access to a record one step, so one job stands for     *)
(* any number of them.  The log tail, which only mirrors the lines, is     *)
(* left out.                                                               *)
(*                                                                         *)
(* ConsumeAnyLine, ConsumeUnrecorded, ReadsAfterExit, ExitDecides and      *)
(* ExitIgnored are mistaken forms of the definitions after them; no        *)
(* specification uses them.                                                *)
(***************************************************************************)
EXTENDS RipProcess

VARIABLES
  status,  \* job["status"]
  events,  \* the kinds of event in job["events"]
  code,    \* job["error_code"]
  exit,    \* job["exit_code"]
  thread,  \* where the request handler and then _run_job are
  copy     \* a GET's copy of the record, taken under the lock

record == <<status, events, code, exit>>
vars   == <<ripVars, record, thread, copy>>

Terminal == {"completed", "failed"}

NoCopy == "none"

-----------------------------------------------------------------------------
(* POST /jobs.                                                             *)

Register ==
  /\ thread = "none"
  /\ status' = "queued"
  /\ thread' = "posting"
  /\ UNCHANGED <<ripVars, events, code, exit, copy>>

StartJob ==
  /\ thread = "posting"
  /\ thread' = "started"
  /\ UNCHANGED <<ripVars, record, copy>>

\* The thread cannot be started.
StartJobFails ==
  /\ thread = "posting"
  /\ status' = "failed" /\ code' = "RIP_RUNTIME_EXCEPTION"
  /\ events' = events \cup {"failed"}
  /\ thread' = "ended"
  /\ UNCHANGED <<ripVars, exit, copy>>

-----------------------------------------------------------------------------
(* The job's thread, _run_job.                                             *)

ThreadRuns ==
  /\ thread = "started"
  /\ status' = "running"
  /\ thread' = "launch"
  /\ UNCHANGED <<ripVars, events, code, exit, copy>>

Launch ==
  /\ thread = "launch"
  /\ RipStarts
  /\ thread' = "stdout"
  /\ UNCHANGED <<record, copy>>

\* The program cannot be run.
LaunchFails ==
  /\ thread = "launch"
  /\ status' = "failed" /\ code' = "RIP_RUNTIME_EXCEPTION" /\ exit' = "nonzero"
  /\ events' = events \cup {"failed"}
  /\ thread' = "ended"
  /\ UNCHANGED <<ripVars, copy>>

StatusAfter(line) ==
  CASE line.event = "created"   -> "preparing"
    [] line.event = "completed" -> "completed"
    [] line.event = "failed"    -> "failed"
    [] OTHER                    -> status

CodeAfter(line) == IF line.code = "none" THEN code ELSE line.code

ConsumeUnrecorded(line) ==
  /\ status' = StatusAfter(line)
  /\ code'   = CodeAfter(line)
  /\ UNCHANGED <<events, exit>>

ConsumeAnyLine(line) ==
  /\ events' = events \cup {line.event}
  /\ status' = StatusAfter(line)
  /\ code'   = CodeAfter(line)
  /\ UNCHANGED exit

\* _consume_line: the job follows the line's event and takes over its code.
ConsumeLine(line) ==
  /\ events' = events \cup ({line.event} \ {"none"})
  /\ status' = StatusAfter(line)
  /\ code'   = CodeAfter(line)
  /\ UNCHANGED exit

ReadsAfterExit ==
  /\ thread = "stdout" /\ out # <<>> /\ rip = "exited"
  /\ ConsumeLine(Head(out))
  /\ out' = Tail(out)
  /\ UNCHANGED <<rip, todo, exitCode, verdict, late, progress, warnings, err, thread, copy>>

\* The stdout pipe is read to its end, which is when the RIP is gone.
ReadStdout ==
  /\ thread = "stdout" /\ out # <<>>
  /\ ConsumeLine(Head(out))
  /\ out' = Tail(out)
  /\ UNCHANGED <<rip, todo, exitCode, verdict, late, progress, warnings, err, thread, copy>>

StdoutEnds ==
  /\ thread = "stdout" /\ out = <<>> /\ rip = "exited"
  /\ thread' = "stderr"
  /\ UNCHANGED <<ripVars, record, copy>>

\* Only then is stderr read.
ReadStderr ==
  /\ thread = "stderr" /\ err # <<>>
  /\ ConsumeLine(Head(err))
  /\ err' = Tail(err)
  /\ UNCHANGED <<rip, todo, exitCode, verdict, late, progress, warnings, out, thread, copy>>

StderrEnds ==
  /\ thread = "stderr" /\ err = <<>>
  /\ thread' = "wait"
  /\ UNCHANGED <<ripVars, record, copy>>

ExitDecides ==
  /\ thread = "wait"
  /\ exit' = exitCode
  /\ status' = IF exitCode = "zero" THEN "completed" ELSE "failed"
  /\ events' = events \cup {status'}
  /\ code' = code
  /\ thread' = "ended"
  /\ UNCHANGED <<ripVars, copy>>

ExitIgnored ==
  /\ thread = "wait"
  /\ exit' = exitCode
  /\ thread' = "ended"
  /\ UNCHANGED <<ripVars, status, events, code, copy>>

\* proc.wait() returns: the exit code settles a job no event has settled.
WaitReturns ==
  /\ thread = "wait"
  /\ exit' = exitCode
  /\ thread' = "ended"
  /\ IF status \in Terminal THEN UNCHANGED <<status, events, code>>
     ELSE /\ status' = IF exitCode = "zero" THEN "completed" ELSE "failed"
          /\ events' = events \cup {status'}
          /\ code' = IF exitCode = "nonzero" /\ code = "none" THEN "RIP_RUNTIME_EXCEPTION" ELSE code
  /\ UNCHANGED <<ripVars, copy>>

RunJob ==
  \/ StartJob \/ StartJobFails \/ ThreadRuns \/ Launch \/ LaunchFails
  \/ ReadStdout \/ StdoutEnds \/ ReadStderr \/ StderrEnds \/ WaitReturns

-----------------------------------------------------------------------------
(* GET /jobs/{id}: the record is copied under the lock, but the copy shares*)
(* the list of events, which the answer reads after the lock is released.  *)

CopyRecord ==
  /\ status # "none" /\ copy = NoCopy
  /\ copy' = status
  /\ UNCHANGED <<ripVars, record, thread>>

Answer ==
  /\ copy # NoCopy
  /\ copy' = NoCopy
  /\ UNCHANGED <<ripVars, record, thread>>

-----------------------------------------------------------------------------
Init ==
  /\ RipInit
  /\ status = "none" /\ events = {} /\ code = "none" /\ exit = "none"
  /\ thread = "none" /\ copy = NoCopy

RipSteps == RipRuns /\ UNCHANGED <<record, thread, copy>>

Rip == RipSteps \/ (RipCrashes /\ UNCHANGED <<record, thread, copy>>)

Next == Register \/ RunJob \/ Rip \/ CopyRecord \/ Answer

Spec == Init /\ [][Next]_vars

\* A job's thread and its process are scheduled; a process that has to write
\* into a full pipe waits.
FairSpec == Spec /\ WF_vars(RunJob) /\ WF_vars(RipSteps)

-----------------------------------------------------------------------------
(* Properties.                                                             *)

\* Every variable holds a value the code can give it.
TypeOK ==
  /\ RipTypeOK
  /\ status \in {"none", "queued", "running", "preparing"} \cup Terminal
  /\ events \subseteq {"created", "completed", "failed"}
  /\ code \in Codes \cup {"none"}
  /\ exit \in {"none", "zero", "nonzero"}
  /\ thread \in {"none", "posting", "started", "launch", "stdout", "stderr",
                 "wait", "ended"}
  /\ copy \in {NoCopy, "queued", "running", "preparing"} \cup Terminal

\* A job the adapter calls completed is one the RIP found to be printed (or
\* could not verify, or only rehearsed) or was only to show its usage, although
\* the verdict reaches it through a pipe, a garbled line, an exit code or a crash.
CompletedIsOk == status = "completed" => verdict \in {"ok", "help"}

\* An answer of GET /jobs/{id} that says a job ended shows the event that ended
\* it, although its list of events is read after the lock was released.
AnswerShowsEnd == copy \in Terminal => copy \in events

\* A job whose exit code is known has ended.
ExitSettles == exit # "none" => status \in Terminal

\* A job that ended stays as it ended: a client that has seen the end need not
\* ask again.
EndIsFinal == [][(status \in Terminal) => (status' = status)]_vars

\* Every job ends, with its thread, provided the RIP's warnings fit its pipe.
JobEnds == status # "none" ~> status \in Terminal /\ thread = "ended"

\* "nonzero exit without event => failed + RIP_RUNTIME_EXCEPTION"
ExitWithoutEvent ==
  [][WaitReturns /\ exitCode = "nonzero" /\ events \cap Terminal = {}
       => status' = "failed" /\ code' = "RIP_RUNTIME_EXCEPTION"]_vars

-----------------------------------------------------------------------------
(* What the safety properties rest on, as an inductive invariant.          *)

\* The record follows the thread: it ends with an event of its own, never
\* before the output is read, and with a verdict behind it.
RecordInv ==
  /\ thread = "none" => status = "none" /\ copy = NoCopy
  /\ thread \in {"posting", "started", "launch"} => status \notin Terminal
  /\ status \in Terminal => status \in events
  /\ copy \in Terminal => copy \in events
  /\ status = "completed" => verdict \in {"ok", "help"}
  /\ exit # "none" => status \in Terminal /\ thread = "ended"

\* The process runs while its stdout is read, and finds its verdict last.
ProcessInv ==
  /\ thread \in {"none", "posting", "started", "launch"} => rip = "none"
  /\ thread \in {"stderr", "wait"} => rip = "exited"
  /\ verdict # "none" => rip \in {"exiting", "exited"}
  /\ rip \in {"exiting", "exited"} /\ exitCode = "zero" => verdict \in {"ok", "help"}

\* A line that ends the job agrees with the verdict.
Agrees(line) ==
  /\ line.event \in Terminal => verdict # "none"
  /\ line.event = "completed" => verdict = "ok"

\* The lines on their way: none with an event comes after one that ends the job,
\* wherever that one has come, and those on stderr are mere text.
PipeInv ==
  /\ \A i \in DOMAIN out : Agrees(out[i])
  /\ \A i \in DOMAIN todo : Agrees(todo[i].line)
  /\ \A i, j \in DOMAIN out :
       i < j /\ out[i].event \in Terminal => out[j].event = "none"
  /\ \A i \in DOMAIN out, j \in DOMAIN todo :
       out[i].event \in Terminal => todo[j].line.event = "none"
  /\ \A i, j \in DOMAIN todo :
       i < j /\ todo[i].line.event \in Terminal => todo[j].line.event = "none"
  /\ status \in Terminal /\ thread = "stdout" =>
       /\ verdict # "none"
       /\ \A i \in DOMAIN out : out[i].event = "none"
       /\ \A i \in DOMAIN todo : todo[i].line.event = "none"
  /\ \A i \in DOMAIN err : err[i] = Text

=============================================================================
