----------------------------- MODULE RipProcess ------------------------------
(***************************************************************************)
(* One run of the RIP program (main of src/src/memjet-rip.cpp) as a parent *)
(* process sees it: the lines it writes to its two pipes and its exit code.*)
(* A line matters for the event and the error_code it carries as JSON, or  *)
(* it is mere text.  The print session itself is PesSession; here it       *)
(* succeeds or fails.                                                      *)
(*                                                                         *)
(* CompletesUnverified is a mistaken form of the definition after it; no   *)
(* specification uses it.                                                  *)
(***************************************************************************)
EXTENDS Naturals, Sequences

CONSTANTS
  PipeSize,     \* lines a pipe holds before its writer blocks
  MaxProgress,  \* progress lines of a print session, at most
  MaxStderr     \* lines of warnings on stderr, at most

ASSUME PipeAssumption   == PipeSize \in Nat \ {0}
ASSUME BoundsAssumption == MaxProgress \in Nat /\ MaxStderr \in Nat

VARIABLES
  rip,       \* how far main has come
  todo,      \* what it has yet to write before it goes on
  exitCode,  \* its exit code
  verdict,   \* what it found out about the job
  late,      \* a late submission worker still writes to stdout
  progress,  \* progress lines written
  warnings,  \* lines of warnings written
  out,       \* the pipe at its stdout
  err        \* the pipe at its stderr

ripVars == <<rip, todo, exitCode, verdict, late, progress, warnings, out, err>>

Alive == rip \in {"setup", "session", "verify", "exiting"}

\* RIP_INVALID_ARGS stands for every code of the checks and of the rendering.
StandardCodes == {"RIP_INVALID_ARGS", "RIP_JSL_SUBMISSION_FAILED",
                  "RIP_VERIFICATION_FAILED", "RIP_RUNTIME_EXCEPTION"}

\* PROGRESS stands for the codes of a session's own log: JSL_TRANSFER_COMPLETED,
\* WAIT_QUEUE_DRAIN, PRINT_COMPLETION_ACKED and others.
Codes == StandardCodes \cup {"PROGRESS"}

Lines == [event : {"none", "created", "completed", "failed"}, code : Codes \cup {"none"}]

Text            == [event |-> "none", code |-> "none"]
Line(e, c)      == [event |-> e, code |-> c]
ToOut(line)     == [to |-> "out", line |-> line]
ToErr           == [to |-> "err", line |-> Text]

\* Logger::error writes to both streams, Logger::event to stdout.
FailLines(c) == <<ToErr, ToOut(Line("none", c)), ToOut(Line("failed", c))>>

-----------------------------------------------------------------------------
RipInit ==
  /\ rip = "none" /\ todo = <<>> /\ exitCode = "zero" /\ verdict = "none"
  /\ late = FALSE /\ progress = 0 /\ warnings = 0
  /\ out = <<>> /\ err = <<>>

RipStarts ==
  /\ rip = "none"
  /\ rip' = "setup"
  /\ UNCHANGED <<todo, exitCode, verdict, late, progress, warnings, out, err>>

\* The next line goes into its pipe, once there is room.  A late worker's
\* pieces of text may get in front of it, and it is no JSON any more.
WriteLine ==
  /\ Alive /\ todo # <<>>
  /\ \/ /\ Head(todo).to = "out" /\ Len(out) < PipeSize
        /\ \E line \in {Head(todo).line} \cup (IF late THEN {Text} ELSE {}) :
             out' = Append(out, line)
        /\ UNCHANGED err
     \/ /\ Head(todo).to = "err" /\ Len(err) < PipeSize
        /\ err' = Append(err, Text)
        /\ UNCHANGED out
  /\ todo' = Tail(todo)
  /\ UNCHANGED <<rip, exitCode, verdict, late, progress, warnings>>

At(stage) == rip = stage /\ todo = <<>>

\* return fail(c, ...)
Fail(c) ==
  /\ rip' = "exiting" /\ exitCode' = "nonzero" /\ verdict' = "failed"
  /\ todo' = FailLines(c)
  /\ UNCHANGED <<progress, warnings, out, err>>

\* The job is done: rip.completed, and return 0.
Complete ==
  /\ rip' = "exiting" /\ exitCode' = "zero" /\ verdict' = "ok"
  /\ todo' = <<ToOut(Line("completed", "none"))>>
  /\ UNCHANGED <<late, progress, warnings, out, err>>

\* --help shows the usage and exits before anything else.
ShowHelp ==
  /\ At("setup")
  /\ rip' = "exiting" /\ verdict' = "help"
  /\ UNCHANGED <<todo, exitCode, late, progress, warnings, out, err>>

\* The checks, the rendering and the library's initialisation fail, a dry run
\* is over, or the job gets its id.
SetUp ==
  /\ At("setup")
  /\ \/ /\ \E c \in {"RIP_INVALID_ARGS", "RIP_RUNTIME_EXCEPTION"} : Fail(c)
        /\ UNCHANGED late
     \/ Complete
     \/ /\ rip' = "session"
        /\ todo' = <<ToOut(Line("created", "none"))>>
        /\ UNCHANGED <<exitCode, verdict, late, progress, warnings, out, err>>

\* logOrchestrationStep writes a JSON line, whose error_code is set on progress
\* as well as on errors.
LogProgress ==
  /\ At("session") /\ progress < MaxProgress
  /\ progress' = progress + 1
  /\ todo' = <<ToOut(Line("none", "PROGRESS"))>>
  /\ UNCHANGED <<rip, exitCode, verdict, late, warnings, out, err>>

\* logError, and the warnings of the wrapper and of the verification.
LogWarning ==
  /\ At("session") \/ At("verify")
  /\ warnings < MaxStderr
  /\ warnings' = warnings + 1
  /\ todo' = <<ToErr>>
  /\ UNCHANGED <<rip, exitCode, verdict, late, progress, out, err>>

\* runPrintSession returns false or throws.  It may have left a worker behind.
SessionFails ==
  /\ At("session")
  /\ \E c \in {"RIP_JSL_SUBMISSION_FAILED", "RIP_RUNTIME_EXCEPTION"} : Fail(c)
  /\ late' \in BOOLEAN

\* The legacy orchestration just returns 1.
LegacyFails ==
  /\ At("session")
  /\ rip' = "exiting" /\ exitCode' = "nonzero" /\ verdict' = "failed"
  /\ todo' = <<ToErr>>
  /\ UNCHANGED <<late, progress, warnings, out, err>>

CompletesUnverified ==
  /\ At("session")
  /\ rip' = "verify"
  /\ todo' = <<ToOut(Line("completed", "none"))>>
  /\ UNCHANGED <<exitCode, verdict, late, progress, warnings, out, err>>

SessionSucceeds ==
  /\ At("session")
  /\ rip' = "verify"
  /\ UNCHANGED <<todo, exitCode, verdict, late, progress, warnings, out, err>>

\* The print is verified, cannot be verified here, or is found to have failed.
Verify ==
  /\ At("verify")
  /\ \/ Complete
     \/ /\ \E c \in {"RIP_VERIFICATION_FAILED", "RIP_RUNTIME_EXCEPTION"} : Fail(c)
        /\ UNCHANGED late

RipExits ==
  /\ At("exiting")
  /\ rip' = "exited"
  /\ UNCHANGED <<todo, exitCode, verdict, late, progress, warnings, out, err>>

\* The process is killed, at any time, also while it tears itself down.
RipCrashes ==
  /\ Alive
  /\ rip' = "exited" /\ exitCode' = "nonzero" /\ todo' = <<>>
  /\ UNCHANGED <<verdict, late, progress, warnings, out, err>>

RipRuns ==
  \/ WriteLine \/ ShowHelp \/ SetUp \/ LogProgress \/ LogWarning
  \/ SessionFails \/ LegacyFails \/ SessionSucceeds \/ Verify \/ RipExits

RipTypeOK ==
  /\ rip \in {"none", "setup", "session", "verify", "exiting", "exited"}
  /\ todo \in Seq([to : {"out", "err"}, line : Lines])
  /\ exitCode \in {"zero", "nonzero"} /\ verdict \in {"none", "ok", "help", "failed"}
  /\ late \in BOOLEAN
  /\ progress \in 0..MaxProgress /\ warnings \in 0..MaxStderr
  /\ out \in Seq(Lines) /\ Len(out) <= PipeSize
  /\ err \in Seq(Lines) /\ Len(err) <= PipeSize

=============================================================================
